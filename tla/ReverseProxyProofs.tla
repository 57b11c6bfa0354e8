------------------------- MODULE ReverseProxyProofs -------------------------
(***************************************************************************)
(* Proofs about ReverseProxy, for every limit of redirections and whatever *)
(* clients and other servers send: how the loop ends and what it returns,  *)
(* what the hosts are asked, what the client gets, and the locals' types.  *)
(*                                                                         *)
(* A host that is asked parses the text it receives, so most of the module *)
(* is about texts: where Find finds, what Substr, SplitAt and Lines cut    *)
(* out, that a request which is written and parsed again is itself, and    *)
(* that an answer is read back as what the host has written.               *)
(***************************************************************************)
EXTENDS ReverseProxy, InductionLemmas

(***************************************************************************)
(* Until the call ends there is room for another redirection, no error,    *)
(* and nothing in the response but the redirection that is being followed. *)
(* A redirection stands in the response of a finished call only after the  *)
(* last one, or with an error.                                             *)
(***************************************************************************)
Following == pc \in {"idle", "forward", "write", "read", "parse"}
LoopInv ==
  /\ i \in 0 .. MAX_REDIRECTS
  /\ Following => status = "OK" /\ i < MAX_REDIRECTS /\ response.code \in {0, 301, 302}
  /\ pc = "done" =>
       \/ status = "PROXY_ERROR" /\ response.code \in {0, 301, 302}
       \/ /\ status = "OK" /\ response.code \in Codes
          /\ response.code \in {301, 302} => i = MAX_REDIRECTS

LEMMA ParsedCode ==
  Parsed.form = "parsed" => Parsed.response.code \in Codes
BY DEF Parsed, ParseResponse

LEMMA LoopStep == LoopInv /\ [Next]_vars => LoopInv'
  <1> SUFFICES ASSUME LoopInv, [Next]_vars PROVE LoopInv'
    OBVIOUS
  <1> USE DEF LoopInv, Following, Goto
  <1>0. MAX_REDIRECTS \in Nat \ {0}
    BY ProxyAssumption
  <1>1. ASSUME NEW text \in Requests, HandleRequest(text) PROVE LoopInv'
    BY <1>1 DEF HandleRequest
  <1>2. CASE Connect \/ Write \/ WriteThrows \/ ParseThrows
    BY <1>2 DEF Connect, Write, WriteThrows, ParseThrows, call
  <1>3. CASE Unreachable \/ Unrecognized
    BY <1>3 DEF Unreachable, Unrecognized
  <1>4. ASSUME NEW text \in Texts, Read(text) PROVE LoopInv'
    BY <1>4 DEF Read
  <1>5. CASE Relay
    BY <1>5, ParsedCode DEF Relay, Redirects
  <1>6. CASE RedirectNowhere
    BY <1>6, ParsedCode DEF RedirectNowhere, Redirects
  <1>7. CASE Redirect
    <2>1. i' = i + 1 /\ response'.code \in {301, 302} /\ status' = "OK"
      BY <1>7 DEF Redirect, Redirects, Counted
    <2>2. pc' = IF i + 1 < MAX_REDIRECTS THEN "forward" ELSE "done"
      BY <1>7 DEF Redirect, Counted
    <2>3. i < MAX_REDIRECTS
      BY <1>7 DEF Redirect
    <2>. QED
      BY <1>0, <2>1, <2>2, <2>3 DEF Codes
  <1>8. CASE Return
    BY <1>0, <1>8 DEF Return, NoResponse
  <1>9. CASE UNCHANGED vars
    BY <1>9 DEF vars, call
  <1>. QED
    BY <1>1, <1>2, <1>3, <1>4, <1>5, <1>6, <1>7, <1>8, <1>9 DEF Next, Loop, ForwardRequest, Peer

LEMMA LoopInit == Init => LoopInv
BY ProxyAssumption DEF Init, LoopInv, Following, NoResponse

(***************************************************************************)
(* Whatever the limit and the answers, a redirection is passed on as a     *)
(* success only after MAX_REDIRECTS of them.                               *)
(***************************************************************************)
THEOREM FollowsRedirections == Spec => []RedirectionsFollowed
  <1>1. LoopInv => RedirectionsFollowed
    BY DEF LoopInv, RedirectionsFollowed
  <1>. QED
    BY <1>1, LoopInit, LoopStep, PTL DEF Spec

(***************************************************************************)
(* The session's model assumes of a ReverseProxyHandler what it keeps.     *)
(***************************************************************************)
THEOREM KeepsResults == Spec => []ResultsAsPromised
  <1>1. LoopInv => ResultsAsPromised
    BY DEF LoopInv, ResultsAsPromised, ReverseProxyResults
  <1>. QED
    BY <1>1, LoopInit, LoopStep, PTL DEF Spec

-----------------------------------------------------------------------------
(* Find, and what the parts of a text are. *)

(***************************************************************************)
(* A function of positions that takes its value from a later position, or  *)
(* ends.                                                                   *)
(***************************************************************************)
Stepping(n, V, next, base, G) ==
  n \in Nat /\ V # {} /\ next \in [0 .. n -> 0 .. n] /\ base \in [0 .. n -> V] /\ G \in [0 .. n -> [V -> V]]

IsStepped(f, n, next, base, G) ==
  \A k \in 0 .. n : f[k] = IF next[k] > k THEN G[k][f[next[k]]] ELSE base[k]

LEMMA SteppedExists ==
  ASSUME NEW n, NEW V, NEW next, NEW base, NEW G, Stepping(n, V, next, base, G)
  PROVE  \E f \in [0 .. n -> V] : IsStepped(f, n, next, base, G)
  <1> DEFINE S == 0 .. n
             rank == [k \in S |-> n - k]
             F == [k \in S |-> [f \in [S -> V] |-> IF next[k] > k THEN G[k][f[next[k]]] ELSE base[k]]]
  <1>0. n \in Nat /\ V # {} /\ next \in [S -> S] /\ base \in [S -> V] /\ G \in [S -> [V -> V]]
    BY DEF Stepping
  <1>1. rank \in [S -> Nat]
    BY <1>0
  <1>2. \A k \in S : next[k] > k => next[k] \in S /\ rank[next[k]] < rank[k]
    BY <1>0
  <1>3. F \in [S -> [[S -> V] -> V]]
    <2> HIDE DEF S
    <2>. QED
      BY <1>0
  <1>4. ASSUME NEW k \in S, NEW f \in [S -> V], NEW g \in [S -> V],
               \A j \in S : rank[j] < rank[k] => f[j] = g[j]
        PROVE  F[k][f] = F[k][g]
    <2>1. F[k][f] = (IF next[k] > k THEN G[k][f[next[k]]] ELSE base[k])
      OBVIOUS
    <2>2. F[k][g] = (IF next[k] > k THEN G[k][g[next[k]]] ELSE base[k])
      OBVIOUS
    <2> HIDE DEF F, S, rank
    <2>. QED
      BY <1>2, <1>4, <2>1, <2>2
  <1>5. \E f \in [S -> V] : \A k \in S : f[k] = F[k][f]
    <2> HIDE DEF S, rank, F
    <2>1. Recursion(S, V, rank, F)
      BY <1>0, <1>1, <1>3, <1>4 DEF Recursion
    <2>. QED
      BY <2>1, RankRecursion, SMT
  <1>6. PICK f \in [S -> V] : \A k \in S : f[k] = F[k][f]
    BY <1>5
  <1>7. IsStepped(f, n, next, base, G)
    BY <1>6 DEF IsStepped
  <1>. QED
    BY <1>7

-----------------------------------------------------------------------------
(***************************************************************************)
(* Texts.  A pattern stands at a position of a text; Find returns the first*)
(* position from the given one.                                            *)
(***************************************************************************)
StandsAt(k, pattern, text) ==
  k + Len(pattern) <= Len(text) /\ \A j \in 1 .. Len(pattern) : text[k + j] = pattern[j]

Finds(text, pattern, from, r) ==
  IF r = Npos THEN \A k \in Nat : k >= from => ~StandsAt(k, pattern, text)
  ELSE /\ r \in Nat /\ r >= from /\ StandsAt(r, pattern, text)
       /\ \A k \in Nat : k >= from /\ k < r => ~StandsAt(k, pattern, text)

LEMMA LeastIs ==
  ASSUME NEW T \in SUBSET Nat, T # {}
  PROVE  Min(T) \in T /\ \A n \in T : Min(T) <= n
  <1>1. PICK m \in T : \A n \in T : m <= n
    BY LeastNumber
  <1>. QED
    BY <1>1 DEF Min

LEMMA StandsIs ==
  ASSUME NEW A, NEW text \in Seq(A), NEW pattern \in Seq(A), NEW k \in Nat
  PROVE  StandsAt(k, pattern, text) <=>
           k + Len(pattern) <= Len(text) /\ SubSeq(text, k + 1, k + Len(pattern)) = pattern
  <1> DEFINE l == Len(pattern)
             cut == SubSeq(text, k + 1, k + l)
  <1>0. l \in Nat /\ Len(text) \in Nat
    BY LenProperties
  <1> HIDE DEF l
  <1>1. ASSUME k + l <= Len(text)
        PROVE  cut \in Seq(A) /\ Len(cut) = l /\ \A j \in 1 .. l : cut[j] = text[k + j]
    BY <1>0, <1>1
  <1> HIDE DEF cut
  <1>2. ASSUME k + l <= Len(text)
        PROVE  cut = pattern <=> \A j \in 1 .. l : text[k + j] = pattern[j]
    <2>1. ASSUME \A j \in 1 .. l : text[k + j] = pattern[j] PROVE cut = pattern
      BY <1>1, <1>2, <2>1, SeqEqual DEF l
    <2>. QED
      BY <1>1, <1>2, <2>1
  <1>. QED
    BY <1>2 DEF StandsAt, l, cut

LEMMA FindIs ==
  ASSUME NEW A, NEW text \in Seq(A), NEW pattern \in Seq(A), NEW from \in Nat
  PROVE  Finds(text, pattern, from, Find(text, pattern, from))
  <1> DEFINE T == {k \in from .. Len(text) - Len(pattern) :
                     SubSeq(text, k + 1, k + Len(pattern)) = pattern}
             r == Find(text, pattern, from)
  <1>0. Len(pattern) \in Nat /\ Len(text) \in Nat
    BY LenProperties
  <1>1. r = IF T = {} THEN Npos ELSE Min(T)
    BY Zenon DEF Find
  <1>2. T \in SUBSET Nat
    BY <1>0
  <1>3. \A k \in Nat : k \in T <=> k >= from /\ StandsAt(k, pattern, text)
    <2> SUFFICES ASSUME NEW k \in Nat
                 PROVE  k \in T <=> k >= from /\ StandsAt(k, pattern, text)
      OBVIOUS
    <2>1. k \in from .. Len(text) - Len(pattern) <=> k >= from /\ k + Len(pattern) <= Len(text)
      BY <1>0
    <2>. QED
      BY <2>1, StandsIs
  <1> HIDE DEF T, r
  <1>4. ASSUME T = {} PROVE Finds(text, pattern, from, r)
    BY <1>1, <1>3, <1>4 DEF Finds
  <1>5. ASSUME T # {} PROVE Finds(text, pattern, from, r)
    <2>1. r \in T /\ \A n \in T : r <= n
      BY <1>1, <1>2, <1>5, LeastIs
    <2>2. r \in Nat /\ r # Npos
      BY <1>2, <2>1 DEF Npos
    <2>. QED
      BY <1>3, <2>1, <2>2 DEF Finds
  <1>6. Finds(text, pattern, from, r)
    BY <1>4, <1>5
  <1>. QED
    BY <1>6 DEF r

LEMMA FindUnique ==
  ASSUME NEW A, NEW text \in Seq(A), NEW pattern \in Seq(A), NEW from \in Nat,
         NEW r, Finds(text, pattern, from, r)
  PROVE  Find(text, pattern, from) = r
  <1> DEFINE s == Find(text, pattern, from)
  <1>1. Finds(text, pattern, from, s)
    BY FindIs
  <1> HIDE DEF s
  <1>2. ASSUME r = Npos \/ s = Npos PROVE s = r
    BY <1>1, <1>2 DEF Finds
  <1>3. ASSUME r # Npos, s # Npos PROVE s = r
    <2>1. /\ r \in Nat /\ r >= from /\ StandsAt(r, pattern, text)
          /\ s \in Nat /\ s >= from /\ StandsAt(s, pattern, text)
          /\ ~(s < r) /\ ~(r < s)
      BY <1>1, <1>3 DEF Finds
    <2>. QED
      BY <2>1
  <1>4. s = r
    BY <1>2, <1>3
  <1>. QED
    BY <1>4 DEF s

InText(r, from, pattern, text) ==
  r = Npos \/ (r \in Nat /\ r >= from /\ r + Len(pattern) <= Len(text))

LEMMA FindRange ==
  ASSUME NEW A, NEW text \in Seq(A), NEW pattern \in Seq(A), NEW from \in Nat
  PROVE  InText(Find(text, pattern, from), from, pattern, text)
  <1> DEFINE r == Find(text, pattern, from)
  <1>1. Finds(text, pattern, from, r)
    BY FindIs
  <1> HIDE DEF r
  <1>2. r = Npos \/ (r \in Nat /\ r >= from /\ StandsAt(r, pattern, text))
    BY <1>1, Zenon DEF Finds
  <1>3. InText(r, from, pattern, text)
    BY <1>2, Zenon DEF StandsAt, InText
  <1>. QED
    BY <1>3 DEF r

LEMMA StandsOne ==
  ASSUME NEW A, NEW text \in Seq(A), NEW c \in A, NEW k \in Nat
  PROVE  StandsAt(k, <<c>>, text) <=> k + 1 \in 1 .. Len(text) /\ text[k + 1] = c
  <1>0. Len(text) \in Nat
    BY LenProperties
  <1>1. Len(<<c>>) = 1 /\ <<c>>[1] = c
    OBVIOUS
  <1>. QED
    BY <1>0, <1>1 DEF StandsAt

(***************************************************************************)
(* The same pattern, found behind a first part of the text.                *)
(***************************************************************************)
LEMMA ConcatAt ==
  ASSUME NEW A, NEW p \in Seq(A), NEW q \in Seq(A)
  PROVE  /\ p \o q \in Seq(A) /\ Len(p \o q) = Len(p) + Len(q) /\ Len(p) \in Nat /\ Len(q) \in Nat
         /\ \A j \in 1 .. Len(p) : (p \o q)[j] = p[j]
         /\ \A j \in 1 .. Len(q) : (p \o q)[Len(p) + j] = q[j]
  BY ConcatElements, LenProperties

LEMMA StandsBehind ==
  ASSUME NEW A, NEW p \in Seq(A), NEW q \in Seq(A), NEW pattern \in Seq(A), NEW k \in Nat
  PROVE  StandsAt(Len(p) + k, pattern, p \o q) <=> StandsAt(k, pattern, q)
  <1> DEFINE t == p \o q
             m == Len(p)
             n == Len(q)
             l == Len(pattern)
  <1>1. Len(t) = m + n /\ m \in Nat /\ n \in Nat /\ \A j \in 1 .. n : t[m + j] = q[j]
    BY ConcatAt
  <1>2. l \in Nat
    BY LenProperties
  <1> HIDE DEF t, m, n, l
  <1>3. m + k + l <= Len(t) <=> k + l <= n
    BY <1>1, <1>2
  <1>4. ASSUME k + l <= n, NEW j \in 1 .. l PROVE t[m + k + j] = q[k + j]
    <2>1. k + j \in 1 .. n /\ m + (k + j) = m + k + j
      BY <1>1, <1>2, <1>4
    <2>. QED
      BY <1>1, <2>1
  <1>. QED
    BY <1>3, <1>4 DEF StandsAt, t, m, n, l

Behind(m, r) == IF r = Npos THEN Npos ELSE m + r

LEMMA FindBehind ==
  ASSUME NEW A, NEW p \in Seq(A), NEW q \in Seq(A), NEW pattern \in Seq(A), NEW from \in Nat
  PROVE  Find(p \o q, pattern, Len(p) + from) = Behind(Len(p), Find(q, pattern, from))
  <1> DEFINE t == p \o q
             m == Len(p)
             r == Find(q, pattern, from)
  <1>1. Finds(q, pattern, from, r)
    BY FindIs
  <1>2. m \in Nat /\ t \in Seq(A) /\ \A k \in Nat : StandsAt(m + k, pattern, t) <=> StandsAt(k, pattern, q)
    BY StandsBehind, ConcatAt
  <1> HIDE DEF t, m, r
  <1>3. \A k \in Nat : k >= m + from => k - m \in Nat /\ k = m + (k - m) /\ k - m >= from
    BY <1>2
  <1>4. ASSUME r = Npos PROVE Finds(t, pattern, m + from, Behind(m, r))
    <2>1. ASSUME NEW k \in Nat, k >= m + from PROVE ~StandsAt(k, pattern, t)
      <3> DEFINE d == k - m
      <3>1. d \in Nat /\ k = m + d /\ d >= from
        BY <1>3, <2>1
      <3> HIDE DEF d
      <3>. QED
        BY <1>1, <1>2, <1>4, <3>1 DEF Finds
    <2>. QED
      BY <1>4, <2>1 DEF Finds, Behind
  <1>5. ASSUME r # Npos PROVE Finds(t, pattern, m + from, Behind(m, r))
    <2>1. ASSUME NEW k \in Nat, k >= m + from, k < m + r PROVE ~StandsAt(k, pattern, t)
      <3> DEFINE d == k - m
      <3>1. r \in Nat
        BY <1>1, <1>5 DEF Finds
      <3>2. d \in Nat /\ k = m + d /\ d >= from /\ d < r
        BY <1>2, <1>3, <2>1, <3>1
      <3> HIDE DEF d
      <3>. QED
        BY <1>1, <1>2, <1>5, <3>2 DEF Finds
    <2>2. r \in Nat /\ r >= from /\ StandsAt(r, pattern, q)
      BY <1>1, <1>5 DEF Finds
    <2>3. m + r \in Nat /\ m + r >= m + from /\ m + r # Npos
      BY <1>2, <2>2 DEF Npos
    <2>. QED
      BY <1>2, <1>5, <2>1, <2>2, <2>3 DEF Finds, Behind
  <1>6. Finds(t, pattern, m + from, Behind(m, r))
    BY <1>4, <1>5
  <1>7. Find(t, pattern, m + from) = Behind(m, r)
    <2>1. m + from \in Nat
      BY <1>2
    <2>. QED
      BY <1>2, <1>6, <2>1, FindUnique
  <1>. QED
    BY <1>7 DEF t, m, r

(***************************************************************************)
(* Parts of a text.                                                        *)
(***************************************************************************)
LEMMA RestIs ==
  ASSUME NEW A, NEW text \in Seq(A), NEW k \in Nat
  PROVE  Rest(text, k) = SubSeq(text, k + 1, Len(text)) /\ Rest(text, k) \in Seq(A)
  <1>1. Rest(text, k) = SubSeq(text, k + 1, Len(text))
    BY DEF Rest, Substr, Npos
  <1>2. SubSeq(text, k + 1, Len(text)) \in Seq(A)
    OBVIOUS
  <1>. QED
    BY <1>1, <1>2

LEMMA SubstrIs ==
  ASSUME NEW A, NEW text \in Seq(A), NEW k \in Nat, NEW n \in Int
  PROVE  /\ Substr(text, k, n) \in Seq(A)
         /\ n >= 0 /\ k + n <= Len(text) => Substr(text, k, n) = SubSeq(text, k + 1, k + n)
         /\ n < 0 => Substr(text, k, n) = Rest(text, k)
  <1>0. Len(text) \in Nat
    BY LenProperties
  <1>1. CASE n < 0 \/ k + n > Len(text)
    <2>1. Substr(text, k, n) = SubSeq(text, k + 1, Len(text))
      BY <1>1, Zenon DEF Substr
    <2>2. Rest(text, k) = SubSeq(text, k + 1, Len(text)) /\ Rest(text, k) \in Seq(A)
      BY RestIs
    <2>. QED
      BY <1>0, <1>1, <2>1, <2>2
  <1>2. CASE ~(n < 0 \/ k + n > Len(text))
    <2>1. Substr(text, k, n) = SubSeq(text, k + 1, k + n)
      BY <1>2, Zenon DEF Substr
    <2>2. k + n \in Nat /\ k + n <= Len(text)
      BY <1>0, <1>2
    <2>3. SubSeq(text, k + 1, k + n) \in Seq(A)
      BY <2>2
    <2>. QED
      BY <1>0, <1>2, <2>1, <2>3
  <1>. QED
    BY <1>1, <1>2

-----------------------------------------------------------------------------
(***************************************************************************)
(* SplitAt: a text without the symbol is one part; what stands before the  *)
(* first symbol is the first part, followed by the parts of the rest.      *)
(***************************************************************************)
SplitStep(f, text, c, k) ==
  LET end == Find(text, <<c>>, k)
  IN IF end = Npos THEN <<Rest(text, k)>>
     ELSE <<Substr(text, k, end - k)>> \o f[end + 1]

Splits(f, text, c) == \A k \in 0 .. Len(text) : f[k] = SplitStep(f, text, c, k)

LEMMA SplitterExists ==
  ASSUME NEW A, NEW text \in Seq(A), NEW c \in A
  PROVE  \E f \in [0 .. Len(text) -> Seq(Seq(A))] : Splits(f, text, c)
  <1> DEFINE n == Len(text)
             S == 0 .. n
             V == Seq(Seq(A))
             End(k) == Find(text, <<c>>, k)
             next == [k \in S |-> End(k) + 1]
             base == [k \in S |-> <<Rest(text, k)>>]
             G == [k \in S |-> [v \in V |-> <<Substr(text, k, End(k) - k)>> \o v]]
  <1>0. n \in Nat /\ <<c>> \in Seq(A) /\ Len(<<c>>) = 1
    BY LenProperties
  <1>1. \A k \in S : End(k) = Npos \/ (End(k) \in Nat /\ End(k) >= k /\ End(k) + 1 <= n)
    <2> SUFFICES ASSUME NEW k \in S
                 PROVE  End(k) = Npos \/ (End(k) \in Nat /\ End(k) >= k /\ End(k) + 1 <= n)
      OBVIOUS
    <2>1. k \in Nat
      BY <1>0
    <2>2. InText(End(k), k, <<c>>, text)
      BY <1>0, <2>1, FindRange
    <2>. QED
      BY <1>0, <2>2 DEF InText
  <1> HIDE DEF End
  <1>2. next \in [S -> S]
    BY <1>0, <1>1 DEF Npos
  <1>3. base \in [S -> V]
    <2>1. \A k \in S : Rest(text, k) \in Seq(A)
      BY <1>0, RestIs
    <2>. QED
      BY <2>1
  <1>4. G \in [S -> [V -> V]]
    <2> SUFFICES ASSUME NEW k \in S, NEW v \in V
                 PROVE  <<Substr(text, k, End(k) - k)>> \o v \in V
      OBVIOUS
    <2> DEFINE w == Substr(text, k, End(k) - k)
    <2>1. k \in Nat /\ End(k) - k \in Int
      BY <1>0, <1>1 DEF Npos
    <2>2. w \in Seq(A)
      BY <2>1, SubstrIs
    <2> HIDE DEF w
    <2>3. <<w>> \in Seq(Seq(A))
      BY <2>2
    <2>4. <<w>> \o v \in Seq(Seq(A))
      BY <2>3, ConcatProperties
    <2>. QED
      BY <2>4 DEF w
  <1>5. V # {}
    BY EmptySeq
  <1>6. Stepping(n, V, next, base, G)
    <2> HIDE DEF V, next, base, G, n
    <2>. QED
      BY <1>0, <1>2, <1>3, <1>4, <1>5 DEF Stepping
  <1>7. PICK f \in [S -> V] : IsStepped(f, n, next, base, G)
    <2> HIDE DEF V, next, base, G, n
    <2>. QED
      BY <1>6, SteppedExists
  <1>8. ASSUME NEW k \in S PROVE f[k] = SplitStep(f, text, c, k)
    <2>1. f[k] = IF next[k] > k THEN G[k][f[next[k]]] ELSE base[k]
      BY <1>7 DEF IsStepped
    <2>2. next[k] = End(k) + 1 /\ base[k] = <<Rest(text, k)>> /\ k \in Int
      BY <1>0
    <2>3. SplitStep(f, text, c, k) =
            IF End(k) = Npos THEN <<Rest(text, k)>>
            ELSE <<Substr(text, k, End(k) - k)>> \o f[End(k) + 1]
      BY Zenon DEF SplitStep, End
    <2>4. CASE End(k) = Npos
      <3>1. ~(next[k] > k)
        BY <1>0, <2>2, <2>4 DEF Npos
      <3>. QED
        BY <2>1, <2>2, <2>3, <2>4, <3>1, Zenon
    <2>5. CASE End(k) # Npos
      <3>1. next[k] > k /\ next[k] \in S
        BY <1>0, <1>1, <2>2, <2>5
      <3>2. f[next[k]] \in V
        BY <3>1
      <3>3. G[k][f[next[k]]] = <<Substr(text, k, End(k) - k)>> \o f[next[k]]
        BY <3>2
      <3>. QED
        BY <2>1, <2>2, <2>3, <2>5, <3>1, <3>3, Zenon
    <2>. QED
      BY <2>4, <2>5
  <1>. QED
    BY <1>8 DEF Splits

LEMMA SplitAtIs ==
  ASSUME NEW A, NEW text \in Seq(A), NEW c \in A
  PROVE  \E f : /\ Splits(f, text, c) /\ SplitAt(text, c) = f[0]
  <1> DEFINE Is(f) == f = [k \in 0 .. Len(text) |-> SplitStep(f, text, c, k)]
             f == CHOOSE f : Is(f)
  <1>1. PICK g \in [0 .. Len(text) -> Seq(Seq(A))] : Splits(g, text, c)
    BY SplitterExists
  <1>2. g = [k \in 0 .. Len(text) |-> SplitStep(g, text, c, k)]
    BY <1>1 DEF Splits
  <1>3. Is(f)
    BY <1>2, Zenon
  <1>4. SplitAt(text, c) = f[0]
    BY Zenon DEF SplitAt, SplitStep
  <1> HIDE DEF f
  <1>5. Splits(f, text, c)
    BY <1>3, Zenon DEF Splits
  <1>. QED
    BY <1>4, <1>5

-----------------------------------------------------------------------------
(***************************************************************************)
(* What stands behind another text is found, cut and split as if nothing   *)
(* stood before it. Len(p) is how far it is moved.                         *)
(***************************************************************************)

LEMMA CutBehind ==
  ASSUME NEW A, NEW p \in Seq(A), NEW q \in Seq(A), NEW k \in Nat, NEW n \in Nat, k <= n, n <= Len(q)
  PROVE  SubSeq(p \o q, Len(p) + k + 1, Len(p) + n) = SubSeq(q, k + 1, n)
  <1> DEFINE t == p \o q
             m == Len(p)
             a == SubSeq(t, m + k + 1, m + n)
             b == SubSeq(q, k + 1, n)
  <1>1. /\ t \in Seq(A) /\ Len(t) = m + Len(q) /\ m \in Nat /\ Len(q) \in Nat
        /\ \A j \in 1 .. Len(q) : t[m + j] = q[j]
    BY ConcatAt
  <1> HIDE DEF t, m
  <1>2. a \in Seq(A) /\ Len(a) = n - k /\ \A j \in 1 .. n - k : a[j] = t[m + k + j]
    <2> DEFINE lo == m + k + 1
               hi == m + n
               l == Len(t)
               v == Len(q)
    <2>1. l = m + v /\ m \in Nat /\ v \in Nat /\ n <= v
      BY <1>1
    <2> HIDE DEF l, v
    <2>2. lo \in Int /\ hi \in Int /\ lo >= 1 /\ hi <= l
      BY <2>1
    <2>3. /\ hi - lo + 1 = n - k /\ (lo <= hi => hi - lo + 1 = n - k) /\ (~(lo <= hi) => n - k = 0)
          /\ \A j \in 1 .. n - k : lo + j - 1 = m + k + j
      BY <2>1
    <2> HIDE DEF lo, hi
    <2>4. \A j \in lo .. hi : t[j] \in A
      <3>1. \A j \in 1 .. Len(t) : t[j] \in A
        BY <1>1, ElementOfSeq
      <3>2. \A j \in lo .. hi : j \in 1 .. l
        BY <2>1, <2>2
      <3>. QED
        BY <3>1, <3>2 DEF l
    <2> DEFINE d == SubSeq(t, lo, hi)
    <2>5. d \in Seq(A) /\ Len(d) = (IF lo <= hi THEN hi - lo + 1 ELSE 0)
          /\ \A j \in 1 .. hi - lo + 1 : d[j] = t[lo + j - 1]
      BY <2>2, <2>4, SubSeqProperties
    <2> HIDE DEF d
    <2>6. d \in Seq(A) /\ Len(d) = n - k /\ \A j \in 1 .. n - k : d[j] = t[m + k + j]
      BY <2>3, <2>5
    <2>. QED
      BY <2>6 DEF d, lo, hi
  <1>3. b \in Seq(A) /\ Len(b) = n - k /\ \A j \in 1 .. n - k : b[j] = q[k + j]
    BY <1>1
  <1> HIDE DEF a, b
  <1>4. \A j \in 1 .. Len(a) : a[j] = b[j]
    <2> SUFFICES ASSUME NEW j \in 1 .. Len(a) PROVE a[j] = b[j]
      OBVIOUS
    <2>1. j \in 1 .. n - k /\ k + j \in 1 .. Len(q) /\ m + (k + j) = m + k + j
      BY <1>1, <1>2
    <2>. QED
      BY <1>1, <1>2, <1>3, <2>1
  <1>5. a = b
    BY <1>2, <1>3, <1>4, SeqEqual
  <1>. QED
    BY <1>5 DEF a, b, t, m

LEMMA RestBehind ==
  ASSUME NEW A, NEW p \in Seq(A), NEW q \in Seq(A), NEW k \in Nat, k <= Len(q)
  PROVE  Rest(p \o q, Len(p) + k) = Rest(q, k)
  <1> DEFINE t == p \o q
             m == Len(p)
  <1>1. t \in Seq(A) /\ Len(t) = m + Len(q) /\ m \in Nat /\ Len(q) \in Nat /\ m + k \in Nat
    BY ConcatAt
  <1>2. SubSeq(t, m + k + 1, m + Len(q)) = SubSeq(q, k + 1, Len(q))
    BY <1>1, CutBehind
  <1> HIDE DEF t, m
  <1>3. Rest(t, m + k) = SubSeq(t, m + k + 1, Len(t))
    BY <1>1, RestIs
  <1>4. Rest(q, k) = SubSeq(q, k + 1, Len(q))
    BY RestIs
  <1>5. Rest(t, m + k) = Rest(q, k)
    BY <1>1, <1>2, <1>3, <1>4
  <1>. QED
    BY <1>5 DEF t, m

LEMMA SubstrBehind ==
  ASSUME NEW A, NEW p \in Seq(A), NEW q \in Seq(A), NEW k \in Nat, NEW n \in Nat, k + n <= Len(q)
  PROVE  Substr(p \o q, Len(p) + k, n) = Substr(q, k, n)
  <1> DEFINE t == p \o q
             m == Len(p)
  <1>1. /\ t \in Seq(A) /\ Len(t) = m + Len(q) /\ m \in Nat /\ Len(q) \in Nat /\ m + k \in Nat
        /\ n \in Int /\ n >= 0 /\ m + k + n <= Len(t)
    BY ConcatAt
  <1>2. SubSeq(t, m + k + 1, m + (k + n)) = SubSeq(q, k + 1, k + n)
    <2>1. k + n \in Nat /\ k <= k + n
      OBVIOUS
    <2>. QED
      BY <2>1, CutBehind
  <1> HIDE DEF t, m
  <1>3. Substr(t, m + k, n) = SubSeq(t, m + k + 1, m + k + n)
    BY <1>1, SubstrIs
  <1>4. Substr(q, k, n) = SubSeq(q, k + 1, k + n)
    BY <1>1, SubstrIs
  <1>5. m + (k + n) = m + k + n
    BY <1>1
  <1>6. Substr(t, m + k, n) = Substr(q, k, n)
    BY <1>2, <1>3, <1>4, <1>5
  <1>. QED
    BY <1>6 DEF t, m

LEMMA SplitsBehind ==
  ASSUME NEW A, NEW p \in Seq(A), NEW q \in Seq(A), NEW c \in A, NEW f, NEW g,
         Splits(f, p \o q, c), Splits(g, q, c)
  PROVE  \A k \in 0 .. Len(q) : f[Len(p) + k] = g[k]
  <1> DEFINE t == p \o q
             m == Len(p)
             n == Len(q)
             S == 0 .. n
             rank == [k \in S |-> n - k]
             P == {k \in S : f[m + k] = g[k]}
             End(k) == Find(q, <<c>>, k)
  <1>1. t \in Seq(A) /\ Len(t) = m + n /\ m \in Nat /\ n \in Nat /\ <<c>> \in Seq(A) /\ Len(<<c>>) = 1
    BY ConcatAt
  <1>2. rank \in [S -> Nat]
    BY <1>1
  <1>3. ASSUME NEW k \in S, \A j \in S : rank[j] < rank[k] => j \in P
        PROVE  k \in P
    <2>1. k \in Nat /\ k <= n /\ m + k \in 0 .. Len(t) /\ m + k \in Nat
      BY <1>1
    <2>2. Find(t, <<c>>, m + k) = Behind(m, End(k))
      <3> DEFINE d == <<c>>
      <3>1. d \in Seq(A)
        BY <1>1
      <3> HIDE DEF d
      <3>2. Find(p \o q, d, Len(p) + k) = Behind(Len(p), Find(q, d, k))
        BY <2>1, <3>1, FindBehind
      <3>. QED
        BY <3>2 DEF d
    <2>3. InText(End(k), k, <<c>>, q)
      BY <1>1, <2>1, FindRange
    <2> DEFINE e == End(k)
    <2> HIDE DEF t, m, End
    <2>4. f[m + k] = IF Behind(m, e) = Npos THEN <<Rest(t, m + k)>>
                     ELSE <<Substr(t, m + k, Behind(m, e) - (m + k))>> \o f[Behind(m, e) + 1]
      <3>1. f[m + k] = SplitStep(f, t, c, m + k)
        BY <2>1 DEF Splits, t
      <3>. QED
        BY <2>2, <3>1, Zenon DEF SplitStep
    <2>5. g[k] = IF e = Npos THEN <<Rest(q, k)>> ELSE <<Substr(q, k, e - k)>> \o g[e + 1]
      <3>1. g[k] = SplitStep(g, q, c, k)
        BY DEF Splits
      <3>. QED
        BY <3>1, Zenon DEF SplitStep, End
    <2>6. ASSUME e = Npos PROVE f[m + k] = g[k]
      <3>1. Behind(m, e) = Npos
        BY <2>6 DEF Behind
      <3>2. Rest(t, m + k) = Rest(q, k)
        BY <2>1, RestBehind DEF t, m
      <3>. QED
        BY <2>4, <2>5, <2>6, <3>1, <3>2
    <2>7. ASSUME e # Npos PROVE f[m + k] = g[k]
      <3>1. e \in Nat /\ e >= k /\ e + 1 <= n
        BY <1>1, <2>3, <2>7 DEF InText
      <3> HIDE DEF e
      <3>2. Behind(m, e) = m + e /\ Behind(m, e) # Npos /\ (m + e) - (m + k) = e - k
            /\ (m + e) + 1 = m + (e + 1)
        BY <1>1, <2>1, <2>7, <3>1 DEF Behind, Npos
      <3>3. e + 1 \in S /\ rank[e + 1] < rank[k]
        BY <1>1, <2>1, <3>1
      <3>4. f[m + (e + 1)] = g[e + 1]
        BY <1>3, <3>3
      <3>5. Substr(t, m + k, e - k) = Substr(q, k, e - k)
        <4>1. e - k \in Nat /\ k + (e - k) <= Len(q)
          BY <1>1, <2>1, <3>1
        <4>. QED
          BY <2>1, <4>1, SubstrBehind DEF t, m
      <3>. QED
        BY <2>4, <2>5, <2>7, <3>2, <3>4, <3>5, Zenon
    <2>. QED
      BY <2>6, <2>7
  <1> HIDE DEF rank, P, S
  <1>4. S \subseteq P
    BY <1>2, <1>3, RankInduction
  <1>. QED
    BY <1>4 DEF S, P

-----------------------------------------------------------------------------
Lacks(text, c) == \A k \in 1 .. Len(text) : text[k] # c

LEMMA FindNone ==
  ASSUME NEW A, NEW text \in Seq(A), NEW c \in A, Lacks(text, c), NEW from \in Nat
  PROVE  Find(text, <<c>>, from) = Npos
  <1>1. \A k \in Nat : ~StandsAt(k, <<c>>, text)
    BY StandsOne DEF Lacks
  <1>2. Finds(text, <<c>>, from, Npos)
    BY <1>1 DEF Finds
  <1>3. <<c>> \in Seq(A)
    OBVIOUS
  <1>. QED
    BY <1>2, <1>3, FindUnique

LEMMA FindFirst ==
  ASSUME NEW A, NEW p \in Seq(A), NEW c \in A, Lacks(p, c), NEW q \in Seq(A)
  PROVE  Find(p \o (<<c>> \o q), <<c>>, 0) = Len(p)
  <1> DEFINE r == <<c>> \o q
             t == p \o r
             m == Len(p)
  <1>1. r \in Seq(A) /\ Len(r) = 1 + Len(q) /\ r[1] = c /\ <<c>> \in Seq(A)
    <2>1. <<c>> \in Seq(A) /\ Len(<<c>>) = 1 /\ <<c>>[1] = c
      OBVIOUS
    <2>. QED
      BY <2>1, ConcatAt
  <1> HIDE DEF r
  <1>2. /\ t \in Seq(A) /\ Len(t) = m + Len(r) /\ m \in Nat /\ Len(q) \in Nat
        /\ (\A j \in 1 .. m : t[j] = p[j]) /\ \A j \in 1 .. Len(r) : t[m + j] = r[j]
    <2>1. t \in Seq(A) /\ Len(t) = m + Len(r) /\ m \in Nat
      BY <1>1, ConcatAt
    <2>2. \A j \in 1 .. m : t[j] = p[j]
      BY <1>1, ConcatAt
    <2>3. \A j \in 1 .. Len(r) : t[m + j] = r[j]
      BY <1>1, ConcatAt
    <2>. QED
      BY <2>1, <2>2, <2>3, LenProperties
  <1> HIDE DEF t
  <1>3. StandsAt(m, <<c>>, t)
    <2>1. m + 1 \in 1 .. Len(t) /\ 1 \in 1 .. Len(r)
      BY <1>1, <1>2, LenProperties
    <2>2. t[m + 1] = c
      BY <1>1, <1>2, <2>1
    <2>. QED
      BY <1>2, <2>1, <2>2, StandsOne
  <1>4. ASSUME NEW k \in Nat, k < m PROVE ~StandsAt(k, <<c>>, t)
    <2>1. k + 1 \in 1 .. m
      BY <1>2, <1>4
    <2>2. t[k + 1] # c
      BY <1>2, <2>1 DEF Lacks
    <2>. QED
      BY <1>2, <2>2, StandsOne
  <1>5. m # Npos /\ m >= 0
    BY <1>2 DEF Npos
  <1>6. Finds(t, <<c>>, 0, m)
    BY <1>2, <1>3, <1>4, <1>5 DEF Finds
  <1>7. Find(t, <<c>>, 0) = m
    <2> DEFINE d == <<c>>
    <2>1. d \in Seq(A) /\ Finds(t, d, 0, m)
      BY <1>1, <1>6
    <2> HIDE DEF d, m
    <2>2. Find(t, d, 0) = m
      BY <1>2, <2>1, FindUnique
    <2>. QED
      BY <2>2 DEF d
  <1>. QED
    BY <1>7 DEF t, r

LEMMA SplitOne ==
  ASSUME NEW A, NEW p \in Seq(A), NEW c \in A, Lacks(p, c)
  PROVE  SplitAt(p, c) = <<p>>
  <1>1. PICK f : Splits(f, p, c) /\ SplitAt(p, c) = f[0]
    BY SplitAtIs
  <1>2. f[0] = SplitStep(f, p, c, 0)
    BY <1>1, LenProperties DEF Splits
  <1>3. Find(p, <<c>>, 0) = Npos
    BY FindNone
  <1>4. f[0] = <<Rest(p, 0)>>
    BY <1>2, <1>3, Zenon DEF SplitStep
  <1>5. Rest(p, 0) = p
    <2>1. Rest(p, 0) = SubSeq(p, 0 + 1, Len(p))
      BY RestIs
    <2>. QED
      BY <2>1, SubSeqFull
  <1>. QED
    BY <1>1, <1>4, <1>5

LEMMA SplitCons ==
  ASSUME NEW A, NEW p \in Seq(A), NEW c \in A, Lacks(p, c), NEW q \in Seq(A)
  PROVE  SplitAt(p \o (<<c>> \o q), c) = <<p>> \o SplitAt(q, c)
  <1> DEFINE t == p \o (<<c>> \o q)
             u == p \o <<c>>
             m == Len(p)
  <1>1. PICK f : Splits(f, t, c) /\ SplitAt(t, c) = f[0]
    <2>1. t \in Seq(A)
      OBVIOUS
    <2> HIDE DEF t
    <2>. QED
      BY <2>1, SplitAtIs
  <1>2. PICK g : Splits(g, q, c) /\ SplitAt(q, c) = g[0]
    BY SplitAtIs
  <1>3. <<c>> \in Seq(A) /\ u \in Seq(A) /\ Len(u) = m + 1 /\ m \in Nat /\ Len(q) \in Nat
    <2>1. <<c>> \in Seq(A) /\ Len(<<c>>) = 1
      OBVIOUS
    <2>. QED
      BY <2>1, ConcatAt
  <1>4. t = u \o q
    BY <1>3, ConcatAssociative
  <1>5. f[m + 1] = g[0]
    <2>1. 0 \in 0 .. Len(q) /\ m + 1 + 0 = m + 1
      BY <1>3
    <2>2. \A k \in 0 .. Len(q) : f[Len(u) + k] = g[k]
      <3>1. Splits(f, u \o q, c)
        BY <1>1, <1>4
      <3>2. ASSUME NEW v \in Seq(A), Splits(f, v \o q, c)
            PROVE  \A k \in 0 .. Len(q) : f[Len(v) + k] = g[k]
        BY <1>2, <3>2, SplitsBehind
      <3> HIDE DEF u, t
      <3>. QED
        BY <1>3, <3>1, <3>2
    <2>. QED
      BY <1>3, <2>1, <2>2
  <1>6. Find(t, <<c>>, 0) = m
    BY FindFirst
  <1>7. Substr(t, 0, m - 0) = p
    <2>1. t \in Seq(A) /\ Len(t) = m + Len(<<c>> \o q) /\ Len(<<c>> \o q) \in Nat
      BY <1>3, ConcatProperties, LenProperties
    <2>2. Substr(t, 0, m) = SubSeq(t, 0 + 1, 0 + m)
      <3> HIDE DEF t
      <3>. QED
        <4>1. m \in Int /\ m >= 0 /\ 0 + m <= Len(t) /\ t \in Seq(A)
          BY <1>3, <2>1
        <4>. QED
          BY <4>1, SubstrIs
    <2>3. SubSeq(t, 1, m) = SubSeq(p, 1, m)
      <3>1. CASE m = 0
        BY <3>1, SubSeqEmpty
      <3>2. CASE m # 0
        BY <1>3, <3>2, SubSeqOfConcat1, ConcatProperties
      <3>. QED
        BY <3>1, <3>2
    <2>4. SubSeq(p, 1, m) = p
      BY SubSeqFull
    <2> HIDE DEF t
    <2>5. m - 0 = m /\ 0 + 1 = 1 /\ 0 + m = m
      BY <1>3
    <2>. QED
      BY <2>2, <2>3, <2>4, <2>5
  <1>8. f[0] = <<p>> \o f[m + 1]
    <2>1. f[0] = SplitStep(f, t, c, 0)
      <3>1. t \in Seq(A)
        BY <1>3, ConcatProperties
      <3> HIDE DEF t
      <3>. QED
        BY <1>1, <3>1, LenProperties DEF Splits
    <2> HIDE DEF t
    <2>2. m # Npos
      BY <1>3 DEF Npos
    <2>. QED
      BY <1>6, <1>7, <2>1, <2>2, Zenon DEF SplitStep
  <1>. QED
    BY <1>1, <1>2, <1>5, <1>8

-----------------------------------------------------------------------------
(***************************************************************************)
(* SplitAt and Lines, for every text: its parts lack the separator, and a  *)
(* text that begins with a part and a separator begins with that part.     *)
(***************************************************************************)

LEMMA FirstSymbol ==
  ASSUME NEW A, NEW text \in Seq(A), NEW c \in A, ~Lacks(text, c)
  PROVE  \E p \in Seq(A \ {c}), q \in Seq(A) : text = p \o (<<c>> \o q) /\ Len(q) < Len(text)
  <1> DEFINE e == Find(text, <<c>>, 0)
             n == Len(text)
             p == SubSeq(text, 1, e)
             q == SubSeq(text, e + 2, n)
  <1>0. n \in Nat /\ \A k \in 1 .. n : text[k] \in A
    BY LenProperties, ElementOfSeq
  <1>1. Finds(text, <<c>>, 0, e)
    <2> DEFINE d == <<c>>
    <2>1. d \in Seq(A)
      OBVIOUS
    <2> HIDE DEF d
    <2>2. Finds(text, d, 0, Find(text, d, 0))
      BY <2>1, FindIs
    <2>. QED
      BY <2>2 DEF d
  <1>2. e # Npos
    <2> SUFFICES ASSUME e = Npos PROVE Lacks(text, c)
      OBVIOUS
    <2> HIDE DEF e
    <2>1. ASSUME NEW k \in 1 .. n PROVE text[k] # c
      <3>1. k - 1 \in Nat /\ k - 1 >= 0 /\ (k - 1) + 1 = k
        BY <1>0
      <3>2. ~StandsAt(k - 1, <<c>>, text)
        BY <1>1, <3>1 DEF Finds
      <3>. QED
        BY <3>1, <3>2, StandsOne
    <2>. QED
      BY <2>1 DEF Lacks
  <1> HIDE DEF e
  <1>3. /\ e \in Nat /\ e + 1 \in 1 .. n /\ text[e + 1] = c
        /\ \A k \in 1 .. e : text[k] # c
    <2>1. e \in Nat /\ StandsAt(e, <<c>>, text) /\ \A k \in Nat : k >= 0 /\ k < e => ~StandsAt(k, <<c>>, text)
      BY <1>1, <1>2 DEF Finds
    <2>2. e + 1 \in 1 .. n /\ text[e + 1] = c
      BY <2>1, StandsOne
    <2>3. ASSUME NEW k \in 1 .. e PROVE text[k] # c
      <3>1. k - 1 \in Nat /\ k - 1 >= 0 /\ k - 1 < e /\ (k - 1) + 1 = k /\ k \in 1 .. n
        BY <1>0, <2>1, <2>2
      <3>2. ~StandsAt(k - 1, <<c>>, text)
        BY <2>1, <3>1
      <3>. QED
        BY <3>1, <3>2, StandsOne
    <2>. QED
      BY <2>1, <2>2, <2>3
  <1>4. p \in Seq(A \ {c})
    BY <1>0, <1>3, SubSeqProperties
  <1>5. q \in Seq(A) /\ Len(q) = n - e - 1
    BY <1>0, <1>3, SubSeqProperties
  <1>6. p \o SubSeq(text, e + 1, n) = SubSeq(text, 1, n)
    BY <1>0, <1>3, ConcatAdjacentSubSeq
  <1>7. SubSeq(text, e + 1, n) = <<text[e + 1]>> \o q
    <2>1. e + 1 \in 1 .. n /\ n \in e + 1 .. n /\ (e + 1) + 1 = e + 2
      BY <1>0, <1>3
    <2>2. SubSeq(text, e + 1, n) = <<text[e + 1]>> \o SubSeq(text, (e + 1) + 1, n)
      BY <2>1, SubSeqRecursiveFirst
    <2>. QED
      BY <2>1, <2>2
  <1>8. SubSeq(text, 1, n) = text
    BY SubSeqFull
  <1>9. Len(q) < n
    BY <1>0, <1>3, <1>5
  <1> HIDE DEF p, q
  <1>10. text = p \o (<<c>> \o q)
    BY <1>3, <1>6, <1>7, <1>8
  <1>. QED
    BY <1>4, <1>5, <1>9, <1>10

LEMMA WithoutLacks ==
  ASSUME NEW A, NEW c, NEW p \in Seq(A \ {c})
  PROVE  p \in Seq(A) /\ Lacks(p, c)
  BY SeqMonotonic, ElementOfSeq DEF Lacks

LEMMA LacksWithout ==
  ASSUME NEW A, NEW c, NEW p \in Seq(A), Lacks(p, c)
  PROVE  p \in Seq(A \ {c})
  BY LenProperties DEF Lacks

LEMMA SplitParts ==
  ASSUME NEW A, NEW c \in A
  PROVE  \A text \in Seq(A) : SplitAt(text, c) \in Seq(Seq(A \ {c})) /\ Len(SplitAt(text, c)) >= 1
  <1> DEFINE S == Seq(A)
             rank == [text \in S |-> Len(text)]
             P == {text \in S : SplitAt(text, c) \in Seq(Seq(A \ {c})) /\ Len(SplitAt(text, c)) >= 1}
  <1>1. rank \in [S -> Nat]
    BY LenProperties
  <1>2. ASSUME NEW text \in S, \A u \in S : rank[u] < rank[text] => u \in P
        PROVE  text \in P
    <2>1. ASSUME Lacks(text, c) PROVE text \in P
      <3>1. SplitAt(text, c) = <<text>> /\ text \in Seq(A \ {c})
        BY <2>1, SplitOne, LacksWithout
      <3> DEFINE s == <<text>>
      <3>2. s \in Seq(Seq(A \ {c})) /\ Len(s) >= 1
        BY <3>1
      <3> HIDE DEF s
      <3>3. SplitAt(text, c) \in Seq(Seq(A \ {c})) /\ Len(SplitAt(text, c)) >= 1
        BY <3>1, <3>2 DEF s
      <3>. QED
        BY <3>3
    <2>2. ASSUME ~Lacks(text, c) PROVE text \in P
      <3>1. PICK p \in Seq(A \ {c}), q \in S : text = p \o (<<c>> \o q) /\ Len(q) < Len(text)
        BY <2>2, FirstSymbol
      <3>2. SplitAt(q, c) \in Seq(Seq(A \ {c})) /\ Len(SplitAt(q, c)) >= 1
        <4>1. rank[q] < rank[text]
          BY <3>1
        <4>. QED
          BY <1>2, <4>1
      <3>3. SplitAt(text, c) = <<p>> \o SplitAt(q, c)
        <4>1. p \in Seq(A) /\ Lacks(p, c)
          BY WithoutLacks
        <4>2. SplitAt(p \o (<<c>> \o q), c) = <<p>> \o SplitAt(q, c)
          BY <4>1, SplitCons
        <4>. QED
          BY <3>1, <4>2
      <3> DEFINE s == SplitAt(q, c)
      <3> HIDE DEF s
      <3>4. <<p>> \in Seq(Seq(A \ {c})) /\ Len(<<p>>) = 1
        BY <3>1
      <3>5. <<p>> \o s \in Seq(Seq(A \ {c})) /\ Len(<<p>> \o s) = 1 + Len(s) /\ Len(s) \in Nat
        BY <3>2, <3>4, ConcatProperties, LenProperties DEF s
      <3>6. Len(<<p>> \o s) >= 1
        BY <3>5
      <3>. QED
        BY <3>3, <3>5, <3>6 DEF s
    <2>. QED
      BY <2>1, <2>2
  <1>3. S \subseteq P
    <2> HIDE DEF rank, P, S
    <2>. QED
      BY <1>1, <1>2, RankInduction
  <1>. QED
    BY <1>3

-----------------------------------------------------------------------------
(***************************************************************************)
(* Lines: the lines of a text, each ended by a line feed.                  *)
(***************************************************************************)
LEMMA FrontIs ==
  ASSUME NEW V, NEW s \in Seq(V), Len(s) >= 1
  PROVE  Front(s) \in Seq(V) /\ \A v \in V : Front(<<v>> \o s) = <<v>> \o Front(s)
  <1> DEFINE n == Len(s)
             f == Front(s)
  <1>0. n \in Nat /\ n >= 1 /\ \A k \in 1 .. n : s[k] \in V
    BY LenProperties, ElementOfSeq
  <1>1. f \in Seq(V) /\ Len(f) = n - 1 /\ \A k \in 1 .. n - 1 : f[k] = s[k]
    <2>1. f = SubSeq(s, 1, n - 1)
      BY DEF Front
    <2> HIDE DEF f, n
    <2>. QED
      BY <1>0, <2>1, SubSeqProperties
  <1> HIDE DEF f
  <1>2. ASSUME NEW v \in V PROVE Front(<<v>> \o s) = <<v>> \o f
    <2> DEFINE t == <<v>> \o s
               g == SubSeq(t, 1, n)
               h == <<v>> \o f
    <2>0. <<v>> \in Seq(V) /\ Len(<<v>>) = 1 /\ <<v>>[1] = v
      OBVIOUS
    <2>1. t \in Seq(V) /\ Len(t) = n + 1 /\ t[1] = v /\ \A k \in 1 .. n : t[1 + k] = s[k]
      BY <1>0, <2>0, ConcatAt
    <2>2. h \in Seq(V) /\ Len(h) = n /\ h[1] = v /\ \A k \in 1 .. n - 1 : h[1 + k] = f[k]
      <3>1. h \in Seq(V) /\ Len(h) = Len(<<v>>) + Len(f) /\ \A k \in 1 .. Len(<<v>>) : h[k] = <<v>>[k]
        BY <1>1, <2>0, ConcatAt
      <3>2. \A k \in 1 .. Len(f) : h[Len(<<v>>) + k] = f[k]
        BY <1>1, <2>0, ConcatAt
      <3> HIDE DEF h
      <3>. QED
        BY <1>0, <1>1, <2>0, <3>1, <3>2
    <2> HIDE DEF t, h
    <2>3. g \in Seq(V) /\ Len(g) = n /\ \A k \in 1 .. n : g[k] = t[k]
      BY <1>0, <2>1
    <2>4. ASSUME NEW k \in 1 .. Len(g) PROVE g[k] = h[k]
      <3>1. CASE k = 1
        BY <1>0, <2>1, <2>2, <2>3, <3>1
      <3>2. CASE k # 1
        <4> DEFINE j == k - 1
        <4>1. j \in 1 .. n - 1 /\ j \in 1 .. n /\ k = 1 + j /\ k \in 1 .. n
          BY <1>0, <2>3, <3>2
        <4> HIDE DEF j, g
        <4>2. g[k] = s[j]
          BY <2>1, <2>3, <4>1
        <4>3. h[k] = s[j]
          BY <1>1, <2>2, <4>1
        <4>. QED
          BY <4>2, <4>3
      <3>. QED
        BY <3>1, <3>2
    <2>5. g = h
      <3> HIDE DEF g
      <3>. QED
        BY <2>2, <2>3, <2>4, SeqEqual
    <2>6. Front(t) = g
      <3>1. Len(t) - 1 = n
        BY <1>0, <2>1
      <3>. QED
        BY <3>1 DEF Front
    <2>. QED
      BY <2>5, <2>6 DEF t, h
  <1>. QED
    BY <1>1, <1>2 DEF f

LEMMA LinesEmpty == Lines(<<>>) = <<>>
  <1>1. Lines(<<>>) = Front(SplitAt(<<>>, "\n"))
    BY DEF Lines
  <1>2. SplitAt(<<>>, "\n") = <<<<>>>>
    <2> DEFINE c == "\n"
    <2> HIDE DEF c
    <2>1. <<>> \in Seq({c}) /\ Lacks(<<>>, c) /\ c \in {c}
      BY DEF Lacks
    <2>2. SplitAt(<<>>, c) = <<<<>>>>
      BY <2>1, SplitOne
    <2>. QED
      BY <2>2 DEF c
  <1>3. Front(<<<<>>>>) = <<>>
    BY DEF Front
  <1>. QED
    BY <1>1, <1>2, <1>3

LEMMA LinesType ==
  ASSUME NEW A, "\n" \in A, NEW text \in Seq(A)
  PROVE  Lines(text) \in Seq(Seq(A \ {"\n"}))
  <1> DEFINE c == "\n"
             V == Seq(A \ {c})
             s == SplitAt(text, c)
  <1>1. s \in Seq(V) /\ Len(s) >= 1
    BY SplitParts
  <1>2. Lines(text) = Front(s) \/ Lines(text) = s
    BY Zenon DEF Lines
  <1> HIDE DEF V, s, c
  <1>3. Lines(text) \in Seq(V)
    BY <1>1, <1>2, FrontIs
  <1>. QED
    BY <1>3 DEF V, c

LEMMA LinesCons ==
  ASSUME NEW A, "\n" \in A, NEW p \in Seq(A \ {"\n"}), NEW q \in Seq(A)
  PROVE  Lines(p \o (<<"\n">> \o q)) = <<p>> \o Lines(q)
  <1> DEFINE c == "\n"
             t == p \o (<<c>> \o q)
             V == Seq(A \ {c})
             s == SplitAt(q, c)
             Full(u) == u = <<>> \/ Last(u) = c
  <1>1. s \in Seq(V) /\ Len(s) >= 1
    BY SplitParts
  <1>2. SplitAt(t, c) = <<p>> \o s
    <2>1. p \in Seq(A) /\ Lacks(p, c)
      BY WithoutLacks
    <2>. QED
      BY <2>1, SplitCons
  <1>3. Lines(t) = (IF Full(t) THEN Front(SplitAt(t, c)) ELSE SplitAt(t, c))
    BY Zenon DEF Lines
  <1>4. Lines(q) = (IF Full(q) THEN Front(s) ELSE s)
    BY Zenon DEF Lines
  <1> HIDE DEF c
  <1>5. Full(t) <=> Full(q)
    <2> DEFINE r == <<c>> \o q
    <2>1. p \in Seq(A) /\ <<c>> \in Seq(A) /\ Len(<<c>>) = 1 /\ <<c>>[1] = c
      BY WithoutLacks DEF c
    <2>2. /\ r \in Seq(A) /\ Len(r) = 1 + Len(q) /\ Len(q) \in Nat /\ r[1] = c
          /\ \A j \in 1 .. Len(q) : r[1 + j] = q[j]
      BY <2>1, ConcatAt
    <2> HIDE DEF r
    <2>3. /\ Len(t) = Len(p) + Len(r) /\ Len(p) \in Nat /\ \A j \in 1 .. Len(r) : t[Len(p) + j] = r[j]
      BY <2>1, <2>2, ConcatAt DEF r
    <2> HIDE DEF t
    <2>4. Last(t) = r[Len(r)]
      <3>1. Len(r) \in 1 .. Len(r)
        BY <2>2
      <3>. QED
        BY <2>3, <3>1 DEF Last
    <2>5. t # <<>>
      BY <2>2, <2>3, EmptySeq
    <2>6. CASE q = <<>>
      <3>1. Len(r) = 1
        BY <2>2, <2>6, EmptySeq
      <3>. QED
        BY <2>2, <2>4, <2>5, <2>6, <3>1
    <2>7. CASE q # <<>>
      <3>1. Len(q) \in 1 .. Len(q)
        BY <2>7, EmptySeq
      <3>2. r[Len(r)] = Last(q)
        BY <2>2, <3>1 DEF Last
      <3>. QED
        BY <2>4, <2>5, <2>7, <3>2
    <2>. QED
      BY <2>6, <2>7
  <1>6. p \in V
    BY DEF c
  <1> HIDE DEF t, V, s, Full
  <1>7. Front(<<p>> \o s) = <<p>> \o Front(s)
    BY <1>1, <1>6, FrontIs
  <1>8. Lines(t) = <<p>> \o Lines(q)
    BY <1>2, <1>3, <1>4, <1>5, <1>7, Zenon
  <1>. QED
    BY <1>8 DEF t, c

-----------------------------------------------------------------------------
(***************************************************************************)
(* Concatenations, and the texts from which lines are read: a text of      *)
(* ended lines is read as these lines.                                     *)
(***************************************************************************)

LEMMA Assoc ==
  ASSUME NEW A, NEW a \in Seq(A), NEW b \in Seq(A), NEW d \in Seq(A)
  PROVE  a \o b \in Seq(A) /\ (a \o b) \o d = a \o (b \o d)
  BY ConcatAssociative, ConcatProperties

Regroups(x, y, z) == (x \o y) \o z = x \o (y \o z)

LEMMA Regroup ==
  ASSUME NEW A, NEW x \in Seq(A), NEW y \in Seq(A), NEW z \in Seq(A)
  PROVE  Regroups(x, y, z)
  BY Assoc DEF Regroups

LEMMA TwoAre ==
  ASSUME NEW A, NEW a \in A, NEW b \in A
  PROVE  <<a>> \o <<b>> = <<a, b>>
  <1> DEFINE u == <<a>> \o <<b>>
             v == <<a, b>>
  <1>1. u \in Seq(A) /\ Len(u) = 2 /\ u[1] = a /\ u[2] = b
    OBVIOUS
  <1>2. v \in Seq(A) /\ Len(v) = 2 /\ v[1] = a /\ v[2] = b
    OBVIOUS
  <1> HIDE DEF u, v
  <1>3. \A k \in 1 .. Len(u) : u[k] = v[k]
    BY <1>1, <1>2
  <1>4. u = v
    BY <1>1, <1>2, <1>3, SeqEqual
  <1>. QED
    BY <1>4 DEF u, v

LEMMA OneIs ==
  ASSUME NEW A, NEW c \in A
  PROVE  <<c>> \in Seq(A) /\ Len(<<c>>) = 1 /\ <<c>>[1] = c
  OBVIOUS

LEMMA FrontAppended ==
  ASSUME NEW A, NEW s \in Seq(A), NEW c \in A
  PROVE  s \o <<c>> \in Seq(A) /\ s \o <<c>> # <<>> /\ Front(s \o <<c>>) = s
  <1> DEFINE t == s \o <<c>>
             n == Len(s)
  <1>1. t \in Seq(A) /\ Len(t) = n + 1 /\ n \in Nat /\ \A k \in 1 .. n : t[k] = s[k]
    BY OneIs, ConcatAt
  <1> HIDE DEF t
  <1>2. Front(t) = SubSeq(t, 1, n)
    BY <1>1 DEF Front
  <1>3. SubSeq(t, 1, n) \in Seq(A) /\ Len(SubSeq(t, 1, n)) = n /\ \A k \in 1 .. n : SubSeq(t, 1, n)[k] = t[k]
    BY <1>1
  <1>4. SubSeq(t, 1, n) = s
    <2> DEFINE u == SubSeq(t, 1, n)
    <2>1. u \in Seq(A) /\ Len(u) = n /\ \A k \in 1 .. n : u[k] = s[k]
      BY <1>1, <1>3
    <2> HIDE DEF u
    <2>2. u = s
      BY <2>1, SeqEqual
    <2>. QED
      BY <2>2 DEF u
  <1>5. t # <<>>
    BY <1>1, EmptySeq
  <1>. QED
    BY <1>1, <1>2, <1>4, <1>5 DEF t

-----------------------------------------------------------------------------
(***************************************************************************)
(* What stands in lines, and the symbols that separate.                    *)
(***************************************************************************)
Line == Seq(Characters \ {"\n"})
Word == Seq((Characters \ {"\n"}) \ {" "})

LEMMA Separators ==
  /\ "\n" \in Characters /\ "\r" \in Characters \ {"\n"} /\ ":" \in Characters \ {"\n"}
  /\ " " \in Characters \ {"\n"} /\ ":" # "\r" /\ " " # ":" /\ "\r" # " "
  /\ "\r" \in (Characters \ {"\n"}) \ {" "}
  BY TextAssumption DEF Written

LEMMA LineIs ==
  /\ \A line \in Line : line \in Symbols /\ Lacks(line, "\n")
  /\ \A word \in Word : word \in Line /\ word \in Symbols /\ Lacks(word, " ")
  <1>1. \A line \in Line : line \in Symbols /\ Lacks(line, "\n")
    BY WithoutLacks DEF Line, Symbols
  <1>2. \A word \in Word : word \in Line /\ Lacks(word, " ")
    BY WithoutLacks DEF Line, Word
  <1>. QED
    BY <1>1, <1>2

EndLine == [line \in Line |-> line \o <<"\n">>]

LEMMA EndLineMaps == Maps(EndLine, Line, Symbols)
  <1> DEFINE c == "\n"
  <1>1. c \in Characters
    BY Separators
  <1> HIDE DEF c
  <1>2. \A line \in Line : line \o <<c>> \in Symbols
    <2> SUFFICES ASSUME NEW line \in Line PROVE line \o <<c>> \in Symbols
      OBVIOUS
    <2>1. line \in Seq(Characters)
      BY LineIs DEF Symbols
    <2>. QED
      BY <1>1, <2>1, FrontAppended DEF Symbols
  <1>. QED
    BY <1>2 DEF Maps, EndLine, c

LEMMA LinesEnded ==
  ASSUME NEW q \in Symbols
  PROVE  \A ls \in Seq(Line) :
           /\ FlattenSeq(Applied(ls, EndLine)) \in Symbols
           /\ Lines(FlattenSeq(Applied(ls, EndLine)) \o q) = ls \o Lines(q)
  <1> DEFINE c == "\n"
             F(ls) == FlattenSeq(Applied(ls, EndLine))
             P == {ls \in Seq(Line) : \A u \in Symbols : Lines(F(ls) \o u) = ls \o Lines(u)}
  <1>0. c \in Characters /\ <<c>> \in Symbols
    <2>1. c \in Characters
      BY Separators
    <2> HIDE DEF c
    <2>. QED
      BY <2>1 DEF Symbols
  <1>1. \A ls \in Seq(Line) : F(ls) \in Symbols
    BY EndLineMaps, FlattenAppliedType DEF Symbols
  <1>2. \A u \in Symbols : Lines(u) \in Seq(Line)
    BY <1>0, LinesType DEF Symbols, Line
  <1>3. <<>> \in P
    <2>1. F(<<>>) = <<>>
      BY AppliedEmpty
    <2> HIDE DEF F
    <2>2. \A u \in Symbols : <<>> \o u = u /\ <<>> \o Lines(u) = Lines(u)
      BY <1>2, ConcatEmptySeq DEF Symbols
    <2>3. <<>> \in Seq(Line)
      BY EmptySeq
    <2>. QED
      BY <2>1, <2>2, <2>3
  <1>4. ASSUME NEW ls \in Seq(Line), ls \in P, NEW x \in Line
        PROVE  Append(ls, x) \in P
    <2>0. Append(ls, x) \in Seq(Line) /\ Append(ls, x) = ls \o <<x>> /\ <<x>> \in Seq(Line)
      BY AppendProperties, AppendIsConcat, OneIs
    <2>1. F(Append(ls, x)) = F(ls) \o (x \o <<c>>)
      <3>1. F(Append(ls, x)) = F(ls) \o EndLine[x]
        BY EndLineMaps, FlattenApplied DEF Symbols
      <3>2. EndLine[x] = x \o <<c>>
        BY DEF EndLine
      <3>. QED
        BY <3>1, <3>2
    <2> HIDE DEF c
    <2>2. ASSUME NEW u \in Symbols PROVE Lines(F(Append(ls, x)) \o u) = Append(ls, x) \o Lines(u)
      <3> DEFINE f == F(ls)
                 v == x \o (<<c>> \o u)
      <3>1. f \in Seq(Characters) /\ x \in Seq(Characters) /\ <<c>> \in Seq(Characters) /\ u \in Seq(Characters)
        BY <1>0, <1>1, LineIs DEF Symbols
      <3> HIDE DEF f
      <3>2. (f \o (x \o <<c>>)) \o u = f \o v
        <4> DEFINE d == <<c>>
                   y == x \o d
        <4>1. d \in Seq(Characters) /\ y \in Seq(Characters)
          BY <3>1, Assoc
        <4> HIDE DEF d
        <4>2. y \o u = x \o (d \o u)
          BY <3>1, <4>1, Assoc
        <4> HIDE DEF y
        <4>3. (f \o y) \o u = f \o (y \o u)
          BY <3>1, <4>1, Assoc
        <4>. QED
          BY <4>2, <4>3 DEF y, d
      <3>3. v \in Symbols
        <4> DEFINE d == <<c>>
        <4>1. d \in Seq(Characters)
          BY <3>1
        <4> HIDE DEF d
        <4>2. d \o u \in Seq(Characters)
          BY <3>1, <4>1, Assoc
        <4>3. x \o (d \o u) \in Seq(Characters)
          BY <3>1, <4>2, Assoc
        <4>. QED
          BY <4>3 DEF d, Symbols
      <3>4. Lines(v) = <<x>> \o Lines(u)
        <4>1. x \in Seq(Characters \ {"\n"}) /\ "\n" \in Characters
          BY <1>0 DEF Line, c
        <4>. QED
          BY <3>1, <4>1, LinesCons DEF c
      <3> HIDE DEF v
      <3>5. Lines(f \o v) = ls \o (<<x>> \o Lines(u))
        <4>1. Lines(f \o v) = ls \o Lines(v)
          BY <1>4, <3>3 DEF f
        <4>. QED
          BY <3>4, <4>1
      <3>6. ls \o (<<x>> \o Lines(u)) = (ls \o <<x>>) \o Lines(u)
        <4> DEFINE d == <<x>>
                   w == Lines(u)
        <4>1. d \in Seq(Line) /\ w \in Seq(Line)
          BY <1>2, <2>0
        <4> HIDE DEF d, w
        <4>2. (ls \o d) \o w = ls \o (d \o w)
          BY <4>1, Assoc
        <4>. QED
          BY <4>2 DEF d, w
      <3>. QED
        BY <2>0, <2>1, <3>2, <3>5, <3>6 DEF f
    <2> HIDE DEF F
    <2>. QED
      BY <2>0, <2>2
  <1>5. Seq(Line) \subseteq P
    <2> HIDE DEF P
    <2>. QED
      BY <1>3, <1>4, SeqInductive
  <1> HIDE DEF F
  <1>6. \A ls \in Seq(Line) : F(ls) \in Symbols /\ Lines(F(ls) \o q) = ls \o Lines(q)
    BY <1>1, <1>5
  <1>. QED
    BY <1>6 DEF F

-----------------------------------------------------------------------------
(* A header of a request. *)

(***************************************************************************)
(* The headers that a request that parses can have.                        *)
(***************************************************************************)
Names == {name \in Line : Lacks(name, ":") /\ (name # <<>> => name[1] # "\r")}
HeaderSet == Names \X Line

HeaderLine(h) == h[1] \o (<<":">> \o (<<" ">> \o (h[2] \o <<"\r">>)))

LEMMA ConcatLine ==
  ASSUME NEW a \in Line, NEW b \in Line
  PROVE  a \o b \in Line
  BY ConcatProperties DEF Line

LEMMA SeparatorLines ==
  <<":">> \in Line /\ <<" ">> \in Line /\ <<"\r">> \in Line /\ <<>> \in Line
  <1>1. \A c \in Characters \ {"\n"} : <<c>> \in Line
    BY OneIs DEF Line
  <1>. QED
    BY <1>1, Separators, EmptySeq DEF Line

HeaderGroups(name, co, sp, value, cr, nl) ==
  ((name \o (co \o sp)) \o value) \o (cr \o nl) = (name \o (co \o (sp \o (value \o cr)))) \o nl

LEMMA HeaderRegrouped ==
  ASSUME NEW A, NEW name \in Seq(A), NEW co \in Seq(A), NEW sp \in Seq(A), NEW value \in Seq(A),
         NEW cr \in Seq(A), NEW nl \in Seq(A)
  PROVE  HeaderGroups(name, co, sp, value, cr, nl)
  <1> DEFINE va == value \o cr
             vb == sp \o va
             vd == co \o vb
             g == cr \o nl
             e == co \o sp
             h == name \o e
             l == value \o g
  <1>0. va \in Seq(A) /\ g \in Seq(A) /\ e \in Seq(A)
    BY Assoc
  <1> HIDE DEF va, g, e
  <1>1. vb \in Seq(A) /\ l \in Seq(A) /\ h \in Seq(A)
    BY <1>0, Assoc
  <1> HIDE DEF vb, h, l
  <1>2. vd \in Seq(A)
    BY <1>1, Assoc
  <1> HIDE DEF vd
  <1>3. Regroups(value, cr, nl) /\ Regroups(sp, va, nl) /\ Regroups(co, vb, nl)
    BY <1>0, <1>1, Regroup
  <1>4. Regroups(name, vd, nl) /\ Regroups(co, sp, l) /\ Regroups(name, e, l)
    BY <1>0, <1>1, <1>2, Regroup
  <1>5. Regroups(h, value, g)
    BY <1>0, <1>1, <1>2, Regroup
  <1>. QED
    BY <1>3, <1>4, <1>5, Zenon DEF HeaderGroups, Regroups, va, vb, vd, g, e, h, l
(***************************************************************************)
(* The text of a header is its line.                                       *)
(***************************************************************************)
LEMMA HeaderTextIs ==
  ASSUME NEW name \in Line, NEW value \in Line
  PROVE  name \o ColonSpace \o value \o CRLF = HeaderLine(<<name, value>>) \o <<"\n">>
  <1> DEFINE co == <<":">>
             sp == <<" ">>
             cr == <<"\r">>
             nl == <<"\n">>
  <1>1. ColonSpace = co \o sp /\ CRLF = cr \o nl
    BY Separators, TwoAre, Zenon DEF ColonSpace, CRLF
  <1>2. /\ co \in Seq(Characters) /\ sp \in Seq(Characters) /\ cr \in Seq(Characters)
        /\ nl \in Seq(Characters) /\ name \in Seq(Characters) /\ value \in Seq(Characters)
    <2>1. \A c \in Characters : <<c>> \in Seq(Characters)
      BY OneIs
    <2>. QED
      BY <2>1, Separators, LineIs DEF Symbols
  <1>3. HeaderLine(<<name, value>>) = name \o (co \o (sp \o (value \o cr)))
    BY DEF HeaderLine
  <1> HIDE DEF co, sp, cr, nl
  <1>4. HeaderGroups(name, co, sp, value, cr, nl)
    BY <1>2, HeaderRegrouped
  <1>. QED
    BY <1>1, <1>3, <1>4, Zenon DEF HeaderGroups, nl

LEMMA HeaderLineIs ==
  ASSUME NEW h \in HeaderSet
  PROVE  HeaderLine(h) \in Line /\ ~Blank(HeaderLine(h)) /\ ~HeaderThrows(HeaderLine(h)) /\ Header(HeaderLine(h)) = h
  <1> DEFINE name == h[1]
             value == h[2]
             last == value \o <<"\r">>
             tail == <<" ">> \o last
             rest == <<":">> \o tail
             line == HeaderLine(h)
             n == Len(name)
             B == Characters \ {"\n"}
  <1>1. name \in Line /\ Lacks(name, ":") /\ value \in Line /\ h = <<name, value>> /\ (name # <<>> => name[1] # "\r")
    BY DEF HeaderSet, Names
  <1>2. line = name \o rest
    BY DEF HeaderLine
  <1>3. last \in Line /\ tail \in Line /\ rest \in Line /\ line \in Line
    BY <1>1, <1>2, ConcatLine, SeparatorLines
  <1>4. /\ Len(last) = Len(value) + 1 /\ Len(tail) = Len(last) + 1 /\ Len(rest) = Len(tail) + 1
        /\ Len(line) = n + Len(rest) /\ n \in Nat /\ Len(value) \in Nat /\ rest[1] = ":"
        /\ (\A j \in 1 .. n : line[j] = name[j]) /\ \A j \in 1 .. Len(rest) : line[n + j] = rest[j]
    <2> DEFINE cr == <<"\r">>
               sp == <<" ">>
               co == <<":">>
    <2>1. Len(cr) = 1 /\ Len(sp) = 1 /\ Len(co) = 1 /\ co[1] = ":"
      OBVIOUS
    <2>2. cr \in Line /\ sp \in Line /\ co \in Line
      BY SeparatorLines
    <2>3. last = value \o cr /\ tail = sp \o last /\ rest = co \o tail
      OBVIOUS
    <2> HIDE DEF last, tail, rest, cr, sp, co, name, value, line
    <2>4. Len(last) = Len(value) + Len(cr) /\ Len(value) \in Nat
      BY <1>1, <2>2, <2>3, ConcatAt DEF Line
    <2>5. Len(tail) = Len(sp) + Len(last)
      BY <1>3, <2>2, <2>3, ConcatAt DEF Line
    <2>6. Len(rest) = Len(co) + Len(tail) /\ \A j \in 1 .. Len(co) : rest[j] = co[j]
      BY <1>3, <2>2, <2>3, ConcatAt DEF Line
    <2>7. /\ Len(line) = n + Len(rest) /\ n \in Nat
          /\ (\A j \in 1 .. n : line[j] = name[j]) /\ \A j \in 1 .. Len(rest) : line[n + j] = rest[j]
      BY <1>1, <1>2, <1>3, ConcatAt DEF Line
    <2>. QED
      BY <2>1, <2>4, <2>5, <2>6, <2>7
  <1>5. Find(line, Colon, 0) = n
    <2> DEFINE c == ":"
    <2>1. name \in Seq(B) /\ c \in B /\ Lacks(name, c) /\ tail \in Seq(B)
      BY <1>1, <1>3, Separators DEF Line
    <2>2. line = name \o (<<c>> \o tail) /\ Colon = <<c>>
      BY <1>2 DEF Colon
    <2> HIDE DEF c, name, tail, B, line
    <2>3. Find(name \o (<<c>> \o tail), <<c>>, 0) = Len(name)
      BY <2>1, FindFirst
    <2>. QED
      BY <2>2, <2>3
  <1>6. ~HeaderThrows(line)
    <2> HIDE DEF name, line, rest, tail, last, value
    <2>1. Len(line) - 1 # n
      BY <1>4
    <2>. QED
      BY <1>5, <2>1 DEF HeaderThrows
  <1>7. ~Blank(line)
    <2> HIDE DEF name, line, rest, tail, last, value
    <2>1. line # <<>>
      BY <1>4, EmptySeq
    <2>2. CASE name = <<>>
      <3>1. n = 0 /\ 1 \in 1 .. Len(rest) /\ n + 1 = 1
        BY <1>4, <2>2, EmptySeq
      <3>2. line[1] = ":"
        BY <1>4, <3>1
      <3>. QED
        BY <2>1, <3>2, Separators DEF Blank
    <2>3. CASE name # <<>>
      <3>1. 1 \in 1 .. n
        BY <1>1, <2>3, EmptySeq DEF Line
      <3>2. line[1] # "\r"
        BY <1>1, <1>4, <2>3, <3>1
      <3>. QED
        BY <2>1, <3>2 DEF Blank
    <2>. QED
      BY <2>2, <2>3
  <1>8. Substr(line, 0, n) = name
    <2> HIDE DEF name, line, rest, tail, last, value, B
    <2>1. name \in Seq(B) /\ rest \in Seq(B) /\ line \in Seq(B)
      BY <1>1, <1>3 DEF Line, B
    <2>2. n \in Int /\ n >= 0 /\ 0 + n <= Len(line) /\ 0 + n = n /\ 0 + 1 = 1
      BY <1>4
    <2>3. Substr(line, 0, n) = SubSeq(line, 1, n)
      BY <2>1, <2>2, SubstrIs
    <2> DEFINE u == SubSeq(line, 1, n)
    <2>4. u \in Seq(B) /\ Len(u) = n /\ \A j \in 1 .. n : u[j] = name[j]
      BY <1>4, <2>1, <2>2
    <2> HIDE DEF u
    <2>5. u = name
      BY <2>1, <2>4, SeqEqual
    <2>. QED
      BY <2>3, <2>5 DEF u
  <1>9. Rest(line, n + 2) = last
    <2> DEFINE co == <<":">>
               sp == <<" ">>
               p == name \o co
               q == p \o sp
    <2>1. name \in Seq(B) /\ last \in Seq(B) /\ tail \in Seq(B) /\ co \in Seq(B) /\ sp \in Seq(B)
      BY <1>1, <1>3, SeparatorLines DEF Line
    <2>2. Len(co) = 1 /\ Len(sp) = 1
      OBVIOUS
    <2>3. line = name \o (co \o tail) /\ tail = sp \o last
      BY <1>2
    <2> HIDE DEF co, sp, name, last, tail, B, line
    <2>4. p \in Seq(B) /\ Len(p) = n + 1
      <3>1. p \in Seq(B) /\ Len(p) = Len(name) + Len(co)
        BY <2>1, ConcatAt
      <3>. QED
        BY <2>2, <3>1
    <2>5. p \o tail = name \o (co \o tail)
      BY <2>1, Assoc
    <2> HIDE DEF p
    <2>6. q \in Seq(B) /\ Len(q) = n + 2
      <3>1. q \in Seq(B) /\ Len(q) = Len(p) + Len(sp)
        BY <2>1, <2>4, ConcatAt
      <3>2. n \in Nat
        BY <2>1, LenProperties
      <3>. QED
        BY <2>2, <2>4, <3>1, <3>2
    <2>7. q \o last = p \o tail
      <3>1. Regroups(p, sp, last)
        BY <2>1, <2>4, Regroup
      <3>. QED
        BY <2>3, <3>1 DEF Regroups, q
    <2> HIDE DEF q
    <2>8. line = q \o last /\ n + 2 + 0 = n + 2
      BY <1>4, <2>3, <2>5, <2>7
    <2>9. Rest(q \o last, Len(q) + 0) = Rest(last, 0)
      BY <2>1, <2>6, RestBehind, LenProperties
    <2>10. Rest(last, 0) = last
      <3>1. Rest(last, 0) = SubSeq(last, 0 + 1, Len(last))
        BY <2>1, RestIs
      <3>. QED
        BY <2>1, <3>1, SubSeqFull
    <2>. QED
      BY <2>6, <2>8, <2>9, <2>10
  <1>10. Chop(last) = value
    <2> DEFINE c == "\r"
    <2>1. c \in B /\ value \in Seq(B) /\ last = value \o <<c>>
      BY <1>1, Separators DEF Line
    <2> HIDE DEF c, B, value, last
    <2>2. last # <<>> /\ Front(last) = value
      BY <2>1, FrontAppended
    <2>. QED
      BY <2>2 DEF Chop
  <1>11. Header(line) = <<name, value>>
    <2> HIDE DEF name, value, last, line
    <2>0. n \in Nat
      BY <1>1, LenProperties DEF Line
    <2>1. n # Npos
      BY <2>0 DEF Npos
    <2>. QED
      BY <1>5, <1>8, <1>9, <1>10, <2>1, Zenon DEF Header
  <1>. QED
    BY <1>1, <1>3, <1>6, <1>7, <1>11

LEMMA ChopLine ==
  ASSUME NEW A, NEW line \in Seq(A)
  PROVE  Chop(line) \in Seq(A)
  <1>1. CASE line = <<>>
    BY <1>1 DEF Chop
  <1>2. CASE line # <<>>
    <2>1. Front(line) \in Seq(A)
      BY <1>2, FrontIs, EmptySeq
    <2>. QED
      BY <1>2, <2>1 DEF Chop
  <1>. QED
    BY <1>1, <1>2

(***************************************************************************)
(* And what a line that is not blank is read as is one of them.            *)
(***************************************************************************)
LEMMA HeaderOf ==
  ASSUME NEW line \in Line, ~Blank(line)
  PROVE  Header(line) \in HeaderSet
  <1> DEFINE B == Characters \ {"\n"}
             c == ":"
             r == Find(line, Colon, 0)
             name == Substr(line, 0, r)
             value == Chop(Rest(line, r + 2))
  <1>0. line \in Seq(B) /\ c \in B /\ Colon = <<c>> /\ Len(line) \in Nat
    BY Separators, LenProperties DEF Line, Colon
  <1>1. line # <<>> /\ line[1] # "\r"
    BY DEF Blank
  <1>2. Finds(line, <<c>>, 0, r)
    <2> DEFINE d == <<c>>
    <2>1. d \in Seq(B)
      BY <1>0, OneIs
    <2> HIDE DEF d
    <2>. QED
      BY <1>0, <2>1, FindIs DEF d
  <1>3. Header(line) = IF r = Npos THEN <<<<>>, <<>>>> ELSE <<name, value>>
    BY Zenon DEF Header
  <1>4. ASSUME r = Npos PROVE Header(line) \in HeaderSet
    <2>1. Lacks(<<>>, ":") /\ <<>> \in Line
      BY EmptySeq DEF Lacks, Line
    <2>. QED
      BY <1>3, <1>4, <2>1 DEF HeaderSet, Names
  <1>5. ASSUME r # Npos PROVE Header(line) \in HeaderSet
    <2> HIDE DEF r, c, B, name, value
    <2>1. r \in Nat /\ StandsAt(r, <<c>>, line) /\ \A k \in Nat : k >= 0 /\ k < r => ~StandsAt(k, <<c>>, line)
      BY <1>2, <1>5 DEF Finds
    <2>2. r + 1 \in 1 .. Len(line)
      BY <1>0, <2>1, StandsOne
    <2>3. name = SubSeq(line, 1, r)
      <3>1. r \in Int /\ r >= 0 /\ 0 + r <= Len(line) /\ 0 + r = r /\ 0 + 1 = 1
        BY <1>0, <2>1, <2>2
      <3>2. Substr(line, 0, r) = SubSeq(line, 0 + 1, 0 + r)
        BY <1>0, <3>1, SubstrIs
      <3>. QED
        BY <3>1, <3>2 DEF name
    <2>4. name \in Seq(B) /\ Len(name) = r /\ \A k \in 1 .. r : name[k] = line[k]
      BY <1>0, <2>1, <2>2, <2>3
    <2>5. Lacks(name, c)
      <3> SUFFICES ASSUME NEW k \in 1 .. r PROVE name[k] # c
        BY <2>4 DEF Lacks
      <3>1. k - 1 \in Nat /\ k - 1 >= 0 /\ k - 1 < r /\ (k - 1) + 1 = k /\ k \in 1 .. Len(line)
        BY <1>0, <2>1, <2>2
      <3>2. ~StandsAt(k - 1, <<c>>, line)
        BY <2>1, <3>1
      <3>3. line[k] # c
        BY <1>0, <3>1, <3>2, StandsOne
      <3>. QED
        BY <2>4, <3>3
    <2>6. name # <<>> => name[1] # "\r"
      <3> SUFFICES ASSUME name # <<>> PROVE name[1] # "\r"
        OBVIOUS
      <3>1. 1 \in 1 .. r
        BY <2>4, EmptySeq
      <3>. QED
        BY <1>1, <2>4, <3>1
    <2>7. value \in Line
      <3>1. r + 2 \in Nat
        BY <2>1
      <3>2. Rest(line, r + 2) \in Seq(B)
        BY <1>0, <3>1, RestIs
      <3>. QED
        BY <3>2, ChopLine DEF value, Line, B
    <2>8. name \in Names
      BY <2>4, <2>5, <2>6 DEF Names, Line, B, c
    <2>. QED
      BY <1>3, <1>5, <2>7, <2>8 DEF HeaderSet
  <1>. QED
    BY <1>4, <1>5

-----------------------------------------------------------------------------
(* A request that parses. *)

(***************************************************************************)
(* The parts of ParseRequest.                                              *)
(***************************************************************************)
WordsOf(lines) == IF lines = <<>> THEN <<<<>>, <<>>, <<>>>> ELSE SplitAt(lines[1], " ")
EndOf(lines) == Min({k \in 2 .. Len(lines) : Blank(lines[k])} \cup {Len(lines) + 1})
FieldsOf(lines) == SubSeq(lines, 2, EndOf(lines) - 1)
HeadersOf(fields) == [k \in DOMAIN fields |-> Header(fields[k])]
BodyOf(lines) == FlattenSeq(SubSeq(lines, EndOf(lines) + 1, Len(lines)))
Throws(fields) == \E k \in DOMAIN fields : HeaderThrows(fields[k])

RequestOf(words, headers, body, text) ==
  [form |-> "parsed", method |-> words[1], uri |-> words[2], version |-> Chop(words[3]),
   headers |-> headers, cookie |-> CookieOf(headers), body |-> body, raw |-> text]

LEMMA ParseIs ==
  ASSUME NEW text
  PROVE  ParseRequest(text) =
           IF Len(WordsOf(Lines(text))) # 3 THEN [form |-> "nullptr"]
           ELSE IF Throws(FieldsOf(Lines(text))) THEN [form |-> "throws"]
           ELSE RequestOf(WordsOf(Lines(text)), HeadersOf(FieldsOf(Lines(text))), BodyOf(Lines(text)), text)
  BY Zenon DEF ParseRequest, WordsOf, EndOf, FieldsOf, HeadersOf, BodyOf, Throws, RequestOf

LEMMA FindType ==
  ASSUME NEW text, NEW pattern, NEW from \in Nat
  PROVE  Find(text, pattern, from) \in Nat \cup {Npos}
  <1> DEFINE at == {k \in from .. Len(text) - Len(pattern) : SubSeq(text, k + 1, k + Len(pattern)) = pattern}
  <1>1. Find(text, pattern, from) = IF at = {} THEN Npos ELSE Min(at)
    BY Zenon DEF Find
  <1>2. at \in SUBSET Nat
    OBVIOUS
  <1> HIDE DEF at
  <1>. QED
    BY <1>1, <1>2, LeastIs

LEMMA CookieType ==
  ASSUME NEW headers \in Seq(HeaderSet)
  PROVE  CookieOf(headers) \in Symbols
  <1> DEFINE carriers == {k \in DOMAIN headers : /\ headers[k][1] = Cookie
                                                /\ Find(headers[k][2], <<"private=">>, 0) # Npos}
  <1>1. CookieOf(headers) = IF carriers = {} THEN <<>> ELSE CookieValue(headers[Max(carriers)][2])
    BY Zenon DEF CookieOf
  <1>2. Len(headers) \in Nat /\ carriers \in SUBSET (1 .. Len(headers))
    BY LenProperties
  <1> HIDE DEF carriers
  <1>3. ASSUME carriers = {} PROVE CookieOf(headers) \in Symbols
    BY <1>1, <1>3, EmptySeq DEF Symbols
  <1>4. ASSUME carriers # {} PROVE CookieOf(headers) \in Symbols
    <2> DEFINE value == headers[Max(carriers)][2]
               first == Find(value, <<"private=">>, 0) + 1
               next == Find(value, <<";">>, first)
    <2>1. Max(carriers) \in 1 .. Len(headers)
      BY <1>2, <1>4, MaxOfPositions
    <2>2. headers[Max(carriers)] \in HeaderSet
      BY <2>1, ElementOfSeq
    <2>3. value \in Symbols
      BY <2>2, LineIs DEF HeaderSet
    <2>4. CookieOf(headers) = Substr(value, first, next - first)
      BY <1>1, <1>4, Zenon DEF CookieValue
    <2> HIDE DEF value
    <2>5. first \in Nat
      <3>1. Find(value, <<"private=">>, 0) \in Nat \cup {Npos}
        BY FindType
      <3>. QED
        BY <3>1 DEF Npos
    <2> HIDE DEF first
    <2>6. next \in Int
      <3>1. next \in Nat \cup {Npos}
        BY <2>5, FindType
      <3> HIDE DEF next
      <3>. QED
        BY <3>1 DEF Npos
    <2> HIDE DEF next
    <2>7. next - first \in Int
      BY <2>5, <2>6
    <2>. QED
      BY <2>3, <2>4, <2>5, <2>7, SubstrIs DEF Symbols
  <1>. QED
    BY <1>3, <1>4

LEMMA WordsType ==
  ASSUME NEW lines \in Seq(Line)
  PROVE  WordsOf(lines) \in Seq(Word)
  <1>1. CASE lines = <<>>
    <2>1. <<>> \in Word
      BY EmptySeq DEF Word
    <2> HIDE DEF Word
    <2>2. <<<<>>, <<>>, <<>>>> \in Seq(Word)
      BY <2>1
    <2>. QED
      BY <1>1, <2>2 DEF WordsOf
  <1>2. CASE lines # <<>>
    <2> DEFINE c == " "
               B == Characters \ {"\n"}
    <2>1. c \in B
      BY Separators
    <2>2. lines[1] \in Seq(B)
      <3>1. 1 \in 1 .. Len(lines)
        BY <1>2, EmptySeq
      <3>. QED
        BY <3>1, ElementOfSeq DEF Line
    <2> HIDE DEF c, B
    <2>3. SplitAt(lines[1], c) \in Seq(Seq(B \ {c}))
      BY <2>1, <2>2, SplitParts
    <2>4. WordsOf(lines) = SplitAt(lines[1], c)
      BY <1>2 DEF WordsOf, c
    <2>. QED
      BY <2>3, <2>4 DEF Word, B, c
  <1>. QED
    BY <1>1, <1>2

LEMMA EndIs ==
  ASSUME NEW lines \in Seq(Line)
  PROVE  /\ EndOf(lines) \in Nat /\ EndOf(lines) <= Len(lines) + 1 /\ EndOf(lines) >= 1
         /\ \A k \in 2 .. EndOf(lines) - 1 : k \in 1 .. Len(lines) /\ ~Blank(lines[k])
  <1> DEFINE n == Len(lines)
             T == {k \in 2 .. n : Blank(lines[k])} \cup {n + 1}
             e == EndOf(lines)
  <1>0. n \in Nat
    BY LenProperties
  <1>1. T \in SUBSET Nat /\ T # {} /\ n + 1 \in T /\ \A k \in T : k >= 1
    BY <1>0
  <1>2. e = Min(T)
    BY Zenon DEF EndOf
  <1>3. \A k \in 2 .. n : Blank(lines[k]) => k \in T
    OBVIOUS
  <1> HIDE DEF T, e
  <1>4. e \in T /\ \A k \in T : e <= k
    BY <1>1, <1>2, LeastIs
  <1>5. e \in Nat /\ e <= n + 1 /\ e >= 1
    BY <1>1, <1>4
  <1>6. ASSUME NEW k \in 2 .. e - 1 PROVE k \in 1 .. n /\ ~Blank(lines[k])
    <2>1. k \in 2 .. n /\ k \in 1 .. n /\ k \in Nat /\ ~(e <= k)
      BY <1>0, <1>5
    <2>. QED
      BY <1>3, <1>4, <2>1
  <1>. QED
    BY <1>5, <1>6 DEF e

LEMMA FieldsType ==
  ASSUME NEW lines \in Seq(Line)
  PROVE  /\ FieldsOf(lines) \in Seq(Line)
         /\ \A k \in 1 .. Len(FieldsOf(lines)) : ~Blank(FieldsOf(lines)[k])
  <1> DEFINE e == EndOf(lines)
             f == FieldsOf(lines)
  <1>1. /\ e \in Nat /\ e - 1 \in Int
        /\ \A k \in 2 .. e - 1 : k \in 1 .. Len(lines) /\ ~Blank(lines[k])
    BY EndIs
  <1>2. f = SubSeq(lines, 2, e - 1)
    BY DEF FieldsOf
  <1> HIDE DEF e, f
  <1>3. \A k \in 2 .. e - 1 : lines[k] \in Line
    BY <1>1, ElementOfSeq
  <1>4. /\ f \in Seq(Line) /\ Len(f) = (IF 2 <= e - 1 THEN e - 1 - 2 + 1 ELSE 0)
        /\ \A k \in 1 .. e - 1 - 2 + 1 : f[k] = lines[2 + k - 1]
    BY <1>1, <1>2, <1>3, SubSeqProperties
  <1>5. ASSUME NEW k \in 1 .. Len(f) PROVE ~Blank(f[k])
    <2>1. k \in 1 .. e - 1 - 2 + 1 /\ 2 + k - 1 \in 2 .. e - 1
      BY <1>1, <1>4
    <2>. QED
      BY <1>1, <1>4, <2>1
  <1>. QED
    BY <1>4, <1>5 DEF f

LEMMA HeadersType ==
  ASSUME NEW lines \in Seq(Line)
  PROVE  HeadersOf(FieldsOf(lines)) \in Seq(HeaderSet)
  <1> DEFINE f == FieldsOf(lines)
             n == Len(f)
  <1>1. f \in Seq(Line) /\ \A k \in 1 .. n : ~Blank(f[k])
    BY FieldsType
  <1> HIDE DEF f
  <1>2. n \in Nat /\ DOMAIN f = 1 .. n /\ \A k \in 1 .. n : f[k] \in Line
    BY <1>1, LenProperties, ElementOfSeq
  <1>3. \A k \in 1 .. n : Header(f[k]) \in HeaderSet
    BY <1>1, <1>2, HeaderOf
  <1>4. [k \in 1 .. n |-> Header(f[k])] \in Seq(HeaderSet)
    BY <1>2, <1>3
  <1>. QED
    BY <1>2, <1>4 DEF HeadersOf, f

LEMMA BodyType ==
  ASSUME NEW lines \in Seq(Line)
  PROVE  BodyOf(lines) \in Line
  <1> DEFINE e == EndOf(lines)
             s == SubSeq(lines, e + 1, Len(lines))
  <1>1. e \in Nat
    BY EndIs
  <1> HIDE DEF e
  <1>2. s \in Seq(Line)
    BY <1>1
  <1> HIDE DEF s
  <1>3. FlattenSeq(s) \in Line
    BY <1>2, FlattenPlaces DEF Line
  <1>. QED
    BY <1>3 DEF BodyOf, s, e

Proper(r, text) ==
  /\ r \in RequestType /\ r.form = "parsed" /\ r.method \in Word /\ r.uri \in Word
  /\ r.headers \in Seq(HeaderSet) /\ r.body \in Line /\ r.raw = text

LEMMA HeadersAreTexts == Seq(HeaderSet) \subseteq Seq(Symbols \X Symbols)
  <1>1. HeaderSet \subseteq Symbols \X Symbols
    BY LineIs DEF HeaderSet, Names
  <1> HIDE DEF HeaderSet
  <1>. QED
    BY <1>1, SeqMonotonic

LEMMA ParsedIs ==
  ASSUME NEW text \in Symbols, ParseRequest(text).form = "parsed"
  PROVE  Proper(ParseRequest(text), text)
  <1> DEFINE lines == Lines(text)
             words == WordsOf(lines)
             headers == HeadersOf(FieldsOf(lines))
             body == BodyOf(lines)
             cookie == CookieOf(headers)
             version == Chop(words[3])
             r == RequestOf(words, headers, body, text)
  <1>1. lines \in Seq(Line)
    BY Separators, LinesType DEF Symbols, Line
  <1>2. Len(words) = 3 /\ ParseRequest(text) = r
    <2>1. "nullptr" # "parsed" /\ "throws" # "parsed"
      OBVIOUS
    <2> HIDE DEF r, lines, words, headers, body
    <2>2. ParseRequest(text) =
            IF Len(words) # 3 THEN [form |-> "nullptr"]
            ELSE IF Throws(FieldsOf(lines)) THEN [form |-> "throws"] ELSE r
      BY ParseIs DEF r, lines, words, headers, body
    <2>3. ASSUME Len(words) # 3 PROVE FALSE
      <3>1. ParseRequest(text) = [form |-> "nullptr"]
        BY <2>2, <2>3
      <3>. QED
        BY <2>1, <3>1
    <2>4. ASSUME Len(words) = 3, Throws(FieldsOf(lines)) PROVE FALSE
      <3>1. ParseRequest(text) = [form |-> "throws"]
        BY <2>2, <2>4
      <3>. QED
        BY <2>1, <3>1
    <2>. QED
      BY <2>2, <2>3, <2>4
  <1> HIDE DEF lines
  <1>3. words \in Seq(Word) /\ headers \in Seq(HeaderSet) /\ body \in Line
    BY <1>1, WordsType, HeadersType, BodyType
  <1>4. cookie \in Symbols
    BY <1>3, CookieType
  <1> HIDE DEF words, headers, body, cookie
  <1>5. words[1] \in Word /\ words[2] \in Word /\ words[3] \in Word
    <2>1. 1 \in 1 .. Len(words) /\ 2 \in 1 .. Len(words) /\ 3 \in 1 .. Len(words)
      BY <1>2
    <2>. QED
      BY <1>3, <2>1, ElementOfSeq
  <1>6. version \in Word
    BY <1>5, ChopLine DEF Word
  <1>7. words[1] \in Symbols /\ words[2] \in Symbols /\ version \in Symbols /\ body \in Symbols
        /\ headers \in Seq(Symbols \X Symbols)
    BY <1>3, <1>5, <1>6, LineIs, HeadersAreTexts
  <1> HIDE DEF version
  <1>8. r = [form |-> "parsed", method |-> words[1], uri |-> words[2], version |-> version,
             headers |-> headers, cookie |-> cookie, body |-> body, raw |-> text]
    BY DEF RequestOf, version, cookie
  <1> HIDE DEF r
  <1>9. r \in RequestType
    BY <1>4, <1>7, <1>8 DEF RequestType
  <1>10. Proper(r, text)
    BY <1>3, <1>5, <1>8, <1>9 DEF Proper
  <1>. QED
    BY <1>2, <1>10

-----------------------------------------------------------------------------
(***************************************************************************)
(* A request that is written and parsed again is the same, but for a       *)
(* carriage return that ends its body.                                     *)
(***************************************************************************)
Sendable(r) ==
  /\ r.method \in Word /\ r.uri \in Word /\ r.version \in Word
  /\ r.headers \in Seq(HeaderSet) /\ r.body \in Line

Reread(s, r) ==
  /\ s.form = "parsed" /\ s.method = r.method /\ s.uri = r.uri /\ s.version = r.version
  /\ s.headers = r.headers /\ s.body = Append(r.body, "\r")

FirstLine(r) == r.method \o (<<" ">> \o (r.uri \o (<<" ">> \o (r.version \o <<"\r">>))))
HeaderLines(headers) == [k \in DOMAIN headers |-> HeaderLine(headers[k])]
BodyLine(r) == r.body \o <<"\r">>
SentLines(r) == <<FirstLine(r)>> \o (HeaderLines(r.headers) \o (<<<<"\r">>>> \o <<BodyLine(r)>>))
Ended(ls) == FlattenSeq(Applied(ls, EndLine))

RawGroups(m, sp, u, v, cr, nl, ht, body) ==
  ((((((((m \o sp) \o u) \o sp) \o v) \o (cr \o nl)) \o ht) \o (cr \o nl)) \o body) \o (cr \o nl)
    = ((m \o (sp \o (u \o (sp \o (v \o cr))))) \o nl) \o (ht \o ((cr \o nl) \o ((body \o cr) \o nl)))

LEMMA RawRegrouped ==
  ASSUME NEW A, NEW m \in Seq(A), NEW sp \in Seq(A), NEW u \in Seq(A), NEW v \in Seq(A),
         NEW cr \in Seq(A), NEW nl \in Seq(A), NEW ht \in Seq(A), NEW body \in Seq(A)
  PROVE  RawGroups(m, sp, u, v, cr, nl, ht, body)
  <1> DEFINE p2 == m \o sp
             p3 == p2 \o u
             p4 == p3 \o sp
             p5 == p4 \o v
             g == cr \o nl
             e4 == v \o cr
             e3 == sp \o e4
             e2 == u \o e3
             x == p5 \o g
             x2 == x \o ht
             x3 == x2 \o g
             z == body \o g
             z2 == g \o z
  <1>1. p2 \in Seq(A) /\ g \in Seq(A) /\ e4 \in Seq(A)
    BY Assoc
  <1> HIDE DEF p2, g, e4
  <1>2. p3 \in Seq(A) /\ e3 \in Seq(A) /\ z \in Seq(A)
    BY <1>1, Assoc
  <1> HIDE DEF p3, e3, z
  <1>3. p4 \in Seq(A) /\ e2 \in Seq(A) /\ z2 \in Seq(A)
    BY <1>1, <1>2, Assoc
  <1> HIDE DEF p4, e2, z2
  <1>4. p5 \in Seq(A)
    BY <1>3, Assoc
  <1> HIDE DEF p5
  <1>5. x \in Seq(A)
    BY <1>1, <1>4, Assoc
  <1> HIDE DEF x
  <1>6. x2 \in Seq(A)
    BY <1>5, Assoc
  <1> HIDE DEF x2
  <1>7. x3 \in Seq(A)
    BY <1>1, <1>6, Assoc
  <1> HIDE DEF x3
  <1>8. Regroups(p5, cr, nl) /\ Regroups(p4, v, cr) /\ Regroups(p3, sp, e4)
    BY <1>1, <1>2, <1>3, <1>4, Regroup
  <1>9. Regroups(p2, u, e3) /\ Regroups(m, sp, e2) /\ Regroups(body, cr, nl)
    BY <1>1, <1>2, <1>3, Regroup
  <1>10. Regroups(x3, body, g)
    BY <1>1, <1>7, Regroup
  <1>11. Regroups(x2, g, z) /\ Regroups(x, ht, z2)
    BY <1>1, <1>2, <1>3, <1>5, <1>6, Regroup
  <1>12. p5 \o cr = m \o (sp \o (u \o (sp \o (v \o cr))))
    BY <1>8, <1>9, Zenon DEF Regroups, p5, p4, p3, p2, e4, e3, e2
  <1>13. x = (p5 \o cr) \o nl /\ z = (body \o cr) \o nl
    BY <1>8, <1>9, Zenon DEF Regroups, x, g, z
  <1>14. (x3 \o body) \o g = x \o (ht \o (g \o z))
    BY <1>10, <1>11, Zenon DEF Regroups, z, z2, x2, x3
  <1>15. (x3 \o body) \o g = ((m \o (sp \o (u \o (sp \o (v \o cr))))) \o nl) \o (ht \o (g \o ((body \o cr) \o nl)))
    BY <1>12, <1>13, <1>14, Zenon
  <1>. QED
    BY <1>15, Zenon DEF RawGroups, x3, x2, x, p5, p4, p3, p2, g

LEMMA EndedOne ==
  ASSUME NEW line \in Line
  PROVE  <<line>> \in Seq(Line) /\ Ended(<<line>>) = line \o <<"\n">>
  <1> DEFINE m == EndLine
  <1>1. <<>> \in Seq(Line) /\ Append(<<>>, line) = <<line>> /\ <<line>> \in Seq(Line)
    OBVIOUS
  <1>2. Maps(m, Line, Seq(Characters)) /\ m[line] = line \o <<"\n">> /\ m[line] \in Seq(Characters)
    BY EndLineMaps DEF Symbols, EndLine, Maps
  <1> HIDE DEF m
  <1>3. FlattenSeq(Applied(Append(<<>>, line), m)) = FlattenSeq(Applied(<<>>, m)) \o m[line]
    <2> DEFINE e == <<>>
    <2>1. e \in Seq(Line)
      BY <1>1
    <2> HIDE DEF e
    <2>2. FlattenSeq(Applied(Append(e, line), m)) = FlattenSeq(Applied(e, m)) \o m[line]
      <3>1. Maps(m, Line, Seq(Characters))
        BY <1>2
      <3>. QED
        BY <2>1, <3>1, FlattenApplied
    <2>. QED
      BY <2>2 DEF e
  <1>4. FlattenSeq(Applied(<<>>, m)) = <<>>
    BY AppliedEmpty
  <1>5. <<>> \o m[line] = m[line]
    BY <1>2, ConcatEmptySeq
  <1>. QED
    BY <1>1, <1>2, <1>3, <1>4, <1>5 DEF Ended, m

LEMMA EndedConcat ==
  ASSUME NEW s \in Seq(Line), NEW t \in Seq(Line)
  PROVE  s \o t \in Seq(Line) /\ Ended(s \o t) = Ended(s) \o Ended(t)
  BY EndLineMaps, FlattenAppliedConcat, ConcatProperties DEF Symbols, Ended

LEMMA HeaderLinesIs ==
  ASSUME NEW headers \in Seq(HeaderSet)
  PROVE  /\ HeaderLines(headers) \in Seq(Line) /\ Len(HeaderLines(headers)) = Len(headers)
         /\ \A k \in 1 .. Len(headers) : HeaderLines(headers)[k] = HeaderLine(headers[k])
         /\ HeaderText(headers) = Ended(HeaderLines(headers))
  <1> DEFINE n == Len(headers)
             hl == HeaderLines(headers)
  <1>1. n \in Nat /\ DOMAIN headers = 1 .. n /\ \A k \in 1 .. n : headers[k] \in HeaderSet
    BY LenProperties, ElementOfSeq
  <1>2. \A k \in 1 .. n : HeaderLine(headers[k]) \in Line
    BY <1>1, HeaderLineIs
  <1>3. hl \in Seq(Line) /\ Len(hl) = n /\ DOMAIN hl = 1 .. n /\ \A k \in 1 .. n : hl[k] = HeaderLine(headers[k])
    BY <1>1, <1>2 DEF HeaderLines
  <1> HIDE DEF hl
  <1>4. ASSUME NEW k \in 1 .. n
        PROVE  headers[k][1] \o ColonSpace \o headers[k][2] \o CRLF = EndLine[hl[k]]
    <2> DEFINE name == headers[k][1]
               value == headers[k][2]
    <2>1. name \in Line /\ value \in Line /\ headers[k] = <<name, value>>
      BY <1>1 DEF HeaderSet, Names
    <2> HIDE DEF name, value
    <2>2. name \o ColonSpace \o value \o CRLF = HeaderLine(<<name, value>>) \o <<"\n">>
      BY <2>1, HeaderTextIs
    <2>3. EndLine[hl[k]] = HeaderLine(<<name, value>>) \o <<"\n">>
      BY <1>2, <1>3, <2>1 DEF EndLine
    <2>. QED
      BY <2>2, <2>3 DEF name, value
  <1>5. [k \in DOMAIN headers |-> headers[k][1] \o ColonSpace \o headers[k][2] \o CRLF]
          = Applied(hl, EndLine)
    <2>1. Applied(hl, EndLine) = [k \in 1 .. n |-> EndLine[hl[k]]]
      BY <1>3 DEF Applied
    <2>. QED
      BY <1>1, <1>4, <2>1, Zenon
  <1>6. HeaderText(headers) = Ended(hl)
    BY <1>5, Zenon DEF HeaderText, Ended
  <1>. QED
    BY <1>3, <1>6 DEF hl

LEMMA SentLinesType ==
  ASSUME NEW r, Sendable(r)
  PROVE  /\ FirstLine(r) \in Line /\ BodyLine(r) \in Line /\ HeaderLines(r.headers) \in Seq(Line)
         /\ r.method \in Symbols /\ r.uri \in Symbols /\ r.version \in Symbols /\ r.body \in Symbols
  <1> USE DEF Sendable
  <1>1. r.method \in Line /\ r.uri \in Line /\ r.version \in Line
    BY LineIs
  <1>2. FirstLine(r) \in Line
    BY <1>1, ConcatLine, SeparatorLines DEF FirstLine
  <1>3. BodyLine(r) \in Line
    BY ConcatLine, SeparatorLines DEF BodyLine
  <1>. QED
    BY <1>2, <1>3, LineIs, HeaderLinesIs

LEMMA RawIs ==
  ASSUME NEW r, Sendable(r)
  PROVE  SentLines(r) \in Seq(Line) /\ RawRequest(r) = Ended(SentLines(r))
  <1> DEFINE sp == <<" ">>
             cr == <<"\r">>
             nl == <<"\n">>
             f == FirstLine(r)
             b == BodyLine(r)
             hl == HeaderLines(r.headers)
             ht == HeaderText(r.headers)
  <1>0. r.headers \in Seq(HeaderSet)
    BY DEF Sendable
  <1>1. f \in Line /\ b \in Line /\ hl \in Seq(Line) /\ cr \in Line
    BY SentLinesType, SeparatorLines
  <1>2. ht = Ended(hl)
    BY <1>0, HeaderLinesIs
  <1>3. CRLF = cr \o nl
    BY Separators, TwoAre, Zenon DEF CRLF
  <1>4. /\ r.method \in Seq(Characters) /\ r.uri \in Seq(Characters) /\ r.version \in Seq(Characters)
        /\ r.body \in Seq(Characters)
    BY SentLinesType DEF Symbols
  <1>5. sp \in Seq(Characters) /\ cr \in Seq(Characters) /\ nl \in Seq(Characters)
    BY Separators, OneIs
  <1>6. ht \in Seq(Characters)
    BY <1>1, <1>2, EndLineMaps, FlattenAppliedType DEF Ended, Symbols
  <1>7. RawRequest(r) =
          ((((((((r.method \o sp) \o r.uri) \o sp) \o r.version) \o CRLF) \o ht) \o CRLF) \o r.body) \o CRLF
    BY Zenon DEF RawRequest
  <1>8. f = r.method \o (sp \o (r.uri \o (sp \o (r.version \o cr)))) /\ b = r.body \o cr
    BY DEF FirstLine, BodyLine
  <1> HIDE DEF sp, cr, nl, f, b, hl, ht
  <1>9. RawGroups(r.method, sp, r.uri, r.version, cr, nl, ht, r.body)
    BY <1>4, <1>5, <1>6, RawRegrouped
  <1>10. RawRequest(r) = (f \o nl) \o (ht \o ((cr \o nl) \o (b \o nl)))
    BY <1>3, <1>7, <1>8, <1>9, Zenon DEF RawGroups
  <1> DEFINE l4 == <<b>>
             l3 == <<cr>>
             l2 == l3 \o l4
             l1 == hl \o l2
             l0 == <<f>>
  <1>11. l4 \in Seq(Line) /\ Ended(l4) = b \o nl
    BY <1>1, EndedOne DEF nl
  <1>12. l3 \in Seq(Line) /\ Ended(l3) = cr \o nl
    BY <1>1, EndedOne DEF nl
  <1>13. l0 \in Seq(Line) /\ Ended(l0) = f \o nl
    BY <1>1, EndedOne DEF nl
  <1> HIDE DEF l4, l3, l0
  <1>14. l2 \in Seq(Line) /\ Ended(l2) = Ended(l3) \o Ended(l4)
    BY <1>11, <1>12, EndedConcat
  <1> HIDE DEF l2
  <1>15. l1 \in Seq(Line) /\ Ended(l1) = Ended(hl) \o Ended(l2)
    BY <1>1, <1>14, EndedConcat
  <1> HIDE DEF l1
  <1>16. l0 \o l1 \in Seq(Line) /\ Ended(l0 \o l1) = Ended(l0) \o Ended(l1)
    BY <1>13, <1>15, EndedConcat
  <1>17. SentLines(r) = l0 \o l1
    BY Zenon DEF SentLines, l0, l1, l2, l3, l4, f, b, hl, cr
  <1>. QED
    BY <1>2, <1>10, <1>11, <1>12, <1>13, <1>14, <1>15, <1>16, <1>17, Zenon

LEMMA RawText ==
  ASSUME NEW r, Sendable(r)
  PROVE  RawRequest(r) \in Symbols /\ Lines(RawRequest(r)) = SentLines(r)
  <1> DEFINE ls == SentLines(r)
             t == Ended(ls)
             e == <<>>
  <1>1. ls \in Seq(Line) /\ RawRequest(r) = t
    BY RawIs
  <1> HIDE DEF ls
  <1>2. e \in Symbols
    BY EmptySeq DEF Symbols
  <1>3. t \in Symbols /\ Lines(t \o e) = ls \o Lines(e)
    BY <1>1, <1>2, LinesEnded DEF Ended
  <1>4. t \o e = t /\ ls \o e = ls
    <2> HIDE DEF t
    <2>1. t \in Seq(Characters)
      BY <1>3 DEF Symbols
    <2>. QED
      BY <1>1, <2>1, ConcatEmptySeq
  <1>5. Lines(e) = e
    BY LinesEmpty
  <1>6. t \in Symbols /\ Lines(t) = ls
    BY <1>3, <1>4, <1>5
  <1> HIDE DEF t
  <1>. QED
    BY <1>1, <1>6 DEF ls

LEMMA SentLinesAre ==
  ASSUME NEW r, Sendable(r)
  PROVE  LET n == Len(r.headers)
             ls == SentLines(r)
         IN /\ n \in Nat /\ ls \in Seq(Line) /\ Len(ls) = n + 3 /\ ls[1] = FirstLine(r)
            /\ \A k \in 1 .. n : ls[k + 1] = HeaderLine(r.headers[k])
            /\ ls[n + 2] = <<"\r">> /\ ls[n + 3] = BodyLine(r)
  <1> DEFINE n == Len(r.headers)
             l4 == <<BodyLine(r)>>
             l3 == <<<<"\r">>>>
             l2 == l3 \o l4
             hl == HeaderLines(r.headers)
             l1 == hl \o l2
             l0 == <<FirstLine(r)>>
             ls == l0 \o l1
  <1>1. /\ n \in Nat /\ hl \in Seq(Line) /\ Len(hl) = n
        /\ \A k \in 1 .. n : hl[k] = HeaderLine(r.headers[k])
    BY HeaderLinesIs, LenProperties DEF Sendable
  <1>2. FirstLine(r) \in Line /\ BodyLine(r) \in Line /\ <<"\r">> \in Line
    BY SentLinesType, SeparatorLines
  <1>3. /\ l4 \in Seq(Line) /\ Len(l4) = 1 /\ l4[1] = BodyLine(r)
        /\ l3 \in Seq(Line) /\ Len(l3) = 1 /\ l3[1] = <<"\r">>
        /\ l0 \in Seq(Line) /\ Len(l0) = 1 /\ l0[1] = FirstLine(r)
    BY <1>2, OneIs
  <1> HIDE DEF l4, l3, hl, l0
  <1>4. l2 \in Seq(Line) /\ Len(l2) = 2 /\ l2[1] = <<"\r">> /\ l2[2] = BodyLine(r)
    <2>1. l2 \in Seq(Line) /\ Len(l2) = Len(l3) + Len(l4)
      BY <1>3, ConcatAt
    <2>0. l3 \in Seq(Line) /\ l4 \in Seq(Line)
      BY <1>3
    <2>2. \A j \in 1 .. Len(l3) : l2[j] = l3[j]
      BY <2>0, ConcatAt
    <2>3. \A j \in 1 .. Len(l4) : l2[Len(l3) + j] = l4[j]
      BY <2>0, ConcatAt
    <2> HIDE DEF l2
    <2>. QED
      BY <1>3, <2>1, <2>2, <2>3
  <1> HIDE DEF l2
  <1>5. /\ l1 \in Seq(Line) /\ Len(l1) = n + 2 /\ (\A j \in 1 .. n : l1[j] = hl[j])
        /\ \A j \in 1 .. 2 : l1[n + j] = l2[j]
    <2>0. hl \in Seq(Line) /\ l2 \in Seq(Line)
      BY <1>1, <1>4
    <2>1. l1 \in Seq(Line) /\ Len(l1) = Len(hl) + Len(l2)
      BY <2>0, ConcatAt
    <2>2. \A j \in 1 .. Len(hl) : l1[j] = hl[j]
      BY <2>0, ConcatAt
    <2>3. \A j \in 1 .. Len(l2) : l1[Len(hl) + j] = l2[j]
      BY <2>0, ConcatAt
    <2> HIDE DEF l1
    <2>. QED
      BY <1>1, <1>4, <2>1, <2>2, <2>3
  <1> HIDE DEF l1
  <1>6. /\ ls \in Seq(Line) /\ Len(ls) = 1 + Len(l1) /\ ls[1] = FirstLine(r)
        /\ \A j \in 1 .. Len(l1) : ls[1 + j] = l1[j]
    <2>1. ls \in Seq(Line) /\ Len(ls) = Len(l0) + Len(l1)
      BY <1>3, <1>5, ConcatAt
    <2>2. \A j \in 1 .. Len(l0) : ls[j] = l0[j]
      <3>1. l0 \in Seq(Line) /\ l1 \in Seq(Line)
        BY <1>3, <1>5
      <3>. QED
        BY <3>1, ConcatAt
    <2>3. \A j \in 1 .. Len(l1) : ls[Len(l0) + j] = l1[j]
      <3>1. l0 \in Seq(Line) /\ l1 \in Seq(Line)
        BY <1>3, <1>5
      <3>. QED
        BY <3>1, ConcatAt
    <2> HIDE DEF ls
    <2>. QED
      BY <1>3, <2>1, <2>2, <2>3
  <1>7. SentLines(r) = ls
    BY Zenon DEF SentLines, ls, l0, l1, l2, l3, l4, hl
  <1> HIDE DEF ls
  <1>8. Len(ls) = n + 3
    BY <1>1, <1>5, <1>6
  <1>9. ASSUME NEW k \in 1 .. n PROVE ls[k + 1] = HeaderLine(r.headers[k])
    <2>1. k \in 1 .. Len(l1) /\ 1 + k = k + 1
      BY <1>1, <1>5
    <2>. QED
      BY <1>1, <1>5, <1>6, <2>1
  <1>10. ls[n + 2] = <<"\r">>
    <2>1. n + 1 \in 1 .. Len(l1) /\ 1 + (n + 1) = n + 2 /\ 1 \in 1 .. 2
      BY <1>1, <1>5
    <2>2. ls[n + 2] = l1[n + 1] /\ l1[n + 1] = l2[1]
      BY <1>5, <1>6, <2>1
    <2>. QED
      BY <1>4, <2>2
  <1>11. ls[n + 3] = BodyLine(r)
    <2>1. n + 2 \in 1 .. Len(l1) /\ 1 + (n + 2) = n + 3 /\ 2 \in 1 .. 2
      BY <1>1, <1>5
    <2>2. ls[n + 3] = l1[n + 2] /\ l1[n + 2] = l2[2]
      BY <1>5, <1>6, <2>1
    <2>. QED
      BY <1>4, <2>2
  <1>. QED
    BY <1>1, <1>6, <1>7, <1>8, <1>9, <1>10, <1>11

LEMMA SentEnd ==
  ASSUME NEW r, Sendable(r)
  PROVE  EndOf(SentLines(r)) = Len(r.headers) + 2
  <1> DEFINE n == Len(r.headers)
             ls == SentLines(r)
             e == EndOf(ls)
  <1>1. /\ n \in Nat /\ ls \in Seq(Line) /\ Len(ls) = n + 3
        /\ \A k \in 1 .. n : ls[k + 1] = HeaderLine(r.headers[k])
        /\ ls[n + 2] = <<"\r">>
    BY SentLinesAre
  <1> HIDE DEF ls
  <1>3. Blank(ls[n + 2])
    BY <1>1 DEF Blank
  <1>4. ASSUME NEW k \in 2 .. n + 1 PROVE ~Blank(ls[k])
    <2>1. k - 1 \in 1 .. n /\ (k - 1) + 1 = k
      BY <1>1
    <2>2. ls[k] = HeaderLine(r.headers[k - 1])
      BY <1>1, <2>1
    <2>3. r.headers[k - 1] \in HeaderSet
      BY <2>1, ElementOfSeq DEF Sendable
    <2>. QED
      BY <2>2, <2>3, HeaderLineIs
  <1> DEFINE T == {k \in 2 .. Len(ls) : Blank(ls[k])} \cup {Len(ls) + 1}
  <1>5. T \in SUBSET Nat /\ n + 2 \in T /\ \A k \in T : k >= n + 2
    <2>1. T \in SUBSET Nat
      BY <1>1
    <2>2. n + 2 \in 2 .. Len(ls)
      BY <1>1
    <2>3. n + 2 \in T
      BY <1>3, <2>2
    <2>4. ASSUME NEW k \in T PROVE k >= n + 2
      <3>1. CASE k = Len(ls) + 1
        BY <1>1, <3>1
      <3>2. CASE k \in 2 .. Len(ls) /\ Blank(ls[k])
        <4>1. k \notin 2 .. n + 1
          BY <1>4, <3>2
        <4>. QED
          BY <1>1, <3>2, <4>1
      <3>. QED
        BY <3>1, <3>2
    <2>. QED
      BY <2>1, <2>3, <2>4
  <1>6. e = Min(T)
    BY Zenon DEF EndOf
  <1> HIDE DEF T, e
  <1>7. e \in T /\ \A k \in T : e <= k
    BY <1>5, <1>6, LeastIs
  <1>8. e = n + 2
    BY <1>1, <1>5, <1>7
  <1>. QED
    BY <1>8 DEF e, ls

LEMMA SentFields ==
  ASSUME NEW r, Sendable(r)
  PROVE  HeadersOf(FieldsOf(SentLines(r))) = r.headers /\ ~Throws(FieldsOf(SentLines(r)))
  <1> DEFINE n == Len(r.headers)
             ls == SentLines(r)
             f == FieldsOf(ls)
  <1>0. /\ r.headers \in Seq(HeaderSet) /\ DOMAIN r.headers = 1 .. n
        /\ \A k \in 1 .. n : r.headers[k] \in HeaderSet
    BY LenProperties, ElementOfSeq DEF Sendable
  <1>1. /\ n \in Nat /\ ls \in Seq(Line) /\ Len(ls) = n + 3
        /\ \A k \in 1 .. n : ls[k + 1] = HeaderLine(r.headers[k])
    BY SentLinesAre
  <1>2. f = SubSeq(ls, 2, n + 1)
    <2>1. EndOf(ls) - 1 = n + 1
      BY <1>1, SentEnd
    <2>. QED
      BY <2>1 DEF FieldsOf
  <1> HIDE DEF ls, f
  <1>3. f \in Seq(Line) /\ Len(f) = n /\ DOMAIN f = 1 .. n /\ \A k \in 1 .. n : f[k] = ls[k + 1]
    <2>1. f \in Seq(Line) /\ Len(f) = n /\ \A k \in 1 .. n : f[k] = ls[k + 1]
      BY <1>1, <1>2
    <2>. QED
      BY <2>1, LenProperties
  <1>4. \A k \in 1 .. n : f[k] = HeaderLine(r.headers[k])
    BY <1>1, <1>3
  <1>5. \A k \in 1 .. n : Header(f[k]) = r.headers[k] /\ ~HeaderThrows(f[k])
    BY <1>0, <1>4, HeaderLineIs
  <1>6. ~Throws(f)
    BY <1>3, <1>5 DEF Throws
  <1>7. HeadersOf(f) = [k \in 1 .. n |-> r.headers[k]]
    BY <1>3, <1>5 DEF HeadersOf
  <1>8. r.headers = [k \in 1 .. n |-> r.headers[k]]
    BY <1>0, LenProperties
  <1>. QED
    BY <1>6, <1>7, <1>8 DEF f, ls

LEMMA SentBody ==
  ASSUME NEW r, Sendable(r)
  PROVE  BodyOf(SentLines(r)) = Append(r.body, "\r")
  <1> DEFINE n == Len(r.headers)
             ls == SentLines(r)
             b == BodyLine(r)
             s == SubSeq(ls, n + 3, n + 3)
  <1>1. n \in Nat /\ ls \in Seq(Line) /\ Len(ls) = n + 3 /\ ls[n + 3] = b
    BY SentLinesAre
  <1>2. b \in Line
    BY SentLinesType
  <1>3. BodyOf(ls) = FlattenSeq(s)
    <2>1. EndOf(ls) + 1 = n + 3
      BY <1>1, SentEnd
    <2>. QED
      BY <1>1, <2>1 DEF BodyOf
  <1> HIDE DEF ls, b
  <1> DEFINE e == <<>>
  <1>4. s = Append(e, b)
    <2>1. s \in Seq(Line) /\ Len(s) = 1 /\ s[1] = b
      BY <1>1
    <2>2. Append(e, b) \in Seq(Line) /\ Len(Append(e, b)) = 1 /\ Append(e, b)[1] = b
      BY <1>2
    <2> HIDE DEF s, e
    <2>. QED
      BY <2>1, <2>2, SeqEqual
  <1>5. FlattenSeq(Append(e, b)) = FlattenSeq(e) \o b
    <2>1. e \in Seq(Seq(Characters)) /\ b \in Seq(Characters)
      <3>1. b \in Seq(Characters)
        BY <1>2, LineIs DEF Symbols
      <3>. QED
        BY <3>1, EmptySeq
    <2> HIDE DEF e
    <2>. QED
      BY <2>1, FlattenAppend
  <1>6. FlattenSeq(e) = <<>> /\ <<>> \o b = b
    BY <1>2, FlattenEmpty, ConcatEmptySeq DEF Line
  <1>7. b = Append(r.body, "\r")
    <2> DEFINE c == "\r"
    <2>1. r.body \in Seq(Characters \ {"\n"}) /\ c \in Characters \ {"\n"}
      BY Separators DEF Sendable, Line
    <2>2. b = r.body \o <<c>>
      BY DEF b, BodyLine
    <2> HIDE DEF c, b
    <2>3. Append(r.body, c) = r.body \o <<c>>
      BY <2>1, AppendIsConcat
    <2>. QED
      BY <2>2, <2>3 DEF c
  <1>. QED
    BY <1>3, <1>4, <1>5, <1>6, <1>7 DEF ls

LEMMA SentWords ==
  ASSUME NEW r, Sendable(r)
  PROVE  WordsOf(SentLines(r)) = <<r.method, r.uri, r.version \o <<"\r">>>>
  <1> DEFINE c == " "
             B == Characters \ {"\n"}
             v == r.version \o <<"\r">>
             t2 == r.uri \o (<<c>> \o v)
             f == FirstLine(r)
             ls == SentLines(r)
  <1>1. /\ c \in B /\ r.method \in Seq(B) /\ Lacks(r.method, c) /\ r.uri \in Seq(B) /\ Lacks(r.uri, c)
        /\ r.method \in Word /\ r.uri \in Word /\ r.version \in Word
    BY LineIs, Separators DEF Sendable, Line
  <1>2. v \in Word
    <2> DEFINE d == "\r"
    <2>1. d \in B \ {c} /\ r.version \in Seq(B \ {c})
      BY <1>1, Separators DEF Word
    <2> HIDE DEF d, B, c
    <2>2. r.version \o <<d>> \in Seq(B \ {c})
      BY <2>1, FrontAppended
    <2>. QED
      BY <2>2 DEF d, B, c, Word
  <1>3. v \in Seq(B) /\ Lacks(v, c)
    BY <1>2, LineIs DEF Line
  <1>4. f = r.method \o (<<c>> \o t2)
    BY DEF FirstLine
  <1>5. WordsOf(ls) = SplitAt(f, c)
    <2>1. ls # <<>> /\ ls[1] = f
      <3>1. Len(ls) = Len(r.headers) + 3 /\ Len(r.headers) \in Nat /\ ls[1] = f
        BY SentLinesAre
      <3>. QED
        BY <3>1, EmptySeq
    <2>. QED
      BY <2>1 DEF WordsOf
  <1> HIDE DEF c, B, v, f, ls
  <1>6. SplitAt(v, c) = <<v>>
    BY <1>1, <1>3, SplitOne
  <1>7. SplitAt(t2, c) = <<r.uri>> \o SplitAt(v, c)
    BY <1>1, <1>3, SplitCons
  <1>8. t2 \in Seq(B)
    <2> DEFINE d == <<c>>
    <2>1. d \in Seq(B)
      BY <1>1, OneIs
    <2> HIDE DEF d
    <2>2. d \o v \in Seq(B)
      BY <1>3, <2>1, Assoc
    <2>3. r.uri \o (d \o v) \in Seq(B)
      BY <1>1, <2>2, Assoc
    <2>. QED
      BY <2>3 DEF d
  <1> HIDE DEF t2
  <1>9. SplitAt(f, c) = <<r.method>> \o SplitAt(t2, c)
    BY <1>1, <1>4, <1>8, SplitCons
  <1>10. SplitAt(f, c) = <<r.method>> \o (<<r.uri>> \o <<v>>)
    BY <1>6, <1>7, <1>9
  <1>11. <<r.uri>> \o <<v>> = <<r.uri, v>>
    BY <1>1, <1>2, TwoAre
  <1>12. <<r.method>> \o <<r.uri, v>> = <<r.method, r.uri, v>>
    <2> DEFINE x == <<r.method>> \o <<r.uri, v>>
               y == <<r.method, r.uri, v>>
    <2>0. <<r.method>> \in Seq(Word) /\ <<r.uri, v>> \in Seq(Word)
      BY <1>1, <1>2
    <2>1. x \in Seq(Word) /\ Len(x) = 3 /\ x[1] = r.method /\ x[2] = r.uri /\ x[3] = v
      BY <2>0
    <2>2. y \in Seq(Word) /\ Len(y) = 3 /\ y[1] = r.method /\ y[2] = r.uri /\ y[3] = v
      BY <1>1, <1>2
    <2> HIDE DEF x, y
    <2>3. \A k \in 1 .. Len(x) : x[k] = y[k]
      BY <2>1, <2>2
    <2>4. x = y
      BY <2>1, <2>2, <2>3, SeqEqual
    <2>. QED
      BY <2>4 DEF x, y
  <1>. QED
    BY <1>5, <1>10, <1>11, <1>12 DEF v, ls

LEMMA SentBack ==
  ASSUME NEW r, Sendable(r)
  PROVE  RawRequest(r) \in Symbols /\ Reread(ParseRequest(RawRequest(r)), r)
  <1> DEFINE t == RawRequest(r)
             ls == SentLines(r)
             words == WordsOf(ls)
             v == r.version \o <<"\r">>
             s == ParseRequest(t)
  <1>1. t \in Symbols /\ Lines(t) = ls
    BY RawText
  <1>2. words = <<r.method, r.uri, v>>
    BY SentWords
  <1>3. Chop(v) = r.version
    <2> DEFINE c == "\r"
    <2>1. r.version \in Seq(Characters) /\ c \in Characters
      BY SentLinesType, Separators DEF Symbols
    <2> HIDE DEF c
    <2>2. r.version \o <<c>> # <<>> /\ Front(r.version \o <<c>>) = r.version
      BY <2>1, FrontAppended
    <2>. QED
      BY <2>2 DEF Chop, c
  <1>4. HeadersOf(FieldsOf(ls)) = r.headers /\ ~Throws(FieldsOf(ls)) /\ BodyOf(ls) = Append(r.body, "\r")
    BY SentFields, SentBody
  <1> HIDE DEF ls, t, words, v
  <1>5. Len(words) = 3 /\ words[1] = r.method /\ words[2] = r.uri /\ words[3] = v
    BY <1>2
  <1>6. s = RequestOf(words, r.headers, Append(r.body, "\r"), t)
    <2>1. s = IF Len(words) # 3 THEN [form |-> "nullptr"]
              ELSE IF Throws(FieldsOf(ls)) THEN [form |-> "throws"]
              ELSE RequestOf(words, HeadersOf(FieldsOf(ls)), BodyOf(ls), t)
      BY <1>1, ParseIs DEF words
    <2> HIDE DEF s
    <2>. QED
      BY <1>4, <1>5, <2>1, Zenon
  <1> HIDE DEF s
  <1>7. Reread(s, r)
    BY <1>3, <1>5, <1>6 DEF Reread, RequestOf
  <1>. QED
    BY <1>1, <1>7 DEF s, t

-----------------------------------------------------------------------------
(* The headers that are updated. *)

(***************************************************************************)
(* Where a header with a name stands first, and what an update changes.    *)
(***************************************************************************)
Places(headers, name) == {k \in 1 .. Len(headers) : headers[k][1] = name}
At(headers, name) == IF Places(headers, name) = {} THEN 0 ELSE Min(Places(headers, name))

LEMMA GetHeaderIs ==
  ASSUME NEW headers, NEW name
  PROVE  GetHeader(headers, name) = IF At(headers, name) = 0 THEN <<>> ELSE headers[At(headers, name)][2]
  <1>1. SelectInSeq(headers, LAMBDA h : h[1] = name) = At(headers, name)
    BY DEF SelectInSeq, At, Places
  <1>. QED
    BY <1>1, Zenon DEF GetHeader

LEMMA UpdatedIs ==
  ASSUME NEW headers, NEW name, NEW value
  PROVE  UpdatedHeaders(headers, name, value) =
           IF At(headers, name) = 0 THEN Append(headers, <<name, value>>)
           ELSE [headers EXCEPT ![At(headers, name)][2] = value]
  <1>1. SelectInSeq(headers, LAMBDA h : h[1] = name) = At(headers, name)
    BY DEF SelectInSeq, At, Places
  <1>. QED
    BY <1>1, Zenon DEF UpdatedHeaders

LEMMA PlacesAt ==
  ASSUME NEW S, NEW headers \in Seq(S), NEW name
  PROVE  /\ Places(headers, name) = {} => At(headers, name) = 0
         /\ Places(headers, name) # {} =>
              /\ At(headers, name) \in Places(headers, name)
              /\ At(headers, name) \in 1 .. Len(headers) /\ At(headers, name) # 0
              /\ \A k \in Places(headers, name) : At(headers, name) <= k
  <1>1. Places(headers, name) \in SUBSET Nat /\ 0 \notin Places(headers, name)
        /\ Places(headers, name) \subseteq 1 .. Len(headers)
    BY LenProperties DEF Places
  <1>. QED
    BY <1>1, LeastIs DEF At

LEMMA SamePlaces ==
  ASSUME NEW headers, NEW new, NEW name, NEW other, Places(headers, name) = Places(new, other)
  PROVE  At(headers, name) = At(new, other)
  BY DEF At

LEMMA PairUpdated ==
  ASSUME NEW S, NEW T, NEW p \in S \X T, NEW v \in T
  PROVE  [p EXCEPT ![2] = v] = <<p[1], v>>
  OBVIOUS

LEMMA UpdatedAt ==
  ASSUME NEW headers \in Seq(Symbols \X Symbols), NEW name \in Symbols, NEW value \in Symbols
  PROVE  LET new == UpdatedHeaders(headers, name, value)
             at == At(new, name)
         IN /\ new \in Seq(Symbols \X Symbols) /\ at \in 1 .. Len(new) /\ new[at] = <<name, value>>
            /\ \A k \in 1 .. Len(new) : k # at => k \in 1 .. Len(headers) /\ new[k] = headers[k]
            /\ \A k \in 1 .. Len(headers) : k \in 1 .. Len(new) /\ new[k][1] = headers[k][1]
            /\ \A k \in 1 .. Len(new) : k \in 1 .. Len(headers) \/ (k = at /\ at = Len(headers) + 1)
            /\ At(headers, name) # 0 => at = At(headers, name)
  <1> DEFINE S == Symbols \X Symbols
             n == Len(headers)
             new == UpdatedHeaders(headers, name, value)
             at == At(new, name)
             old == At(headers, name)
             h == <<name, value>>
  <1>0. n \in Nat /\ h \in S /\ (\A k \in 1 .. n : headers[k] \in S) /\ headers \in Seq(S)
    BY LenProperties, ElementOfSeq
  <1>1. ASSUME old = 0
        PROVE  /\ new \in Seq(S) /\ Len(new) = n + 1 /\ at = n + 1 /\ new[n + 1] = h
               /\ \A k \in 1 .. n : new[k] = headers[k]
    <2>1. new = Append(headers, h)
      BY <1>1, UpdatedIs
    <2> HIDE DEF new, S
    <2>2. new \in Seq(S) /\ Len(new) = n + 1 /\ new[n + 1] = h /\ \A k \in 1 .. n : new[k] = headers[k]
      BY <1>0, <2>1, AppendProperties
    <2>3. Places(headers, name) = {}
      BY <1>0, <1>1, PlacesAt
    <2>4. Places(new, name) = {n + 1}
      <3>1. ASSUME NEW k \in 1 .. n PROVE new[k][1] # name
        BY <2>2, <2>3 DEF Places
      <3>2. n + 1 \in 1 .. Len(new) /\ h[1] = name /\ \A k \in 1 .. Len(new) : k \in 1 .. n \/ k = n + 1
        BY <1>0, <2>2
      <3>. QED
        BY <2>2, <3>1, <3>2 DEF Places
    <2>5. at \in {n + 1}
      BY <2>2, <2>4, PlacesAt
    <2>. QED
      BY <2>2, <2>5
  <1>2. ASSUME old # 0
        PROVE  /\ new \in Seq(S) /\ Len(new) = n /\ at = old /\ old \in 1 .. n /\ new[old] = h
               /\ \A k \in 1 .. n : k # old => new[k] = headers[k]
    <2>1. new = [headers EXCEPT ![old][2] = value]
      BY <1>2, UpdatedIs
    <2>2. old \in Places(headers, name) /\ old \in 1 .. n
      BY <1>0, <1>2, PlacesAt
    <2>3. headers[old] \in S /\ headers[old][1] = name
      BY <1>0, <2>2 DEF Places
    <2>4. [headers[old] EXCEPT ![2] = value] = h
      <3>1. [headers[old] EXCEPT ![2] = value] = <<headers[old][1], value>>
        BY <2>3, PairUpdated
      <3>. QED
        BY <2>3, <3>1
    <2>5. new = [headers EXCEPT ![old] = h]
      BY <2>1, <2>4
    <2> HIDE DEF new, S, h, old
    <2>6. new \in Seq(S) /\ Len(new) = n /\ \A k \in 1 .. n : new[k] = IF k = old THEN h ELSE headers[k]
      BY <1>0, <2>2, <2>5, ExceptSeq
    <2>7. \A k \in 1 .. n : new[k][1] = headers[k][1]
      BY <2>3, <2>6 DEF h
    <2>8. Places(new, name) = Places(headers, name)
      BY <2>6, <2>7 DEF Places
    <2>9. at = old
      BY <2>8, SamePlaces DEF old
    <2>. QED
      BY <2>2, <2>6, <2>9
  <1> HIDE DEF new, at, old
  <1>3. new \in Seq(S) /\ at \in 1 .. Len(new) /\ new[at] = h
    BY <1>0, <1>1, <1>2
  <1>4. \A k \in 1 .. Len(new) : k # at => k \in 1 .. n /\ new[k] = headers[k]
    BY <1>0, <1>1, <1>2
  <1>5. \A k \in 1 .. n : k \in 1 .. Len(new) /\ new[k][1] = headers[k][1]
    <2>1. CASE old = 0
      BY <1>0, <1>1, <2>1
    <2>2. CASE old # 0
      <3>1. headers[old][1] = name
        BY <1>0, <2>2, PlacesAt DEF Places, old
      <3>2. h[1] = name
        OBVIOUS
      <3> HIDE DEF h
      <3>3. Len(new) = n /\ old \in 1 .. n /\ new[old] = h /\ \A k \in 1 .. n : k # old => new[k] = headers[k]
        BY <1>2, <2>2
      <3>4. new[old][1] = headers[old][1]
        BY <3>1, <3>2, <3>3
      <3>. QED
        BY <3>3, <3>4
    <2>. QED
      BY <2>1, <2>2
  <1>6. \A k \in 1 .. Len(new) : k \in 1 .. n \/ (k = at /\ at = n + 1)
    BY <1>0, <1>1, <1>2
  <1>7. old # 0 => at = old
    BY <1>2
  <1>. QED
    BY <1>3, <1>4, <1>5, <1>6, <1>7, Zenon DEF new, at, old

(***************************************************************************)
(* The other headers stay where they are, and so do those that the client  *)
(* has sent of itself.                                                     *)
(***************************************************************************)
Updated(new, headers, name, value) ==
  /\ new \in Seq(Symbols \X Symbols)
  /\ At(new, name) \in 1 .. Len(new) /\ new[At(new, name)] = <<name, value>>
  /\ GetHeader(new, name) = value
  /\ At(headers, name) # 0 => At(new, name) = At(headers, name)
  /\ \A other : other # name => /\ At(new, other) = At(headers, other)
                                /\ GetHeader(new, other) = GetHeader(headers, other)
  /\ \A k \in 1 .. Len(new) : k # At(new, name) => k \in 1 .. Len(headers) /\ new[k] = headers[k]

LEMMA UpdatedHeadersAre ==
  ASSUME NEW headers \in Seq(Symbols \X Symbols), NEW name \in Symbols, NEW value \in Symbols
  PROVE  Updated(UpdatedHeaders(headers, name, value), headers, name, value)
  <1> DEFINE new == UpdatedHeaders(headers, name, value)
             at == At(new, name)
             n == Len(headers)
  <1>1. /\ new \in Seq(Symbols \X Symbols) /\ at \in 1 .. Len(new) /\ new[at] = <<name, value>>
        /\ \A k \in 1 .. Len(new) : k # at => k \in 1 .. n /\ new[k] = headers[k]
    <2>1. new \in Seq(Symbols \X Symbols) /\ at \in 1 .. Len(new)
      BY UpdatedAt, Zenon
    <2>2. new[at] = <<name, value>>
      BY UpdatedAt, Zenon
    <2>3. \A k \in 1 .. Len(new) : k # at => k \in 1 .. n /\ new[k] = headers[k]
      BY UpdatedAt, Zenon
    <2>. QED
      BY <2>1, <2>2, <2>3, Zenon
  <1>2. \A k \in 1 .. n : k \in 1 .. Len(new) /\ new[k][1] = headers[k][1]
    BY UpdatedAt, Zenon
  <1>5. At(headers, name) # 0 => at = At(headers, name)
    BY UpdatedAt, Zenon
  <1> HIDE DEF new
  <1>0. n \in Nat /\ Len(new) \in Nat
    BY <1>1, LenProperties
  <1>3. GetHeader(new, name) = value
    <2>1. at # 0
      BY <1>0, <1>1
    <2>2. GetHeader(new, name) = new[at][2]
      BY <2>1, GetHeaderIs
    <2>. QED
      BY <1>1, <2>2
  <1>4. ASSUME NEW other, other # name
        PROVE  At(new, other) = At(headers, other) /\ GetHeader(new, other) = GetHeader(headers, other)
    <2>1. Places(new, other) = Places(headers, other)
      <3>1. ASSUME NEW k \in Places(new, other) PROVE k \in Places(headers, other)
        <4>1. k \in 1 .. Len(new) /\ new[k][1] = other
          BY <3>1 DEF Places
        <4>2. k # at
          BY <1>1, <1>4, <4>1
        <4>. QED
          BY <1>1, <4>1, <4>2 DEF Places
      <3>2. ASSUME NEW k \in Places(headers, other) PROVE k \in Places(new, other)
        BY <1>2 DEF Places
      <3>. QED
        BY <3>1, <3>2
    <2>2. At(new, other) = At(headers, other)
      BY <2>1, SamePlaces
    <2>3. At(new, other) # 0 => new[At(new, other)] = headers[At(new, other)]
      <3> SUFFICES ASSUME At(new, other) # 0 PROVE new[At(new, other)] = headers[At(new, other)]
        OBVIOUS
      <3>1. At(new, other) \in Places(new, other)
        BY <1>1, PlacesAt
      <3>2. At(new, other) \in 1 .. Len(new) /\ new[At(new, other)][1] = other
        BY <3>1 DEF Places
      <3>3. At(new, other) # at
        BY <1>1, <1>4, <3>2
      <3>. QED
        BY <1>1, <3>2, <3>3
    <2>4. GetHeader(new, other) = IF At(new, other) = 0 THEN <<>> ELSE new[At(new, other)][2]
      BY GetHeaderIs
    <2>5. GetHeader(headers, other) = IF At(headers, other) = 0 THEN <<>> ELSE headers[At(headers, other)][2]
      BY GetHeaderIs
    <2>. QED
      BY <2>2, <2>3, <2>4, <2>5
  <1>. QED
    BY <1>1, <1>3, <1>4, <1>5, Zenon DEF Updated, new

KeptOne(h) == IF h[1] \in {Host, Connection} THEN <<>> ELSE <<h>>

LEMMA KeptUpdated ==
  ASSUME NEW headers \in Seq(Symbols \X Symbols), NEW name \in {Host, Connection}, name \in Symbols,
         NEW value \in Symbols
  PROVE  Kept(UpdatedHeaders(headers, name, value)) = Kept(headers)
  <1> DEFINE S == Symbols \X Symbols
             new == UpdatedHeaders(headers, name, value)
             at == At(new, name)
             n == Len(headers)
             a == [k \in DOMAIN headers |-> KeptOne(headers[k])]
             b == [k \in DOMAIN new |-> KeptOne(new[k])]
  <1>0. n \in Nat /\ DOMAIN headers = 1 .. n /\ \A k \in 1 .. n : headers[k] \in S
    BY LenProperties, ElementOfSeq
  <1>n. name \in Symbols
    OBVIOUS
  <1>1. /\ new \in Seq(Symbols \X Symbols) /\ at \in 1 .. Len(new) /\ new[at] = <<name, value>>
        /\ \A k \in 1 .. Len(new) : k # at => k \in 1 .. n /\ new[k] = headers[k]
    <2>1. Updated(new, headers, name, value)
      BY <1>n, UpdatedHeadersAre, Zenon
    <2>. QED
      BY <2>1, Zenon DEF Updated
  <1>2. \A k \in 1 .. n : k \in 1 .. Len(new) /\ new[k][1] = headers[k][1]
    BY <1>n, UpdatedAt, Zenon
  <1>3. \A k \in 1 .. Len(new) : k \in 1 .. n \/ (k = at /\ at = n + 1)
    BY <1>n, UpdatedAt, Zenon
  <1>4. Kept(headers) = FlattenSeq(a) /\ Kept(new) = FlattenSeq(b)
    BY Zenon DEF Kept, KeptOne
  <1> HIDE DEF new, at
  <1>5. DOMAIN new = 1 .. Len(new) /\ Len(new) \in Nat /\ \A k \in 1 .. Len(new) : new[k] \in S
    BY <1>1, LenProperties, ElementOfSeq
  <1>6. \A h \in S : KeptOne(h) \in Seq(S)
    <2> HIDE DEF S
    <2>1. \A h \in S : <<h>> \in Seq(S) /\ <<>> \in Seq(S)
      BY OneIs, EmptySeq
    <2>. QED
      BY <2>1 DEF KeptOne
  <1>7. a \in Seq(Seq(S)) /\ Len(a) = n /\ \A k \in 1 .. n : a[k] = KeptOne(headers[k])
    <2> HIDE DEF S
    <2>. QED
      BY <1>0, <1>6
  <1>8. b \in Seq(Seq(S)) /\ Len(b) = Len(new) /\ \A k \in 1 .. Len(new) : b[k] = KeptOne(new[k])
    <2> HIDE DEF S
    <2>. QED
      BY <1>5, <1>6
  <1> HIDE DEF a, b, S
  <1>9. \A k \in 1 .. n : a[k] = b[k]
    <2> SUFFICES ASSUME NEW k \in 1 .. n PROVE a[k] = b[k]
      OBVIOUS
    <2>1. k \in 1 .. Len(new) /\ new[k][1] = headers[k][1]
      BY <1>2
    <2>2. CASE k # at
      <3>1. new[k] = headers[k]
        BY <1>1, <2>1, <2>2
      <3>. QED
        BY <1>7, <1>8, <2>1, <3>1
    <2>3. CASE k = at
      <3>1. new[k][1] \in {Host, Connection} /\ headers[k][1] \in {Host, Connection}
        BY <1>1, <2>1, <2>3
      <3>2. KeptOne(new[k]) = <<>> /\ KeptOne(headers[k]) = <<>>
        BY <3>1, Zenon DEF KeptOne
      <3>. QED
        BY <1>7, <1>8, <2>1, <3>2
    <2>. QED
      BY <2>2, <2>3
  <1>10. CASE Len(new) = n
    <2>1. a = b
      BY <1>7, <1>8, <1>9, <1>10, SeqEqual
    <2>. QED
      BY <1>4, <2>1 DEF new
  <1>11. CASE Len(new) # n
    <2> DEFINE e == <<>>
    <2>1. Len(new) = n + 1 /\ at = n + 1
      <3>1. n <= Len(new)
        BY <1>0, <1>2, <1>5
      <3>2. Len(new) \in 1 .. Len(new) /\ Len(new) \notin 1 .. n
        <4> DEFINE m == Len(new)
        <4>1. m \in Nat /\ n \in Nat /\ n <= m /\ m # n
          BY <1>0, <1>5, <1>11, <3>1
        <4> HIDE DEF m, n
        <4>2. m \in 1 .. m /\ m \notin 1 .. n
          BY <4>1
        <4>. QED
          BY <4>2, Zenon DEF m
      <3>. QED
        BY <1>3, <3>2
    <2>2. b[n + 1] = e
      <3>1. new[at][1] \in {Host, Connection}
        BY <1>1
      <3>2. KeptOne(new[at]) = <<>>
        BY <3>1, Zenon DEF KeptOne
      <3>. QED
        BY <1>0, <1>1, <1>8, <2>1, <3>2
    <2>3. e \in Seq(S)
      BY EmptySeq
    <2> HIDE DEF e
    <2>4. b = Append(a, e)
      <3> DEFINE d == Append(a, e)
      <3>1. d \in Seq(Seq(S)) /\ Len(d) = n + 1 /\ d[n + 1] = e /\ \A k \in 1 .. n : d[k] = a[k]
        BY <1>7, <2>3, AppendProperties
      <3> HIDE DEF d
      <3>2. \A k \in 1 .. n + 1 : k \in 1 .. n \/ k = n + 1
        BY <1>0
      <3>3. \A k \in 1 .. Len(b) : b[k] = d[k]
        BY <1>8, <1>9, <2>1, <2>2, <3>1, <3>2
      <3>4. b = d
        BY <1>8, <2>1, <3>1, <3>3, SeqEqual
      <3>. QED
        BY <3>4 DEF d
    <2>5. FlattenSeq(a) \in Seq(S) /\ FlattenSeq(Append(a, e)) = FlattenSeq(a) \o e
      BY <1>7, <2>3, FlattenAppend
    <2>6. FlattenSeq(a) \o e = FlattenSeq(a)
      BY <2>5, ConcatEmptySeq DEF e
    <2>. QED
      BY <1>4, <2>4, <2>5, <2>6 DEF new
  <1>. QED
    BY <1>10, <1>11

-----------------------------------------------------------------------------
(***************************************************************************)
(* What the code itself writes are texts.                                  *)
(***************************************************************************)
LEMMA Literals ==
  /\ Slash \in Characters /\ Slash \in (Characters \ {"\n"}) \ {" "}
  /\ Host \in Symbols /\ Host \in Names /\ Connection \in Symbols
  /\ <<"close">> \in Line /\ <<"close">> \in Symbols /\ Connection \in Names
  /\ Http10 \in Word /\ Http10 \in Symbols /\ Host # Connection
  <1>1. /\ Slash \in Characters /\ "H" \in Characters /\ "ost" \in Characters /\ "C" \in Characters
        /\ "onnection" \in Characters /\ "close" \in Characters /\ "T" \in Characters /\ "P/1.0" \in Characters
    BY TextAssumption, HandlerAssumption DEF Written
  <1>2. Slash # "\n" /\ Slash # " "
    BY TextAssumption
  <1> DEFINE L == Characters \ {"\n"}
             W == L \ {" "}
  <1>3. /\ Slash \in W /\ "H" \in W /\ "ost" \in W /\ "C" \in W /\ "onnection" \in W /\ "T" \in W
        /\ "P/1.0" \in W /\ "close" \in L
    BY <1>1, <1>2
  <1>4. \A a \in L, b \in L : <<a, b>> \in Seq(L) /\ <<a>> \in Seq(L)
    OBVIOUS
  <1>5. <<"H", "T", "T", "P/1.0">> \in Seq(W)
    <2>1. \A a \in W, b \in W, c \in W, d \in W : <<a, b, c, d>> \in Seq(W)
      <3> HIDE DEF W
      <3>. QED
        OBVIOUS
    <2>2. "H" \in W /\ "T" \in W /\ "P/1.0" \in W
      BY <1>3
    <2> HIDE DEF W
    <2>. QED
      BY <2>1, <2>2, Zenon
  <1>6. Host \in Line /\ Connection \in Line /\ <<"close">> \in Line
    <2>1. "H" \in L /\ "ost" \in L /\ "C" \in L /\ "onnection" \in L
      BY <1>3
    <2>. QED
      BY <1>3, <1>4, <2>1, Zenon DEF Host, Connection, Line
  <1>7. Http10 \in Word
    BY <1>5, Zenon DEF Http10, Word
  <1>8. Lacks(Host, ":") /\ Host[1] # "\r" /\ Lacks(Connection, ":") /\ Connection[1] # "\r"
    BY DEF Lacks, Host, Connection
  <1>9. Host \in Names /\ Connection \in Names
    BY <1>6, <1>8 DEF Names
  <1>10. Host # Connection
    BY DEF Host, Connection
  <1>. QED
    BY <1>1, <1>3, <1>6, <1>7, <1>9, <1>10, LineIs

LEMMA Letters ==
  ASSUME NEW A, NEW B, A \subseteq B, NEW s \in Seq(A)
  PROVE  s \in Seq(B)
  OBVIOUS

(***************************************************************************)
(* Whatever alphabet a location or a URI is written in, so are the host    *)
(* and the URI that are made of it.                                        *)
(***************************************************************************)
LEMMA LocationType ==
  ASSUME NEW A, Slash \in A, NEW location \in Seq(A)
  PROVE  ParseLocation(location).host \in Seq(A) /\ ParseLocation(location).uri \in Seq(A)
  <1> DEFINE http == Find(location, <<Slash, Slash>>, 0)
             host == Find(location, <<Slash>>, http + 2)
  <1>1. http \in Nat \cup {Npos}
    BY FindType
  <1>2. http + 2 \in Nat
    <2> HIDE DEF http
    <2>. QED
      BY <1>1 DEF Npos
  <1>3. host \in Nat \cup {Npos}
    BY <1>2, FindType
  <1>4. ParseLocation(location) =
          IF host = Npos THEN [host |-> Rest(location, http + 2), uri |-> <<Slash>>]
          ELSE [host |-> Substr(location, http + 2, host - http - 2), uri |-> Rest(location, host)]
    BY Zenon DEF ParseLocation
  <1> HIDE DEF host, http
  <1>5. http \in Int /\ (host # Npos => host \in Nat) /\ host - http - 2 \in Int
    BY <1>1, <1>3 DEF Npos
  <1>6. Rest(location, http + 2) \in Seq(A)
    BY <1>2, RestIs
  <1>7. Substr(location, http + 2, host - http - 2) \in Seq(A)
    BY <1>2, <1>5, SubstrIs
  <1>8. host # Npos => Rest(location, host) \in Seq(A)
    BY <1>5, RestIs
  <1>9. <<Slash>> \in Seq(A)
    BY OneIs
  <1>. QED
    BY <1>4, <1>6, <1>7, <1>8, <1>9

LEMMA JoinedType ==
  ASSUME NEW A, NEW uri \in Seq(A), site.urlpath \in Seq(A), Len(prefix_) \in Nat
  PROVE  Joined(uri) \in Seq(A)
  <1> DEFINE shortened == Rest(uri, Len(prefix_))
             path == site.urlpath
  <1>1. shortened \in Seq(A)
    BY RestIs
  <1>2. Joined(uri) = IF Len(uri) <= Len(prefix_) THEN path
                      ELSE IF shortened[1] # Slash THEN path \o shortened
                      ELSE path \o Tail(shortened)
    BY Zenon DEF Joined
  <1>3. Len(uri) <= Len(prefix_) \/ shortened # <<>>
    <2>1. shortened = SubSeq(uri, Len(prefix_) + 1, Len(uri))
      BY RestIs
    <2>2. Len(uri) \in Nat
      BY LenProperties
    <2>3. ASSUME Len(uri) > Len(prefix_) PROVE Len(shortened) = Len(uri) - Len(prefix_)
      <3> DEFINE n == Len(prefix_)
                 m == Len(uri)
      <3>1. n \in Nat /\ m \in Nat /\ m > n
        BY <2>2, <2>3
      <3> HIDE DEF n, m
      <3>2. n + 1 \in 1 .. m + 1 /\ m \in n .. m
        BY <3>1
      <3>3. Len(SubSeq(uri, n + 1, m)) = m - n
        BY <3>1, <3>2 DEF m
      <3>. QED
        BY <2>1, <3>3 DEF n, m
    <2>4. shortened = <<>> => Len(shortened) = 0
      OBVIOUS
    <2> HIDE DEF shortened
    <2>. QED
      BY <2>2, <2>3, <2>4
  <1> HIDE DEF shortened, path
  <1>4. path \in Seq(A)
    BY DEF path
  <1>5. shortened # <<>> => Tail(shortened) \in Seq(A)
    BY <1>1, HeadTailProperties
  <1>6. path \o shortened \in Seq(A)
    BY <1>1, <1>4, ConcatProperties
  <1>7. shortened # <<>> => path \o Tail(shortened) \in Seq(A)
    BY <1>4, <1>5, ConcatProperties
  <1>. QED
    BY <1>2, <1>3, <1>4, <1>6, <1>7

(***************************************************************************)
(* What Init makes of the configuration are texts.                         *)
(***************************************************************************)
LEMMA LastArgType ==
  ASSUME NEW block \in Seq(BlockStatements), NEW word, NEW otherwise \in Symbols
  PROVE  LastArg(block, word, otherwise) \in Symbols
  <1> DEFINE named == {k \in DOMAIN block : block[k].word = word /\ block[k].args # <<>>}
             n == Len(block)
  <1>1. n \in Nat /\ named \in SUBSET (1 .. n) /\ \A k \in named : block[k].args # <<>>
    BY LenProperties
  <1>2. LastArg(block, word, otherwise) = IF named = {} THEN otherwise ELSE block[Max(named)].args[1]
    BY Zenon DEF LastArg
  <1> HIDE DEF named, n
  <1>3. ASSUME named # {} PROVE block[Max(named)].args[1] \in Symbols
    <2> DEFINE s == block[Max(named)]
    <2>1. Max(named) \in named /\ Max(named) \in 1 .. n
      BY <1>1, <1>3, MaxOfPositions
    <2>2. s \in BlockStatements
      BY <2>1, ElementOfSeq DEF n
    <2>3. s.args \in Seq(Tokens)
      BY <2>2, Zenon DEF BlockStatements
    <2>4. s.args # <<>>
      BY <1>1, <2>1
    <2> DEFINE args == s.args
    <2> HIDE DEF args
    <2>5. 1 \in 1 .. Len(args)
      BY <2>3, <2>4 DEF args
    <2>6. args[1] \in Tokens
      BY <2>3, <2>5, ElementOfSeq DEF args
    <2>7. args[1] \in Seq(Chars \cup Digits) /\ Chars \cup Digits \subseteq Characters
      BY <2>6, TextAssumption DEF Tokens
    <2>8. args[1] \in Symbols
      BY <2>7, Letters DEF Symbols
    <2>. QED
      BY <2>8 DEF args
  <1>. QED
    BY <1>2, <1>3

SiteTypes(s) == s.host \in Symbols /\ s.urlpath \in Symbols /\ s.port \in Symbols

LEMMA SiteType ==
  ASSUME NEW block \in Seq(BlockStatements)
  PROVE  SiteTypes(InitProxy(block))
  <1> DEFINE fullHost == LastArg(block, "host", <<>>)
             slashes == {k \in DOMAIN fullHost : fullHost[k] = Slash}
             first == CHOOSE k \in slashes : \A j \in slashes : k <= j
             path == IF slashes = {} THEN <<Slash>> ELSE SubSeq(fullHost, first, Len(fullHost))
             port == LastArg(block, "port", <<"8", "0">>)
             n == Len(fullHost)
  <1>1. InitProxy(block) =
          [status |-> IF fullHost = <<>> THEN "INVALID_CONFIG" ELSE "OK",
           host |-> IF slashes = {} THEN fullHost ELSE SubSeq(fullHost, 1, first - 1),
           urlpath |-> IF Last(path) = Slash THEN path ELSE Append(path, Slash),
           port |-> port]
    BY Zenon DEF InitProxy
  <1>2. fullHost \in Symbols
    BY LastArgType, EmptySeq DEF Symbols
  <1>3. port \in Symbols
    <2> DEFINE d == <<"8", "0">>
    <2>1. "8" \in Digits /\ "0" \in Digits
      BY DEF Digits, Digit, Range
    <2>2. "8" \in Characters /\ "0" \in Characters
      BY <2>1, TextAssumption
    <2>3. d \in Symbols
      BY <2>2 DEF Symbols
    <2> HIDE DEF d
    <2>4. LastArg(block, "port", d) \in Symbols
      BY <2>3, LastArgType
    <2>. QED
      BY <2>4 DEF d
  <1> HIDE DEF fullHost, port
  <1>4. slashes \in SUBSET Nat /\ n \in Nat /\ slashes \subseteq 1 .. n
    BY <1>2, LenProperties DEF Symbols
  <1> HIDE DEF slashes
  <1>5. slashes # {} => first \in 1 .. n
    BY <1>4, LeastNumber
  <1> HIDE DEF first
  <1>6. slashes # {} => SubSeq(fullHost, 1, first - 1) \in Symbols /\ SubSeq(fullHost, first, n) \in Symbols
    BY <1>2, <1>4, <1>5 DEF Symbols
  <1>7. path \in Symbols
    <2>1. <<Slash>> \in Symbols
      BY Literals, OneIs DEF Symbols
    <2>. QED
      BY <1>6, <2>1
  <1> HIDE DEF path
  <1>8. Append(path, Slash) \in Symbols
    BY <1>7, Literals, AppendProperties DEF Symbols
  <1>9. (IF slashes = {} THEN fullHost ELSE SubSeq(fullHost, 1, first - 1)) \in Symbols
    BY <1>2, <1>6
  <1>10. (IF Last(path) = Slash THEN path ELSE Append(path, Slash)) \in Symbols
    BY <1>7, <1>8
  <1>. QED
    BY <1>1, <1>3, <1>9, <1>10 DEF SiteTypes

(***************************************************************************)
(* What is rewritten stays a request of texts, and its raw text is made of *)
(* its fields.                                                             *)
(***************************************************************************)
LEMMA ConcatTexts ==
  ASSUME NEW a \in Symbols, NEW b \in Symbols
  PROVE  a \o b \in Symbols
BY ConcatProperties DEF Symbols

LEMMA SeparatorTexts ==
  <<" ">> \in Symbols /\ CRLF \in Symbols /\ ColonSpace \in Symbols /\ <<>> \in Symbols
  <1>1. "\r" \in Characters /\ "\n" \in Characters /\ ":" \in Characters /\ " " \in Characters
    BY Separators
  <1>2. \A a \in Characters, b \in Characters : <<a, b>> \in Symbols /\ <<a>> \in Symbols
    BY DEF Symbols
  <1>3. <<>> \in Symbols
    BY EmptySeq DEF Symbols
  <1>. QED
    BY <1>1, <1>2, <1>3, Zenon DEF CRLF, ColonSpace

LEMMA HeaderTextType ==
  ASSUME NEW headers \in Seq(Symbols \X Symbols)
  PROVE  HeaderText(headers) \in Symbols
  <1> DEFINE lines == [k \in DOMAIN headers |-> headers[k][1] \o ColonSpace \o headers[k][2] \o CRLF]
  <1>1. ASSUME NEW k \in DOMAIN headers
        PROVE  headers[k][1] \o ColonSpace \o headers[k][2] \o CRLF \in Symbols
    <2> DEFINE name == headers[k][1]
               value == headers[k][2]
    <2>1. headers[k] \in Symbols \X Symbols
      BY <1>1, LenProperties, ElementOfSeq
    <2>2. name \in Symbols /\ value \in Symbols
      BY <2>1
    <2> HIDE DEF name, value
    <2>3. name \o ColonSpace \in Symbols
      BY <2>2, SeparatorTexts, ConcatTexts
    <2>4. (name \o ColonSpace) \o value \in Symbols
      BY <2>2, <2>3, ConcatTexts
    <2>5. ((name \o ColonSpace) \o value) \o CRLF \in Symbols
      BY <2>4, SeparatorTexts, ConcatTexts
    <2>. QED
      BY <2>5 DEF name, value
  <1>2. lines \in Seq(Symbols)
    <2> DEFINE F(k) == headers[k][1] \o ColonSpace \o headers[k][2] \o CRLF
    <2>1. \A k \in DOMAIN headers : F(k) \in Symbols
      BY <1>1
    <2>2. DOMAIN headers = 1 .. Len(headers) /\ Len(headers) \in Nat
      BY LenProperties
    <2>3. lines = [k \in 1 .. Len(headers) |-> F(k)]
      BY <2>2
    <2> HIDE DEF F
    <2>4. [k \in 1 .. Len(headers) |-> F(k)] \in Seq(Symbols)
      BY <2>1, <2>2
    <2>. QED
      BY <2>3, <2>4
  <1>3. HeaderText(headers) = FlattenSeq(lines)
    BY Zenon DEF HeaderText
  <1> HIDE DEF lines
  <1>4. FlattenSeq(lines) \in Symbols
    BY <1>2, EmptySeq, FlattenAppend DEF Symbols
  <1>. QED
    BY <1>3, <1>4

(***************************************************************************)
(* A request whose fields are texts; written, it is one too.               *)
(***************************************************************************)
Texted(r) ==
  /\ r.method \in Symbols /\ r.uri \in Symbols /\ r.version \in Symbols /\ r.body \in Symbols
  /\ r.headers \in Seq(Symbols \X Symbols)

LEMMA RawType ==
  ASSUME NEW r, Texted(r)
  PROVE  RawRequest(r) \in Symbols
  <1> DEFINE m == r.method
             u == r.uri
             v == r.version
             b == r.body
             h == HeaderText(r.headers)
             sp == <<" ">>
  <1>1. m \in Symbols /\ u \in Symbols /\ v \in Symbols /\ b \in Symbols /\ h \in Symbols
        /\ sp \in Symbols /\ CRLF \in Symbols
    BY HeaderTextType, SeparatorTexts DEF Texted
  <1>2. RawRequest(r) = m \o sp \o u \o sp \o v \o CRLF \o h \o CRLF \o b \o CRLF
    BY Zenon DEF RawRequest
  <1> HIDE DEF m, u, v, b, h, sp
  <1>3. m \o sp \o u \in Symbols
    BY <1>1, ConcatTexts
  <1>4. m \o sp \o u \o sp \o v \in Symbols
    BY <1>1, <1>3, ConcatTexts
  <1>5. m \o sp \o u \o sp \o v \o CRLF \o h \in Symbols
    BY <1>1, <1>4, ConcatTexts
  <1>6. m \o sp \o u \o sp \o v \o CRLF \o h \o CRLF \o b \in Symbols
    BY <1>1, <1>5, ConcatTexts
  <1>7. m \o sp \o u \o sp \o v \o CRLF \o h \o CRLF \o b \o CRLF \in Symbols
    BY <1>1, <1>6, ConcatTexts
  <1>. QED
    BY <1>2, <1>7

(***************************************************************************)
(* Each update changes one field, and the raw text with it.                *)
(***************************************************************************)
Rewritten(s, r) ==
  /\ s \in RequestType /\ s.raw = RawRequest(s) /\ s.method = r.method /\ s.body = r.body

LEMMA RawUpdated ==
  ASSUME NEW r \in RequestType
  PROVE  /\ UpdateRaw(r) \in RequestType /\ UpdateRaw(r).raw = RawRequest(UpdateRaw(r))
         /\ UpdateRaw(r).method = r.method /\ UpdateRaw(r).body = r.body /\ UpdateRaw(r).uri = r.uri
         /\ UpdateRaw(r).version = r.version /\ UpdateRaw(r).headers = r.headers
  <1> DEFINE s == UpdateRaw(r)
             raw == RawRequest(r)
  <1>1. raw \in Symbols
    BY RawType DEF Texted, RequestType
  <1>2. s = [r EXCEPT !.raw = raw]
    BY Zenon DEF UpdateRaw
  <1> HIDE DEF raw
  <1>3. s \in RequestType /\ s.raw = raw /\ s.method = r.method /\ s.body = r.body /\ s.uri = r.uri
        /\ s.version = r.version /\ s.headers = r.headers
    BY <1>1, <1>2 DEF RequestType
  <1> HIDE DEF s
  <1>4. RawRequest(s) = raw
    BY <1>3, Zenon DEF RawRequest, raw
  <1>. QED
    BY <1>3, <1>4 DEF s

LEMMA UriUpdated ==
  ASSUME NEW r \in RequestType, NEW uri \in Symbols
  PROVE  LET s == UpdateUri(r, uri)
         IN /\ Rewritten(s, r) /\ s.uri = uri /\ s.version = r.version /\ s.headers = r.headers
  <1> DEFINE t == [r EXCEPT !.uri = uri]
  <1>1. t \in RequestType /\ t.method = r.method /\ t.body = r.body /\ t.uri = uri
        /\ t.version = r.version /\ t.headers = r.headers
    BY DEF RequestType
  <1>2. UpdateUri(r, uri) = UpdateRaw(t)
    BY Zenon DEF UpdateUri
  <1> HIDE DEF t
  <1>. QED
    BY <1>1, <1>2, RawUpdated DEF Rewritten

LEMMA VersionSet ==
  ASSUME NEW r \in RequestType, NEW version \in Symbols
  PROVE  LET s == SetVersion(r, version)
         IN /\ Rewritten(s, r) /\ s.uri = r.uri /\ s.version = version /\ s.headers = r.headers
  <1> DEFINE t == [r EXCEPT !.version = version]
  <1>1. t \in RequestType /\ t.method = r.method /\ t.body = r.body /\ t.uri = r.uri
        /\ t.version = version /\ t.headers = r.headers
    BY DEF RequestType
  <1>2. SetVersion(r, version) = UpdateRaw(t)
    BY Zenon DEF SetVersion
  <1> HIDE DEF t
  <1>. QED
    BY <1>1, <1>2, RawUpdated DEF Rewritten

LEMMA HeaderUpdated ==
  ASSUME NEW r \in RequestType, NEW name \in Symbols, NEW value \in Symbols
  PROVE  LET s == UpdateHeader(r, name, value)
         IN /\ Rewritten(s, r) /\ s.uri = r.uri /\ s.version = r.version
            /\ s.headers = UpdatedHeaders(r.headers, name, value)
            /\ Updated(s.headers, r.headers, name, value)
  <1> DEFINE headers == UpdatedHeaders(r.headers, name, value)
             t == [r EXCEPT !.headers = headers]
  <1>1. r.headers \in Seq(Symbols \X Symbols)
    BY DEF RequestType
  <1>2. Updated(headers, r.headers, name, value)
    BY <1>1, UpdatedHeadersAre
  <1>3. headers \in Seq(Symbols \X Symbols)
    BY <1>2, Zenon DEF Updated
  <1>4. UpdateHeader(r, name, value) = UpdateRaw(t)
    BY Zenon DEF UpdateHeader
  <1> HIDE DEF headers
  <1>5. t \in RequestType /\ t.method = r.method /\ t.body = r.body /\ t.uri = r.uri
        /\ t.version = r.version /\ t.headers = headers
    BY <1>3 DEF RequestType
  <1> HIDE DEF t
  <1>6. LET s == UpdateRaw(t)
        IN /\ Rewritten(s, r) /\ s.uri = r.uri /\ s.version = r.version
           /\ s.headers = headers
    BY <1>5, RawUpdated DEF Rewritten
  <1>. QED
    BY <1>2, <1>4, <1>6 DEF headers

-----------------------------------------------------------------------------
(***************************************************************************)
(* The first request is one, though nothing was read.                      *)
(***************************************************************************)
LEMMA NothingParses == Proper(NoRequest, <<>>)
  <1> DEFINE none == <<>>
             lines == Lines(none)
             fields == FieldsOf(lines)
  <1>1. none \in Symbols /\ lines \in Seq(Line) /\ lines = none
    <2>1. lines = none
      BY LinesEmpty
    <2>2. none \in Symbols /\ none \in Seq(Line)
      BY EmptySeq DEF Symbols
    <2>. QED
      BY <2>1, <2>2
  <1>2. Len(WordsOf(lines)) = 3
    <2>1. lines = <<>>
      BY LinesEmpty
    <2> HIDE DEF lines
    <2>2. WordsOf(lines) = <<<<>>, <<>>, <<>>>>
      BY <2>1, Zenon DEF WordsOf
    <2>. QED
      BY <2>2
  <1>3. fields = <<>>
    <2>1. EndOf(lines) \in Nat /\ EndOf(lines) <= Len(lines) + 1
      <3> HIDE DEF lines
      <3>. QED
        BY <1>1, EndIs
    <2>2. Len(lines) = 0
      BY <1>1
    <2> DEFINE e == EndOf(lines)
    <2> HIDE DEF e, lines
    <2>3. e \in Nat /\ e <= 1
      BY <2>1, <2>2 DEF e
    <2>4. SubSeq(lines, 2, e - 1) = <<>>
      BY <2>3
    <2>. QED
      BY <2>4, Zenon DEF FieldsOf, e
  <1> HIDE DEF fields, lines
  <1>4. ~Throws(fields)
    <2>1. \A k \in DOMAIN fields : FALSE
      BY <1>3
    <2>. QED
      BY <2>1, Zenon DEF Throws
  <1>5. ParseRequest(none).form = "parsed"
    <2>1. ParseRequest(none) = RequestOf(WordsOf(lines), HeadersOf(fields), BodyOf(lines), none)
      BY <1>2, <1>4, ParseIs DEF fields, lines
    <2>. QED
      BY <2>1 DEF RequestOf
  <1>6. Proper(ParseRequest(none), none)
    <2> HIDE DEF none
    <2>. QED
      BY <1>1, <1>5, ParsedIs
  <1>. QED
    BY <1>6, Zenon DEF NoRequest, NoText

(***************************************************************************)
(* What the loop keeps of the client's request r in the one to be sent, s, *)
(* which names the host in its Host header.                                *)
(***************************************************************************)
Carries(s, r, host) ==
  /\ s \in RequestType /\ s.raw = RawRequest(s)
  /\ s.method = r.method /\ s.body = r.body /\ s.version = Http10
  /\ Kept(s.headers) = Kept(r.headers)
  /\ GetHeader(s.headers, Host) = host /\ GetHeader(s.headers, Connection) = <<"close">>
  /\ At(s.headers, Host) # 0 /\ At(s.headers, Host) \in 1 .. Len(s.headers)
  /\ s.headers[At(s.headers, Host)] = <<Host, host>>
  /\ \A k \in 1 .. Len(s.headers) : s.headers[k] \in HeaderSet \/ k = At(s.headers, Host)

(***************************************************************************)
(* So it can be sent when the host and the URI have no blank or line feed. *)
(***************************************************************************)
LEMMA CarriedIsSendable ==
  ASSUME NEW r, NEW text, Proper(r, text), NEW host \in Word, NEW s, Carries(s, r, host), s.uri \in Word
  PROVE  Sendable(s)
  <1> DEFINE headers == s.headers
             n == Len(headers)
             at == At(headers, Host)
  <1>1. headers \in Seq(Symbols \X Symbols) /\ n \in Nat
    BY LenProperties DEF Carries, RequestType
  <1>2. headers[at] = <<Host, host>> /\ at \in 1 .. n
    BY DEF Carries
  <1>3. \A k \in 1 .. n : headers[k] \in HeaderSet \/ k = at
    BY DEF Carries
  <1> HIDE DEF headers, n, at
  <1>4. <<Host, host>> \in HeaderSet
    BY Literals, LineIs DEF HeaderSet
  <1>5. \A k \in 1 .. n : headers[k] \in HeaderSet
    BY <1>2, <1>3, <1>4
  <1>6. headers \in Seq(HeaderSet)
    <2>1. headers = [k \in 1 .. n |-> headers[k]]
      BY <1>1 DEF n
    <2>2. [k \in 1 .. n |-> headers[k]] \in Seq(HeaderSet)
      BY <1>1, <1>5
    <2>. QED
      BY <2>1, <2>2
  <1>7. s.method \in Word /\ s.body \in Line
    BY DEF Carries, Proper
  <1>8. s.version \in Word
    BY Literals DEF Carries
  <1>. QED
    BY <1>6, <1>7, <1>8 DEF Sendable, headers

LEMMA HostNamed ==
  ASSUME NEW r, NEW host, NEW next \in Symbols, NEW s, Carries(s, r, host)
  PROVE  LET t == UpdateHeader(s, Host, next) IN t \in RequestType /\ Carries(t, r, next)
  <1> DEFINE t == UpdateHeader(s, Host, next)
             old == s.headers
             new == t.headers
             at == At(new, Host)
  <1>1. s \in RequestType /\ old \in Seq(Symbols \X Symbols)
    BY DEF Carries, RequestType
  <1>2. /\ Rewritten(t, s) /\ t.uri = s.uri /\ t.version = s.version
        /\ new = UpdatedHeaders(old, Host, next) /\ Updated(new, old, Host, next)
    BY <1>1, Literals, HeaderUpdated, Zenon
  <1>3. Kept(new) = Kept(old)
    <2>1. Host \in {Host, Connection} /\ Host \in Symbols
      BY Literals
    <2> HIDE DEF old
    <2>2. Kept(UpdatedHeaders(old, Host, next)) = Kept(old)
      BY <1>1, <2>1, KeptUpdated
    <2>. QED
      BY <1>2, <2>2
  <1> HIDE DEF t
  <1>4. t \in RequestType /\ t.raw = RawRequest(t) /\ t.method = r.method /\ t.body = r.body
        /\ t.version = Http10
    BY <1>2 DEF Rewritten, Carries
  <1>5. Kept(new) = Kept(r.headers)
    BY <1>3 DEF Carries
  <1>6. GetHeader(new, Host) = next /\ at \in 1 .. Len(new) /\ new[at] = <<Host, next>>
    BY <1>2 DEF Updated
  <1>7. GetHeader(new, Connection) = <<"close">>
    BY <1>2, Literals DEF Updated, Carries
  <1>8. at = At(old, Host)
    BY <1>2 DEF Updated, Carries
  <1>9. at # 0
    BY <1>8 DEF Carries
  <1>10. \A k \in 1 .. Len(new) : new[k] \in HeaderSet \/ k = at
    <2>1. \A k \in 1 .. Len(old) : old[k] \in HeaderSet \/ k = at
      BY <1>8 DEF Carries
    <2>2. \A k \in 1 .. Len(new) : k # at => k \in 1 .. Len(old) /\ new[k] = old[k]
      BY <1>2 DEF Updated
    <2>. QED
      BY <2>1, <2>2
  <1>11. Carries(t, r, next)
    BY <1>4, <1>5, <1>6, <1>7, <1>9, <1>10 DEF Carries
  <1>. QED
    BY <1>4, <1>11 DEF t

LEMMA UriNamed ==
  ASSUME NEW r, NEW host, NEW uri \in Symbols, NEW s, Carries(s, r, host)
  PROVE  Carries(UpdateUri(s, uri), r, host) /\ UpdateUri(s, uri).uri = uri
  <1> DEFINE t == UpdateUri(s, uri)
  <1>1. s \in RequestType
    BY DEF Carries
  <1>2. Rewritten(t, s) /\ t.uri = uri /\ t.version = s.version /\ t.headers = s.headers
    BY <1>1, UriUpdated, Zenon
  <1> HIDE DEF t
  <1>3. Carries(t, r, host)
    BY <1>2 DEF Rewritten, Carries
  <1>. QED
    BY <1>2, <1>3 DEF t

(***************************************************************************)
(* TransformRequest gives a request that names the configured host and has *)
(* what the client has sent.                                               *)
(***************************************************************************)
LEMMA Transformed ==
  ASSUME NEW text \in Symbols, NEW r, r = ParseRequest(text), r.form = "parsed",
         site.host \in Symbols, site.urlpath \in Symbols, Len(prefix_) \in Nat
  PROVE  Carries(TransformRequest(r), r, site.host) /\ TransformRequest(r).uri = Joined(r.uri)
  <1> DEFINE host == site.host
             close == <<"close">>
             hosted == UpdateHeader(r, Host, host)
             closing == UpdateHeader(hosted, Connection, close)
             versioned == SetVersion(closing, Http10)
             uri == Joined(r.uri)
             s == UpdateUri(versioned, uri)
  <1>0. close \in Symbols /\ close \in Line
    BY Literals
  <1>1. Proper(r, text)
    BY ParsedIs
  <1>2. TransformRequest(r) = s
    <2>1. r.raw = text
      BY <1>1 DEF Proper
    <2>2. ParseRequest(r.raw) = r
      BY <2>1
    <2>. QED
      BY <2>2, Zenon DEF TransformRequest
  <1>3. r \in RequestType /\ r.headers \in Seq(HeaderSet) /\ r.headers \in Seq(Symbols \X Symbols)
    BY <1>1 DEF Proper, RequestType
  <1>4. uri \in Symbols
    <2>1. r.uri \in Symbols
      BY <1>3 DEF RequestType
    <2>. QED
      BY <2>1, JoinedType DEF Symbols
  <1> HIDE DEF uri, close, host
  <1>h. host \in Symbols
    BY DEF host
  <1>5. /\ Rewritten(hosted, r) /\ hosted.uri = r.uri /\ hosted.version = r.version
        /\ hosted.headers = UpdatedHeaders(r.headers, Host, host)
        /\ Updated(hosted.headers, r.headers, Host, host)
    BY <1>3, <1>h, Literals, HeaderUpdated, Zenon
  <1>6. hosted \in RequestType
    BY <1>5 DEF Rewritten
  <1> HIDE DEF hosted
  <1>7. /\ Rewritten(closing, hosted)
        /\ closing.headers = UpdatedHeaders(hosted.headers, Connection, close)
        /\ Updated(closing.headers, hosted.headers, Connection, close)
    BY <1>6, <1>0, Literals, HeaderUpdated, Zenon
  <1>8. closing \in RequestType
    BY <1>7 DEF Rewritten
  <1> HIDE DEF closing
  <1>9. Rewritten(versioned, closing) /\ versioned.version = Http10 /\ versioned.headers = closing.headers
    BY <1>8, Literals, VersionSet, Zenon
  <1>10. versioned \in RequestType
    BY <1>9 DEF Rewritten
  <1> HIDE DEF versioned
  <1>11. /\ Rewritten(s, versioned) /\ s.uri = uri /\ s.version = versioned.version
         /\ s.headers = versioned.headers
    BY <1>4, <1>10, UriUpdated, Zenon
  <1> HIDE DEF s
  <1> DEFINE first == r.headers
             second == hosted.headers
             third == closing.headers
             n == Len(third)
             at == At(third, Host)
  <1>12. second \in Seq(Symbols \X Symbols)
    BY <1>6 DEF RequestType
  <1>13. s.headers = third /\ s.version = Http10 /\ s.method = r.method /\ s.body = r.body
         /\ s.raw = RawRequest(s) /\ s \in RequestType
    BY <1>5, <1>7, <1>9, <1>11 DEF Rewritten
  <1>14. /\ Updated(second, first, Host, host) /\ second = UpdatedHeaders(first, Host, host)
         /\ Updated(third, second, Connection, close) /\ third = UpdatedHeaders(second, Connection, close)
    BY <1>5, <1>7
  <1>15. first \in Seq(HeaderSet) /\ first \in Seq(Symbols \X Symbols)
    BY <1>3
  <1> HIDE DEF first, second, third
  <1>16. Kept(third) = Kept(first)
    <2>1. Host \in {Host, Connection} /\ Connection \in {Host, Connection} /\ Host \in Symbols /\ Connection \in Symbols
      BY Literals
    <2>2. Kept(second) = Kept(first)
      BY <1>h, <1>14, <1>15, <2>1, KeptUpdated
    <2>3. Kept(third) = Kept(second)
      BY <1>0, <1>12, <1>14, <2>1, KeptUpdated
    <2>. QED
      BY <2>2, <2>3
  <1>17. Host # Connection /\ Connection # Host
    BY Literals
  <1>18. GetHeader(third, Connection) = close /\ GetHeader(third, Host) = host
    BY <1>14, <1>17 DEF Updated
  <1>19. at = At(second, Host)
    BY <1>14, <1>17 DEF Updated
  <1>20. at \in 1 .. Len(second) /\ second[at] = <<Host, host>>
    BY <1>14, <1>19 DEF Updated
  <1>21. at # 0
    <2>1. Len(second) \in Nat
      BY <1>12, LenProperties
    <2>. QED
      BY <1>20, <2>1
  <1>22. \A k \in 1 .. Len(second) : second[k] \in HeaderSet \/ k = at
    <2>1. \A k \in 1 .. Len(second) : k # at => k \in 1 .. Len(first) /\ second[k] = first[k]
      BY <1>14, <1>19 DEF Updated
    <2>2. \A k \in 1 .. Len(first) : first[k] \in HeaderSet
      BY <1>15, ElementOfSeq
    <2>. QED
      BY <2>1, <2>2
  <1> DEFINE c == At(third, Connection)
  <1>23. /\ c \in 1 .. n /\ third[c] = <<Connection, close>>
         /\ \A k \in 1 .. n : k # c => k \in 1 .. Len(second) /\ third[k] = second[k]
    BY <1>14 DEF Updated
  <1>24. third[c] \in HeaderSet
    <2>1. <<Connection, close>> \in HeaderSet
      BY <1>0, Literals DEF HeaderSet
    <2>2. third[c] = <<Connection, close>>
      BY <1>23
    <2>. QED
      BY <2>1, <2>2
  <1>25. \A k \in 1 .. n : third[k] \in HeaderSet \/ k = at
    BY <1>22, <1>23, <1>24
  <1>26. at \in 1 .. n /\ third[at] = <<Host, host>>
    <2>1. third \in Seq(Symbols \X Symbols)
      BY <1>14 DEF Updated
    <2>2. Places(third, Host) # {}
      <3>1. Places(third, Host) = {} => At(third, Host) = 0
        BY <2>1, PlacesAt
      <3>. QED
        BY <1>21, <3>1
    <2>3. at \in 1 .. n /\ at \in Places(third, Host)
      BY <2>1, <2>2, PlacesAt
    <2>4. third[at][1] = Host
      BY <2>3 DEF Places
    <2>5. at # c
      BY <1>17, <1>23, <2>4
    <2>6. third[at] = second[at]
      BY <1>23, <2>3, <2>5
    <2>. QED
      BY <1>20, <2>3, <2>6
  <1>27. Carries(s, r, host)
    BY <1>13, <1>16, <1>18, <1>21, <1>25, <1>26 DEF Carries, first, close
  <1>. QED
    BY <1>2, <1>11, <1>27 DEF host, uri

-----------------------------------------------------------------------------
(***************************************************************************)
(* The loop over the headers of a response.                                *)
(***************************************************************************)
NameAt(all, k) == Find(all, ColonSpace, k)
ValueAt(all, k) == Find(all, CRLF, NameAt(all, k) + 1)
FieldAt(all, k) ==
  <<Substr(all, k, NameAt(all, k) - k), Substr(all, NameAt(all, k) + 2, ValueAt(all, k) - NameAt(all, k) - 2)>>

FieldsStep(f, all, k) ==
  IF NameAt(all, k) = Npos THEN <<>>
  ELSE <<FieldAt(all, k)>> \o (IF ValueAt(all, k) + 2 > k THEN f[ValueAt(all, k) + 2] ELSE <<>>)

AreFields(f, all) == \A k \in 0 .. Len(all) : f[k] = FieldsStep(f, all, k)

LEMMA FieldAtType ==
  ASSUME NEW all \in Symbols, NEW k \in 0 .. Len(all), NameAt(all, k) # Npos
  PROVE  /\ FieldAt(all, k) \in Symbols \X Symbols
         /\ NameAt(all, k) \in Nat /\ NameAt(all, k) >= k /\ NameAt(all, k) + 2 <= Len(all)
         /\ ValueAt(all, k) + 2 \in 0 .. Len(all)
         /\ ValueAt(all, k) \in Nat \cup {Npos}
  <1> DEFINE n == Len(all)
             name == NameAt(all, k)
             value == ValueAt(all, k)
  <1>0. n \in Nat /\ k \in Nat /\ ColonSpace \in Symbols /\ CRLF \in Symbols /\ Len(ColonSpace) = 2 /\ Len(CRLF) = 2
    <2>1. ColonSpace \in Symbols /\ CRLF \in Symbols
      BY SeparatorTexts
    <2>2. Len(ColonSpace) = 2 /\ Len(CRLF) = 2
      BY DEF ColonSpace, CRLF
    <2>3. n \in Nat
      BY LenProperties DEF Symbols
    <2>. QED
      BY <2>1, <2>2, <2>3
  <1>1. InText(name, k, ColonSpace, all)
    BY <1>0, FindRange DEF Symbols, NameAt
  <1> HIDE DEF name, n
  <1>2. name \in Nat /\ name >= k /\ name + 2 <= Len(all)
    BY <1>0, <1>1 DEF InText, name
  <1>3. InText(value, name + 1, CRLF, all)
    <2>1. name + 1 \in Nat
      BY <1>2
    <2> DEFINE from == name + 1
    <2> HIDE DEF from
    <2>2. InText(Find(all, CRLF, from), from, CRLF, all)
      BY <1>0, <2>1, FindRange DEF Symbols, from
    <2>3. value = Find(all, CRLF, from)
      BY Zenon DEF ValueAt, from, name
    <2>. QED
      BY <2>2, <2>3 DEF from
  <1> HIDE DEF value
  <1>4. value = Npos \/ (value \in Nat /\ value >= name + 1 /\ value + 2 <= Len(all))
    BY <1>0, <1>3 DEF InText
  <1>5. value + 2 \in 0 .. n /\ value \in Nat \cup {Npos} /\ value \in Int
    BY <1>0, <1>2, <1>4 DEF Npos, n
  <1>6. Substr(all, k, name - k) \in Symbols
    BY <1>0, <1>2, SubstrIs DEF Symbols
  <1>7. Substr(all, name + 2, value - name - 2) \in Symbols
    <2>1. name + 2 \in Nat /\ value - name - 2 \in Int
      BY <1>2, <1>5
    <2>. QED
      BY <2>1, SubstrIs DEF Symbols
  <1>8. FieldAt(all, k) \in Symbols \X Symbols
    <2>1. FieldAt(all, k) = <<Substr(all, k, name - k), Substr(all, name + 2, value - name - 2)>>
      BY Zenon DEF FieldAt, name, value
    <2>. QED
      BY <1>6, <1>7, <2>1
  <1>. QED
    BY <1>2, <1>5, <1>8 DEF name, value, n

LEMMA FieldsExist ==
  ASSUME NEW all \in Symbols
  PROVE  \E f \in [0 .. Len(all) -> Seq(Symbols \X Symbols)] : AreFields(f, all)
  <1> DEFINE n == Len(all)
             S == 0 .. n
             P == Symbols \X Symbols
             V == Seq(P)
             next == [k \in S |-> IF NameAt(all, k) = Npos THEN 0 ELSE ValueAt(all, k) + 2]
             base == [k \in S |-> IF NameAt(all, k) = Npos THEN <<>> ELSE <<FieldAt(all, k)>>]
             G == [k \in S |-> [v \in V |-> IF NameAt(all, k) = Npos THEN v ELSE <<FieldAt(all, k)>> \o v]]
  <1>0. n \in Nat
    BY LenProperties DEF Symbols
  <1>1. \A k \in S : NameAt(all, k) # Npos => FieldAt(all, k) \in P /\ ValueAt(all, k) + 2 \in S
    BY FieldAtType
  <1> HIDE DEF P
  <1>2. V # {} /\ <<>> \in V
    BY EmptySeq
  <1>3. \A k \in S : NameAt(all, k) # Npos => <<FieldAt(all, k)>> \in V
    BY <1>1, OneIs
  <1>4. \A k \in S, v \in V : NameAt(all, k) # Npos => <<FieldAt(all, k)>> \o v \in V
    <2> SUFFICES ASSUME NEW k \in S, NEW v \in V, NameAt(all, k) # Npos
                 PROVE  <<FieldAt(all, k)>> \o v \in V
      OBVIOUS
    <2> DEFINE w == <<FieldAt(all, k)>>
    <2>1. w \in Seq(P)
      BY <1>3
    <2> HIDE DEF w
    <2>2. w \o v \in Seq(P)
      BY <2>1, ConcatProperties
    <2>. QED
      BY <2>2 DEF w
  <1>5. Stepping(n, V, next, base, G)
    <2>1. next \in [S -> S]
      <3>1. 0 \in S
        BY <1>0
      <3>. QED
        BY <1>1, <3>1
    <2>2. base \in [S -> V]
      <3> HIDE DEF V, S
      <3>. QED
        BY <1>2, <1>3
    <2>3. G \in [S -> [V -> V]]
      <3> HIDE DEF V, S
      <3>. QED
        BY <1>4
    <2> HIDE DEF V, next, base, G, n
    <2>. QED
      BY <1>0, <1>2, <2>1, <2>2, <2>3 DEF Stepping
  <1>6. PICK f \in [S -> V] : IsStepped(f, n, next, base, G)
    <2> HIDE DEF V, next, base, G, n
    <2>. QED
      BY <1>5, SteppedExists
  <1>7. ASSUME NEW k \in S PROVE f[k] = FieldsStep(f, all, k)
    <2> DEFINE name == NameAt(all, k)
               value == ValueAt(all, k)
               w == <<FieldAt(all, k)>>
    <2>1. f[k] = IF next[k] > k THEN G[k][f[next[k]]] ELSE base[k]
      BY <1>6 DEF IsStepped
    <2>2. FieldsStep(f, all, k) =
            IF name = Npos THEN <<>> ELSE w \o (IF value + 2 > k THEN f[value + 2] ELSE <<>>)
      BY Zenon DEF FieldsStep
    <2>3. next[k] = (IF name = Npos THEN 0 ELSE value + 2) /\ base[k] = (IF name = Npos THEN <<>> ELSE w)
      OBVIOUS
    <2>4. name # Npos => w \in V /\ value + 2 \in S
      BY <1>1, <1>3
    <2>5. \A v \in V : name # Npos => G[k][v] = w \o v
      OBVIOUS
    <2>6. \A j \in S : f[j] \in V
      OBVIOUS
    <2>7. k \in Nat
      BY <1>0
    <2> HIDE DEF next, base, G, name, value, w
    <2>8. CASE name = Npos
      <3>1. ~(next[k] > k)
        BY <2>3, <2>7, <2>8
      <3>2. f[k] = base[k] /\ base[k] = <<>>
        BY <2>1, <2>3, <2>8, <3>1
      <3>3. FieldsStep(f, all, k) = <<>>
        BY <2>2, <2>8
      <3>. QED
        BY <3>2, <3>3
    <2>9. CASE name # Npos /\ value + 2 > k
      <3>1. next[k] = value + 2 /\ next[k] > k
        BY <2>3, <2>9
      <3>2. f[value + 2] \in V
        BY <2>4, <2>6, <2>9
      <3>3. f[k] = G[k][f[value + 2]]
        BY <2>1, <3>1
      <3>4. f[k] = w \o f[value + 2]
        BY <2>5, <2>9, <3>2, <3>3
      <3>. QED
        BY <2>2, <2>9, <3>4
    <2>10. CASE name # Npos /\ ~(value + 2 > k)
      <3>1. ~(next[k] > k) /\ base[k] = w
        BY <2>3, <2>10
      <3>2. f[k] = w
        BY <2>1, <3>1
      <3>3. FieldsStep(f, all, k) = w \o <<>>
        BY <2>2, <2>10
      <3>4. w \o <<>> = w
        BY <2>4, <2>10, ConcatEmptySeq
      <3>. QED
        BY <3>2, <3>3, <3>4
    <2>. QED
      BY <2>8, <2>9, <2>10
  <1>8. AreFields(f, all)
    BY <1>7 DEF AreFields
  <1>9. f \in [0 .. Len(all) -> Seq(Symbols \X Symbols)]
    BY DEF P
  <1>. QED
    BY <1>8, <1>9

LEMMA FieldsUnique ==
  ASSUME NEW all \in Symbols, NEW f, NEW g, AreFields(f, all), AreFields(g, all)
  PROVE  \A k \in 0 .. Len(all) : f[k] = g[k]
  <1> DEFINE n == Len(all)
             S == 0 .. n
             rank == [k \in S |-> n - k]
             P == {k \in S : f[k] = g[k]}
  <1>0. n \in Nat
    BY LenProperties DEF Symbols
  <1>1. rank \in [S -> Nat]
    BY <1>0
  <1>2. ASSUME NEW s \in S, \A t \in S : rank[t] < rank[s] => t \in P
        PROVE  s \in P
    <2> DEFINE next == ValueAt(all, s) + 2
    <2>1. f[s] = FieldsStep(f, all, s) /\ g[s] = FieldsStep(g, all, s)
      BY DEF AreFields
    <2>2. NameAt(all, s) # Npos => next \in S
      BY FieldAtType
    <2>3. NameAt(all, s) # Npos /\ next > s => f[next] = g[next]
      <3> SUFFICES ASSUME NameAt(all, s) # Npos, next > s PROVE f[next] = g[next]
        OBVIOUS
      <3> HIDE DEF next, n
      <3>1. rank[next] < rank[s]
        BY <1>0, <2>2
      <3>. QED
        BY <1>2, <2>2, <3>1
    <2>4. FieldsStep(f, all, s) = FieldsStep(g, all, s)
      BY <2>3, Zenon DEF FieldsStep, next
    <2>. QED
      BY <2>1, <2>4
  <1>3. S \subseteq P
    <2> HIDE DEF S, rank, P
    <2>. QED
      BY <1>1, <1>2, RankInduction
  <1>. QED
    BY <1>3

LEMMA FieldsAre ==
  ASSUME NEW all \in Symbols
  PROVE  /\ \E f : AreFields(f, all) /\ Fields(all) = f[0]
         /\ Fields(all) \in Seq(Symbols \X Symbols)
  <1> DEFINE Is(f) == f = [k \in 0 .. Len(all) |-> FieldsStep(f, all, k)]
             f == CHOOSE f : Is(f)
             V == Seq(Symbols \X Symbols)
  <1>1. PICK g \in [0 .. Len(all) -> V] : AreFields(g, all)
    BY FieldsExist
  <1>2. g = [k \in 0 .. Len(all) |-> FieldsStep(g, all, k)]
    BY <1>1 DEF AreFields
  <1>3. Is(f)
    BY <1>2, Zenon
  <1>4. Fields(all) = f[0]
    BY Zenon DEF Fields, FieldsBy, FieldsStep, NameAt, ValueAt, FieldAt
  <1> HIDE DEF f
  <1>5. AreFields(f, all)
    BY <1>3, Zenon DEF AreFields
  <1>6. f[0] \in V
    <2>1. 0 \in 0 .. Len(all)
      BY LenProperties DEF Symbols
    <2>2. f[0] = g[0]
      BY <1>1, <1>5, <2>1, FieldsUnique
    <2> HIDE DEF V
    <2>3. g[0] \in V
      BY <1>1, <2>1
    <2>. QED
      BY <2>2, <2>3
  <1>. QED
    BY <1>4, <1>5, <1>6

(***************************************************************************)
(* What an answer is read as.                                              *)
(***************************************************************************)
NonEmpty == Symbols \ {<<>>}
ResponseType == [code : Codes \cup {0}, body : Symbols, headers : Seq(NonEmpty \X NonEmpty)]

LEMMA AddedType ==
  ASSUME NEW fields \in Seq(Symbols \X Symbols)
  PROVE  Added(fields) \in Seq(NonEmpty \X NonEmpty)
  <1> DEFINE P == NonEmpty \X NonEmpty
             n == Len(fields)
             good == {k \in DOMAIN fields : fields[k][1] # <<>> /\ fields[k][2] # <<>>}
             parts == [k \in DOMAIN fields |-> IF k \in good THEN <<fields[k]>> ELSE <<>>]
  <1>1. n \in Nat /\ DOMAIN fields = 1 .. n /\ \A k \in 1 .. n : fields[k] \in Symbols \X Symbols
    BY LenProperties, ElementOfSeq
  <1>2. \A k \in good : fields[k] \in P
    BY <1>1 DEF NonEmpty
  <1>3. \A k \in good : <<fields[k]>> \in Seq(P)
    <2> HIDE DEF P, good
    <2>. QED
      BY <1>2, OneIs
  <1>4. <<>> \in Seq(P)
    BY EmptySeq
  <1>5. Added(fields) = FlattenSeq(parts)
    BY Zenon DEF Added, AddedIf
  <1>6. parts \in Seq(Seq(P))
    <2> HIDE DEF P, good, n
    <2>. QED
      BY <1>1, <1>3, <1>4
  <1> HIDE DEF P, parts
  <1>7. FlattenSeq(parts) \in Seq(P)
    BY <1>6, FlattenPlaces
  <1>. QED
    BY <1>5, <1>7 DEF P

LEMMA AllHeadersType ==
  ASSUME NEW text \in Symbols
  PROVE  AllHeaders(text) \in Symbols /\ Body(text) \in Symbols
  <1> DEFINE line == Find(text, CRLF, 0)
             end == Find(text, CRLF \o CRLF, 0)
  <1>1. line \in Nat \cup {Npos} /\ end \in Nat \cup {Npos}
    BY FindType
  <1> HIDE DEF line, end
  <1>2. line + 2 \in Nat /\ end - line - 1 \in Int /\ end + 4 \in Nat
    BY <1>1 DEF Npos
  <1>3. AllHeaders(text) = Substr(text, line + 2, end - line - 1) /\ Body(text) = Rest(text, end + 4)
    BY Zenon DEF AllHeaders, Body, line, end
  <1>. QED
    BY <1>2, <1>3, SubstrIs, RestIs DEF Symbols

LEMMA ResponseRead ==
  ASSUME NEW text \in Symbols, ParseResponse(text).form = "parsed"
  PROVE  LET r == ParseResponse(text).response
         IN /\ r \in ResponseType /\ r.code \in Codes
            /\ r = [code |-> CodeNumber(CodeText(text)), headers |-> Added(Fields(AllHeaders(text))),
                    body |-> Body(text)]
  <1> DEFINE headers == Added(Fields(AllHeaders(text)))
             code == CodeNumber(CodeText(text))
             r == [code |-> code, headers |-> headers, body |-> Body(text)]
  <1>1. headers \in Seq(NonEmpty \X NonEmpty) /\ Body(text) \in Symbols
    BY AllHeadersType, FieldsAre, AddedType
  <1>2. ParseResponse(text) =
          IF CodeThrows(CodeText(text)) THEN [form |-> "throws"]
          ELSE IF code \notin Codes THEN [form |-> "nullptr"]
          ELSE [form |-> "parsed", response |-> r]
    BY Zenon DEF ParseResponse
  <1> HIDE DEF headers, code
  <1>3. code \in Codes /\ ParseResponse(text).response = r
    BY <1>2
  <1>4. r \in ResponseType /\ r.code \in Codes
    BY <1>1, <1>3 DEF ResponseType
  <1>. QED
    BY <1>3, <1>4 DEF headers, code

(***************************************************************************)
(* The value of a header is a text, and empty when there is none.          *)
(***************************************************************************)
LEMMA HeaderValue ==
  ASSUME NEW S, NEW headers \in Seq(S \X Symbols), NEW name
  PROVE  GetHeader(headers, name) \in Symbols
  <1>1. CASE At(headers, name) = 0
    BY <1>1, GetHeaderIs, SeparatorTexts
  <1>2. CASE At(headers, name) # 0
    <2>1. At(headers, name) \in 1 .. Len(headers)
      BY <1>2, PlacesAt
    <2>2. headers[At(headers, name)] \in S \X Symbols
      BY <2>1, ElementOfSeq
    <2>3. GetHeader(headers, name) = headers[At(headers, name)][2]
      BY <1>2, GetHeaderIs
    <2>. QED
      BY <2>2, <2>3
  <1>. QED
    BY <1>1, <1>2

-----------------------------------------------------------------------------
(***************************************************************************)
(* The call. A request that has been rewritten is written from its fields, *)
(* is the client's but for the host and the connection, and names the host *)
(* it goes to: the configured one, or the one of the Location in the last  *)
(* response. The request that a peer has received is this one, and is not  *)
(* rewritten before it has answered.                                       *)
(***************************************************************************)
Calling == pc \in {"forward", "write", "read", "parse"}

Destined ==
  LET next == ParseLocation(GetHeader(response.headers, Location))
  IN IF i = 0 THEN nextHost = site.host /\ transformedRequest.uri = Joined(request.uri)
     ELSE nextHost = next.host /\ transformedRequest.uri = next.uri

CallInv ==
  /\ pc \in {"idle", "forward", "write", "read", "parse", "done", "thrown"}
  /\ SiteTypes(site) /\ prefix_ \in Symbols
  /\ Proper(request, request.raw) /\ transformedRequest \in RequestType
  /\ nextHost \in Symbols /\ raw_response \in Symbols /\ response \in ResponseType
  /\ status \in {"OK", "PROXY_ERROR"}
  /\ asked \in [host : Symbols, port : Symbols, text : Symbols]
  /\ pc = "idle" => i = 0
  /\ Calling => Carries(transformedRequest, request, nextHost) /\ Destined
  /\ pc \in {"read", "parse"} => asked.text = transformedRequest.raw /\ asked.host = nextHost

LEMMA CallInit == Init => CallInv
  <1> SUFFICES ASSUME Init PROVE CallInv
    OBVIOUS
  <1>1. PICK h \in Handlers : prefix_ = h.prefix /\ site = InitProxy(h.block)
    BY DEF Init
  <1>2. SiteTypes(site) /\ prefix_ \in Symbols
    BY <1>1, TextAssumption, SiteType
  <1>3. Proper(request, request.raw) /\ transformedRequest \in RequestType
    BY NothingParses DEF Init, Proper
  <1>4. response \in ResponseType
    BY SeparatorTexts, EmptySeq DEF Init, NoResponse, ResponseType
  <1>5. nextHost \in Symbols /\ raw_response \in Symbols /\ asked \in [host : Symbols, port : Symbols, text : Symbols]
    BY SeparatorTexts DEF Init, NoText, NotAsked
  <1>. QED
    BY <1>2, <1>3, <1>4, <1>5 DEF Init, CallInv, Calling

LEMMA ProxyLength ==
  ASSUME prefix_ \in Symbols
  PROVE  Len(prefix_) \in Nat
BY LenProperties DEF Symbols

(***************************************************************************)
(* What a step leaves alone stays destined.                                *)
(***************************************************************************)
LEMMA StaysDestined ==
  ASSUME UNCHANGED <<handler, request, transformedRequest, nextHost, i, response>>, Destined
  PROVE  Destined'
BY DEF Destined, Joined, handler

Same == UNCHANGED <<handler, request, transformedRequest, nextHost, i, response>>

LEMMA CallStep == CallInv /\ i \in Nat /\ [Next]_vars => CallInv'
  <1> SUFFICES ASSUME CallInv, i \in Nat, [Next]_vars PROVE CallInv'
    OBVIOUS
  <1>0. /\ SiteTypes(site) /\ prefix_ \in Symbols /\ Len(prefix_) \in Nat
        /\ Proper(request, request.raw) /\ transformedRequest \in RequestType
        /\ nextHost \in Symbols /\ raw_response \in Symbols /\ response \in ResponseType
        /\ status \in {"OK", "PROXY_ERROR"} /\ asked \in [host : Symbols, port : Symbols, text : Symbols]
        /\ (pc = "idle" => i = 0)
        /\ (Calling => Carries(transformedRequest, request, nextHost) /\ Destined)
        /\ (pc \in {"read", "parse"} => asked.text = transformedRequest.raw /\ asked.host = nextHost)
    BY ProxyLength DEF CallInv
  <1>1. ASSUME NEW text \in Requests, HandleRequest(text) PROVE CallInv'
    <2> DEFINE r == ParseRequest(text)
               s == TransformRequest(r)
    <2>1. /\ pc = "idle" /\ pc' = "forward" /\ r.form = "parsed" /\ request' = r
          /\ transformedRequest' = s /\ nextHost' = site.host
          /\ UNCHANGED <<site, prefix_, i, raw_response, response, status, asked>>
      BY <1>1 DEF HandleRequest, Goto, handler
    <2>2. text \in Symbols /\ r = ParseRequest(text)
      BY TextAssumption
    <2> HIDE DEF r, s
    <2>3. Proper(r, text)
      BY <2>1, <2>2, ParsedIs
    <2>4. Carries(s, r, site.host) /\ s.uri = Joined(r.uri)
      BY <1>0, <2>1, <2>2, Transformed DEF SiteTypes, s
    <2>5. r.raw = text /\ s \in RequestType
      BY <2>3, <2>4 DEF Proper, Carries
    <2>6. Joined(request.uri)' = Joined(r.uri)
      BY <2>1 DEF Joined
    <2>7. Destined'
      BY <1>0, <2>1, <2>4, <2>6, Zenon DEF Destined
    <2>8. site.host \in Symbols
      BY <1>0 DEF SiteTypes
    <2>. QED
      BY <1>0, <2>1, <2>3, <2>4, <2>5, <2>7, <2>8 DEF CallInv, Calling
  <1>2. ASSUME Same, pc' \in {"forward", "write", "read", "parse", "done", "thrown"},
               pc' \in {"forward", "write", "read", "parse"} => Calling,
               raw_response' \in Symbols, status' \in {"OK", "PROXY_ERROR"},
               asked' \in [host : Symbols, port : Symbols, text : Symbols],
               pc' \in {"read", "parse"} => asked'.text = transformedRequest.raw /\ asked'.host = nextHost
        PROVE  CallInv'
    <2>1. Destined => Destined'
      BY <1>2, StaysDestined DEF Same
    <2>2. UNCHANGED <<site, prefix_, request, transformedRequest, nextHost, i, response>>
      BY <1>2 DEF Same, handler
    <2>3. Calling' => Carries(transformedRequest, request, nextHost)' /\ Destined'
      BY <1>0, <1>2, <2>1, <2>2 DEF Calling
    <2>. QED
      BY <1>0, <1>2, <2>2, <2>3 DEF CallInv
  <1>3. CASE Connect \/ WriteThrows \/ ParseThrows \/ Unreachable \/ Unrecognized
    BY <1>0, <1>2, <1>3
       DEF Connect, WriteThrows, ParseThrows, Unreachable, Unrecognized, Goto, call, Same, Calling
  <1>4. CASE Write
    <2> DEFINE a == [host |-> nextHost, port |-> site.port, text |-> transformedRequest.raw]
    <2>1. Same /\ pc = "write" /\ pc' = "read" /\ asked' = a /\ UNCHANGED <<raw_response, status>>
      BY <1>4 DEF Write, Goto, Same
    <2>2. a.host = nextHost /\ a.text = transformedRequest.raw
      OBVIOUS
    <2>3. a \in [host : Symbols, port : Symbols, text : Symbols]
      BY <1>0 DEF SiteTypes, RequestType
    <2> HIDE DEF a
    <2>. QED
      BY <1>0, <1>2, <2>1, <2>2, <2>3 DEF Calling
  <1>5. ASSUME NEW text \in Texts, Read(text) PROVE CallInv'
    <2>1. text \in Symbols
      BY TextAssumption
    <2>. QED
      BY <1>0, <1>2, <1>5, <2>1 DEF Read, Goto, Same, Calling
  <1>6. CASE Relay \/ RedirectNowhere
    <2>1. /\ Parsed.form = "parsed" /\ response' = Parsed.response /\ pc' = "done"
          /\ UNCHANGED <<site, prefix_, request, transformedRequest, nextHost, i, raw_response, asked>>
          /\ status' \in {"OK", "PROXY_ERROR"}
      BY <1>0, <1>6 DEF Relay, RedirectNowhere, Goto, handler
    <2>2. response' \in ResponseType
      BY <1>0, <2>1, ResponseRead DEF Parsed
    <2>. QED
      BY <1>0, <2>1, <2>2 DEF CallInv, Calling
  <1>7. CASE Redirect
    <2> DEFINE location == GetHeader(Parsed.response.headers, Location)
               next == ParseLocation(location)
               named == UpdateHeader(transformedRequest, Host, next.host)
               s == UpdateUri(named, next.uri)
    <2>1. /\ pc = "parse" /\ pc' \in {"forward", "done"}
          /\ Parsed.form = "parsed" /\ response' = Parsed.response /\ nextHost' = next.host
          /\ transformedRequest' = s /\ i' = i + 1
          /\ UNCHANGED <<site, prefix_, request, raw_response, status, asked>>
      BY <1>7 DEF Redirect, Goto, Counted, handler
    <2>2. response' \in ResponseType
      BY <1>0, <2>1, ResponseRead DEF Parsed
    <2>3. location \in Symbols /\ location = GetHeader(response'.headers, Location)
      <3>1. response'.headers \in Seq(NonEmpty \X Symbols)
        BY <2>2 DEF ResponseType, NonEmpty
      <3>. QED
        BY <2>1, <3>1, HeaderValue
    <2> HIDE DEF location
    <2>4. next.host \in Symbols /\ next.uri \in Symbols
      BY <2>3, Literals, LocationType DEF Symbols
    <2>5. Carries(transformedRequest, request, nextHost)
      BY <1>0, <2>1 DEF Calling
    <2>6. Carries(named, request, next.host)
      <3> HIDE DEF next
      <3>. QED
        BY <2>4, <2>5, HostNamed
    <2>7. Carries(s, request, next.host) /\ s.uri = next.uri
      <3> HIDE DEF next, named
      <3>. QED
        BY <2>4, <2>6, UriNamed
    <2>8. s \in RequestType
      BY <2>7 DEF Carries
    <2> HIDE DEF s, next
    <2>9. Destined'
      <3>1. i' # 0
        BY <2>1
      <3>2. next = ParseLocation(GetHeader(response.headers, Location)')
        BY <2>3 DEF next
      <3>. QED
        BY <2>1, <2>7, <3>1, <3>2 DEF Destined
    <2>. QED
      BY <1>0, <2>1, <2>2, <2>4, <2>7, <2>8, <2>9 DEF CallInv, Calling
  <1>8. CASE Return
    <2>1. Proper(NoRequest, NoRequest.raw) /\ NoRequest \in RequestType
      BY NothingParses DEF Proper
    <2>2. NoResponse \in ResponseType
      BY SeparatorTexts, EmptySeq DEF NoResponse, ResponseType
    <2>3. NoText \in Symbols /\ <<>> \in Symbols /\ NotAsked \in [host : Symbols, port : Symbols, text : Symbols]
      BY SeparatorTexts DEF NoText, NotAsked
    <2>4. /\ pc' = "idle" /\ UNCHANGED <<site, prefix_>> /\ request' = NoRequest
          /\ transformedRequest' = NoRequest /\ nextHost' = <<>> /\ i' = 0
          /\ raw_response' = NoText /\ response' = NoResponse /\ status' = "OK" /\ asked' = NotAsked
      BY <1>8 DEF Return, Goto, handler
    <2>. QED
      BY <1>0, <2>1, <2>2, <2>3, <2>4 DEF CallInv, Calling
  <1>9. CASE UNCHANGED vars
    <2>1. Destined => Destined'
      BY <1>9, StaysDestined DEF vars, call
    <2>2. UNCHANGED <<site, prefix_, pc, request, transformedRequest, nextHost, i, raw_response, response, status, asked>>
      BY <1>9 DEF vars, call, handler
    <2>. QED
      BY <1>0, <2>1, <2>2 DEF CallInv, Calling
  <1>. QED
    BY <1>1, <1>3, <1>4, <1>5, <1>6, <1>7, <1>8, <1>9 DEF Next, Loop, ForwardRequest, Peer

(***************************************************************************)
(* A host and a path without a blank and a line feed are read back from    *)
(* the request, which is all that AsksProperly needs.                      *)
(***************************************************************************)
LEMMA PlainWord ==
  ASSUME NEW s \in Symbols, {" ", "\n"} \cap Range(s) = {}
  PROVE  s \in Word
  <1> DEFINE L == Characters \ {"\n"}
  <1>1. s \in Seq(Characters) /\ DOMAIN s = 1 .. Len(s)
    BY LenProperties DEF Symbols
  <1>2. Lacks(s, "\n") /\ Lacks(s, " ")
    BY <1>1 DEF Lacks, Range
  <1>3. s \in Seq(L)
    BY <1>1, <1>2, LacksWithout
  <1> HIDE DEF L
  <1>4. s \in Seq(L \ {" "})
    BY <1>2, <1>3, LacksWithout
  <1>. QED
    BY <1>4 DEF L, Word

LEMMA RangeOfParts ==
  ASSUME NEW a \in Symbols, NEW b \in Symbols
  PROVE  Range(a) \subseteq Range(a \o b) /\ Range(b) \subseteq Range(a \o b)
  <1> DEFINE t == a \o b
             m == Len(a)
             n == Len(b)
  <1>1. a \in Seq(Characters) /\ b \in Seq(Characters)
    BY DEF Symbols
  <1>2. t \in Seq(Characters) /\ Len(t) = m + n /\ m \in Nat /\ n \in Nat
    BY <1>1, ConcatAt
  <1>3. \A j \in 1 .. m : t[j] = a[j]
    BY <1>1, ConcatAt
  <1>4. \A j \in 1 .. n : t[m + j] = b[j]
    BY <1>1, ConcatAt
  <1> HIDE DEF t
  <1>5. DOMAIN t = 1 .. Len(t) /\ DOMAIN a = 1 .. m /\ DOMAIN b = 1 .. n
    BY <1>1, <1>2, LenProperties
  <1> HIDE DEF m, n
  <1>6. DOMAIN t = 1 .. m + n
    BY <1>2, <1>5
  <1>7. \A j \in 1 .. m : j \in 1 .. m + n
    BY <1>2
  <1>8. \A j \in 1 .. n : m + j \in 1 .. m + n
    BY <1>2
  <1>. QED
    BY <1>3, <1>4, <1>5, <1>6, <1>7, <1>8 DEF Range, t

(***************************************************************************)
(* A host that is asked is sent what the loop carries, and it can be sent. *)
(***************************************************************************)
Sent == ParseRequest(asked.text)

LEMMA AskedSendable ==
  ASSUME CallInv, Asking
  PROVE  /\ asked.host = nextHost /\ nextHost \in Word
         /\ Carries(transformedRequest, request, nextHost) /\ Destined
         /\ Sendable(transformedRequest) /\ asked.text = RawRequest(transformedRequest)
  <1> DEFINE A == (Characters \ {"\n"}) \ {" "}
             location == GetHeader(response.headers, Location)
             next == ParseLocation(location)
  <1>1. /\ SiteTypes(site) /\ Len(prefix_) \in Nat /\ Proper(request, request.raw) /\ response \in ResponseType
        /\ Carries(transformedRequest, request, nextHost) /\ Destined
        /\ asked.text = transformedRequest.raw /\ asked.host = nextHost
        /\ {" ", "\n"} \cap Range(Target) = {}
    BY ProxyLength DEF CallInv, Asking, Calling
  <1>2. request.uri \in Word
    BY <1>1 DEF Proper
  <1>3. Slash \in A
    BY Literals
  <1>4. nextHost \in Word /\ transformedRequest.uri \in Word
    <2>1. CASE i = 0
      <3>1. site.host \in Symbols /\ site.urlpath \in Symbols
        BY <1>1 DEF SiteTypes
      <3>2. {" ", "\n"} \cap Range(site.host \o site.urlpath) = {}
        BY <1>1, <2>1 DEF Target
      <3>3. {" ", "\n"} \cap Range(site.host) = {} /\ {" ", "\n"} \cap Range(site.urlpath) = {}
        BY <3>1, <3>2, RangeOfParts
      <3>4. site.host \in Word /\ site.urlpath \in Word
        BY <3>1, <3>3, PlainWord
      <3>5. Joined(request.uri) \in Word
        <4>1. site.urlpath \in Seq(A) /\ request.uri \in Seq(A)
          BY <1>2, <3>4 DEF Word
        <4> HIDE DEF A
        <4>2. Joined(request.uri) \in Seq(A)
          BY <1>1, <4>1, JoinedType
        <4>. QED
          BY <4>2 DEF A, Word
      <3>6. nextHost = site.host /\ transformedRequest.uri = Joined(request.uri)
        BY <1>1, <2>1, Zenon DEF Destined
      <3>. QED
        BY <3>4, <3>5, <3>6
    <2>2. CASE i # 0
      <3>1. location \in Symbols
        <4>1. response \in ResponseType
          BY <1>1
        <4>2. response.headers \in Seq(NonEmpty \X Symbols)
          BY <4>1 DEF ResponseType, NonEmpty
        <4>. QED
          BY <4>2, HeaderValue
      <3>2. {" ", "\n"} \cap Range(location) = {}
        BY <1>1, <2>2, Zenon DEF Target
      <3>3. nextHost = next.host /\ transformedRequest.uri = next.uri
        BY <1>1, <2>2, Zenon DEF Destined
      <3> HIDE DEF location
      <3>4. location \in Seq(A)
        BY <3>1, <3>2, PlainWord DEF Word
      <3> HIDE DEF A
      <3>5. next.host \in Seq(A) /\ next.uri \in Seq(A)
        BY <1>3, <3>4, LocationType
      <3>. QED
        BY <3>3, <3>5 DEF A, Word
    <2>. QED
      BY <2>1, <2>2
  <1>5. Sendable(transformedRequest)
    BY <1>1, <1>4, CarriedIsSendable
  <1>6. asked.text = RawRequest(transformedRequest)
    BY <1>1 DEF Carries
  <1>. QED
    BY <1>1, <1>4, <1>5, <1>6

LEMMA AskedIsRead ==
  ASSUME CallInv, Asking
  PROVE  Reread(Sent, transformedRequest)
BY AskedSendable, SentBack DEF Sent

LEMMA AsksProperlyIs == CallInv => AsksProperly
  <1> SUFFICES ASSUME CallInv, Asking
               PROVE  LET sent == Sent
                      IN /\ sent.form = "parsed"
                         /\ sent.method = request.method /\ sent.version = Http10
                         /\ GetHeader(sent.headers, Host) = asked.host
                         /\ GetHeader(sent.headers, Connection) = <<"close">>
                         /\ Kept(sent.headers) = Kept(request.headers)
                         /\ sent.body = Append(request.body, "\r")
    BY Zenon DEF AsksProperly, Sent
  <1>1. asked.host = nextHost /\ Carries(transformedRequest, request, nextHost)
    BY AskedSendable
  <1>2. Reread(Sent, transformedRequest)
    BY AskedIsRead
  <1> HIDE DEF Sent
  <1>. QED
    BY <1>1, <1>2 DEF Reread, Carries
-----------------------------------------------------------------------------
(***************************************************************************)
(* The loop's locals are well typed in every call, whatever is received.   *)
(***************************************************************************)
LEMMA TypeIs == CallInv /\ i \in 0 .. MAX_REDIRECTS => TypeOK
  <1> SUFFICES ASSUME CallInv, i \in 0 .. MAX_REDIRECTS PROVE TypeOK
    OBVIOUS
  <1>1. request \in RequestType
    BY DEF CallInv, Proper
  <1>2. response \in [code : Codes \cup {0}, body : Symbols,
                      headers : Seq((Symbols \ {<<>>}) \X (Symbols \ {<<>>}))]
    BY DEF CallInv, ResponseType, NonEmpty
  <1>. QED
    BY <1>1, <1>2, Zenon DEF TypeOK, CallInv

(***************************************************************************)
(* The URI that the configured host is asked for.                          *)
(***************************************************************************)
LEMMA RestOfConcat ==
  ASSUME NEW a \in Symbols, NEW b \in Symbols
  PROVE  Rest(a \o b, Len(a)) = b /\ Len(a \o b) = Len(a) + Len(b) /\ Len(a) \in Nat /\ Len(b) \in Nat
  <1>1. a \in Seq(Characters) /\ b \in Seq(Characters)
    BY DEF Symbols
  <1>2. Len(a \o b) = Len(a) + Len(b) /\ Len(a) \in Nat /\ Len(b) \in Nat
    BY <1>1, ConcatAt
  <1>3. Rest(a \o b, Len(a) + 0) = Rest(b, 0)
    BY <1>1, <1>2, RestBehind
  <1>4. Rest(b, 0) = b
    <2>1. Rest(b, 0) = SubSeq(b, 0 + 1, Len(b))
      BY <1>1, RestIs
    <2>. QED
      BY <1>1, <2>1, SubSeqFull
  <1>5. Len(a) + 0 = Len(a)
    <2> DEFINE m == Len(a)
    <2>1. m \in Nat
      BY <1>2
    <2> HIDE DEF m
    <2>2. m + 0 = m
      BY <2>1
    <2>. QED
      BY <2>2 DEF m
  <1>. QED
    BY <1>2, <1>3, <1>4, <1>5

LEMMA JoinedCut ==
  ASSUME NEW rest \in Symbols, Slashless(rest), prefix_ \in Symbols, site.urlpath \in Symbols
  PROVE  Joined(prefix_ \o rest) = site.urlpath \o rest
  <1> DEFINE uri == prefix_ \o rest
  <1>1. Rest(uri, Len(prefix_)) = rest /\ Len(uri) = Len(prefix_) + Len(rest)
        /\ Len(prefix_) \in Nat /\ Len(rest) \in Nat
    BY RestOfConcat
  <1>2. Joined(uri) = IF Len(uri) <= Len(prefix_) THEN site.urlpath
                      ELSE IF rest[1] # Slash THEN site.urlpath \o rest
                      ELSE site.urlpath \o Tail(rest)
    BY <1>1, Zenon DEF Joined
  <1> HIDE DEF uri
  <1>3. CASE rest = <<>>
    <2>1. Len(rest) = 0
      BY <1>3, EmptySeq
    <2>2. Len(uri) <= Len(prefix_)
      BY <1>1, <2>1
    <2>3. site.urlpath \o <<>> = site.urlpath
      BY ConcatEmptySeq DEF Symbols
    <2>. QED
      BY <1>2, <1>3, <2>2, <2>3 DEF uri
  <1>4. CASE rest # <<>>
    <2>1. Len(rest) # 0
      BY <1>4, EmptySeq DEF Symbols
    <2>2. ~(Len(uri) <= Len(prefix_))
      BY <1>1, <2>1
    <2>3. rest[1] # Slash
      BY <1>4 DEF Slashless
    <2>. QED
      BY <1>2, <2>2, <2>3 DEF uri
  <1>. QED
    BY <1>3, <1>4

LEMMA JoinedOnce ==
  ASSUME NEW rest \in Symbols, prefix_ \in Symbols, site.urlpath \in Symbols
  PROVE  Joined(prefix_ \o <<Slash>> \o rest) = site.urlpath \o rest
  <1> DEFINE one == <<Slash>>
             tail == one \o rest
             uri == prefix_ \o tail
  <1>1. one \in Seq(Characters) /\ Len(one) = 1 /\ one[1] = Slash
    BY Literals, OneIs
  <1>2. tail \in Symbols /\ Len(tail) = 1 + Len(rest) /\ Len(rest) \in Nat /\ tail[1] = Slash
    <2>1. rest \in Seq(Characters)
      BY DEF Symbols
    <2> HIDE DEF one
    <2>2. tail \in Seq(Characters) /\ Len(tail) = Len(one) + Len(rest) /\ Len(rest) \in Nat
      BY <1>1, <2>1, ConcatAt
    <2>3. \A j \in 1 .. Len(one) : tail[j] = one[j]
      BY <1>1, <2>1, ConcatAt
    <2> HIDE DEF tail
    <2>4. tail[1] = one[1]
      BY <1>1, <2>3
    <2>. QED
      BY <1>1, <2>2, <2>4 DEF Symbols
  <1>3. prefix_ \o <<Slash>> \o rest = uri
    <2> HIDE DEF one
    <2>1. Regroups(prefix_, one, rest)
      BY <1>1, Regroup DEF Symbols
    <2>. QED
      BY <2>1 DEF Regroups, one
  <1>4. Tail(tail) = rest
    <2> DEFINE e == <<>>
    <2> HIDE DEF tail
    <2>1. tail \in Seq(Characters) /\ Len(tail) \in Nat /\ Len(tail) # 0 /\ rest \in Seq(Characters)
      BY <1>2 DEF Symbols
    <2>2. tail # <<>>
      BY <2>1, EmptySeq
    <2>3. Tail(tail) \in Seq(Characters) /\ Len(Tail(tail)) = Len(rest)
          /\ \A j \in 1 .. Len(rest) : Tail(tail)[j] = tail[j + 1]
      BY <1>2, <2>1, <2>2, HeadTailProperties
    <2>4. \A j \in 1 .. Len(rest) : tail[j + 1] = rest[j]
      <3>1. \A j \in 1 .. Len(rest) : tail[Len(one) + j] = rest[j]
        <4> DEFINE whole == one \o rest
        <4>1. \A j \in 1 .. Len(rest) : whole[Len(one) + j] = rest[j]
          <5>1. one \in Seq(Characters) /\ rest \in Seq(Characters)
            BY <1>1, <2>1
          <5> HIDE DEF one, whole
          <5>2. whole = one \o rest
            BY DEF whole
          <5>. QED
            BY <5>1, <5>2, ConcatAt
        <4>. QED
          BY <4>1 DEF tail
      <3>2. \A j \in 1 .. Len(rest) : j + 1 = Len(one) + j
        BY <1>1, <1>2
      <3> HIDE DEF one
      <3>. QED
        BY <3>1, <3>2
    <2>. QED
      BY <2>1, <2>3, <2>4, SeqEqual
  <1>5. Rest(uri, Len(prefix_)) = tail /\ Len(uri) = Len(prefix_) + Len(tail)
        /\ Len(prefix_) \in Nat /\ Len(tail) \in Nat
    <2> HIDE DEF tail
    <2>. QED
      BY <1>2, RestOfConcat
  <1>6. Joined(uri) = IF Len(uri) <= Len(prefix_) THEN site.urlpath
                      ELSE IF tail[1] # Slash THEN site.urlpath \o tail
                      ELSE site.urlpath \o Tail(tail)
    <2> HIDE DEF tail
    <2>. QED
      BY <1>5, Zenon DEF Joined
  <1> HIDE DEF uri, tail
  <1>7. ~(Len(uri) <= Len(prefix_))
    BY <1>2, <1>5
  <1>. QED
    BY <1>2, <1>3, <1>4, <1>6, <1>7

-----------------------------------------------------------------------------
(***************************************************************************)
(* The parts between the slashes of a URL, and what ParseLocation makes of *)
(* it.                                                                     *)
(***************************************************************************)
FirstOf(A, text, c, parts) ==
  \E p \in Seq(A), q \in Seq(A) :
    Lacks(p, c) /\ text = p \o (<<c>> \o q) /\ parts = <<p>> \o SplitAt(q, c)

LEMMA FirstPart ==
  ASSUME NEW A, NEW c \in A, NEW text \in Seq(A)
  PROVE  SplitAt(text, c) = <<text>> \/ FirstOf(A, text, c, SplitAt(text, c))
  <1>1. CASE Lacks(text, c)
    BY <1>1, SplitOne
  <1>2. CASE ~Lacks(text, c)
    <2>1. PICK p \in Seq(A \ {c}), q \in Seq(A) : text = p \o (<<c>> \o q) /\ Len(q) < Len(text)
      BY <1>2, FirstSymbol, Zenon
    <2>2. p \in Seq(A) /\ Lacks(p, c)
      BY WithoutLacks
    <2>3. SplitAt(p \o (<<c>> \o q), c) = <<p>> \o SplitAt(q, c)
      BY <2>2, SplitCons
    <2>. QED
      BY <2>1, <2>2, <2>3, Zenon DEF FirstOf
  <1>. QED
    BY <1>1, <1>2

LEMMA FirstDouble ==
  ASSUME NEW A, NEW c \in A, NEW p \in Seq(A), Lacks(p, c), NEW q \in Seq(A)
  PROVE  Find(p \o (<<c>> \o (<<c>> \o q)), <<c, c>>, 0) = Len(p)
  <1> DEFINE d == <<c, c>>
             text == p \o (d \o q)
             m == Len(p)
  <1>1. d \in Seq(A) /\ Len(d) = 2 /\ d[1] = c /\ d[2] = c
    OBVIOUS
  <1>2. p \o (<<c>> \o (<<c>> \o q)) = text
    <2> DEFINE one == <<c>>
    <2>1. one \in Seq(A) /\ one \o one = d
      BY OneIs, TwoAre
    <2> HIDE DEF one, d
    <2>2. Regroups(one, one, q)
      BY <2>1, Regroup
    <2>. QED
      BY <2>1, <2>2 DEF Regroups, one
  <1> HIDE DEF d
  <1>3. d \o q \in Seq(A) /\ Len(d \o q) = 2 + Len(q) /\ Len(q) \in Nat
    <2>1. d \o q \in Seq(A) /\ Len(d \o q) = Len(d) + Len(q) /\ Len(q) \in Nat
      BY <1>1, ConcatAt
    <2>. QED
      BY <1>1, <2>1
  <1>4. StandsAt(0, d, d \o q)
    <2>1. \A j \in 1 .. Len(d) : (d \o q)[j] = d[j]
      BY <1>1, ConcatAt
    <2>2. \A j \in 1 .. Len(d) : (d \o q)[0 + j] = d[j]
      <3> DEFINE n == Len(d)
      <3>1. n = 2 /\ \A j \in 1 .. n : (d \o q)[j] = d[j]
        BY <1>1, <2>1
      <3> HIDE DEF n
      <3>2. \A j \in 1 .. n : 0 + j = j
        BY <3>1
      <3>3. \A j \in 1 .. n : (d \o q)[0 + j] = d[j]
        BY <3>1, <3>2, Zenon
      <3>. QED
        BY <3>3 DEF n
    <2>3. 0 + Len(d) <= Len(d \o q)
      BY <1>1, <1>3
    <2>. QED
      BY <2>2, <2>3 DEF StandsAt
  <1> DEFINE t == d \o q
  <1> HIDE DEF t
  <1>5. t \in Seq(A) /\ StandsAt(0, d, t)
    BY <1>3, <1>4 DEF t
  <1>6. p \o t \in Seq(A) /\ m \in Nat /\ \A j \in 1 .. m : (p \o t)[j] = p[j]
    BY <1>5, ConcatAt
  <1>7. StandsAt(m + 0, d, p \o t)
    BY <1>1, <1>5, StandsBehind
  <1>8. ASSUME NEW k \in Nat, k < m PROVE ~StandsAt(k, d, p \o t)
    <2>1. k + 1 \in 1 .. m
      BY <1>6, <1>8
    <2>2. (p \o t)[k + 1] # c
      BY <1>6, <2>1 DEF Lacks
    <2>3. 1 \in 1 .. Len(d)
      BY <1>1
    <2>. QED
      BY <1>1, <2>2, <2>3 DEF StandsAt
  <1>9. Finds(p \o t, d, 0, m)
    <2>1. m # Npos /\ m >= 0 /\ m + 0 = m
      BY <1>6 DEF Npos
    <2>. QED
      BY <1>6, <1>7, <1>8, <2>1 DEF Finds
  <1>10. Find(p \o t, d, 0) = m
    BY <1>1, <1>6, <1>9, FindUnique
  <1>. QED
    BY <1>2, <1>10 DEF t, d

LEMMA ConsIs ==
  ASSUME NEW V, NEW v \in V, NEW s \in Seq(V)
  PROVE  /\ Len(<<v>> \o s) = Len(s) + 1 /\ Len(s) \in Nat /\ (<<v>> \o s)[1] = v
         /\ \A j \in 1 .. Len(s) : (<<v>> \o s)[j + 1] = s[j]
  <1> DEFINE d == <<v>>
             n == Len(s)
  <1>1. d \in Seq(V) /\ Len(d) = 1 /\ d[1] = v
    BY OneIs
  <1> HIDE DEF d
  <1>2. d \o s \in Seq(V) /\ Len(d \o s) = Len(d) + Len(s) /\ Len(s) \in Nat
    BY <1>1, ConcatAt
  <1>3. \A j \in 1 .. Len(d) : (d \o s)[j] = d[j]
    BY <1>1, ConcatAt
  <1>4. \A j \in 1 .. Len(s) : (d \o s)[Len(d) + j] = s[j]
    <2>1. d \in Seq(V) /\ s \in Seq(V)
      BY <1>1
    <2> HIDE DEF n
    <2>. QED
      BY <2>1, ConcatAt
  <1>5. (d \o s)[1] = v
    <2> DEFINE m == Len(d)
    <2> DEFINE t == d \o s
    <2>1. m = 1 /\ \A j \in 1 .. m : t[j] = d[j]
      BY <1>1, <1>3
    <2> HIDE DEF m, t
    <2>2. t[1] = d[1]
      BY <2>1
    <2>. QED
      BY <1>1, <2>2 DEF t
  <1>6. \A j \in 1 .. n : (d \o s)[j + 1] = s[j]
    <2>1. n \in Nat /\ \A j \in 1 .. n : (d \o s)[1 + j] = s[j]
      BY <1>1, <1>2, <1>4
    <2> HIDE DEF n
    <2>2. \A j \in 1 .. n : 1 + j = j + 1
      BY <2>1
    <2>. QED
      BY <2>1, <2>2, Zenon
  <1>7. Len(d \o s) = Len(s) + 1
    <2>1. Len(d \o s) = 1 + n /\ n \in Nat
      BY <1>1, <1>2
    <2> HIDE DEF n
    <2>2. Len(d \o s) = n + 1
      BY <2>1
    <2>. QED
      BY <2>2 DEF n
  <1>. QED
    BY <1>2, <1>5, <1>6, <1>7 DEF d

(***************************************************************************)
(* A URL of at least three parts, the second of which is empty: a first    *)
(* part without a slash, two slashes, and the rest.                        *)
(***************************************************************************)
HasHost(parts) == Len(parts) >= 3 /\ parts[2] = <<>>
UrlOf(A, url, c, parts) ==
  \E p \in Seq(A), q \in Seq(A) :
    /\ Lacks(p, c) /\ url = p \o (<<c>> \o (<<c>> \o q))
    /\ parts = <<p>> \o (<<<<>>>> \o SplitAt(q, c))

LEMMA UrlParts ==
  ASSUME NEW A, NEW c \in A, NEW url \in Seq(A), HasHost(SplitAt(url, c))
  PROVE  UrlOf(A, url, c, SplitAt(url, c))
  <1> DEFINE V == Seq(A)
             parts == SplitAt(url, c)
  <1>0. \A text \in Seq(A) : SplitAt(text, c) \in Seq(V)
    <2>1. \A text \in Seq(A) : SplitAt(text, c) \in Seq(Seq(A \ {c}))
      BY SplitParts
    <2>2. Seq(A \ {c}) \subseteq V
      BY WithoutLacks
    <2> DEFINE W == Seq(A \ {c})
    <2> HIDE DEF V, W
    <2>3. \A s \in Seq(W) : s \in Seq(V)
      BY <2>2, Letters DEF W
    <2>. QED
      BY <2>1, <2>3 DEF W
  <1>1. Len(parts) >= 3 /\ parts[2] = <<>>
    BY Zenon DEF HasHost
  <1>2. parts # <<url>>
    <2> DEFINE d == <<url>>
    <2>1. Len(d) = 1
      BY OneIs
    <2> HIDE DEF d, parts
    <2>2. ASSUME parts = d PROVE FALSE
      <3>1. Len(parts) = 1
        BY <2>1, <2>2, Zenon
      <3> DEFINE n == Len(parts)
      <3>2. n = 1 /\ n >= 2
        BY <1>1, <3>1
      <3> HIDE DEF n
      <3>. QED
        BY <3>2
    <2>. QED
      BY <2>2, Zenon DEF d
  <1>3. PICK p \in Seq(A), r \in Seq(A) : Lacks(p, c) /\ url = p \o (<<c>> \o r) /\ parts = <<p>> \o SplitAt(r, c)
    <2>1. FirstOf(A, url, c, parts)
      BY <1>2, FirstPart, Zenon
    <2>. QED
      BY <2>1, Zenon DEF FirstOf
  <1> DEFINE second == SplitAt(r, c)
  <1>4. second \in Seq(V)
    BY <1>0
  <1> HIDE DEF parts, second, V
  <1>p. p \in V
    BY DEF V
  <1>5. Len(parts) = Len(second) + 1 /\ Len(second) \in Nat /\ \A j \in 1 .. Len(second) : parts[j + 1] = second[j]
    <2>1. parts = <<p>> \o second
      BY <1>3 DEF second
    <2>. QED
      BY <1>4, <1>p, <2>1, ConsIs
  <1>6. Len(second) >= 2 /\ second[1] = <<>>
    <2> DEFINE n == Len(second)
    <2>1. n \in Nat /\ n + 1 >= 3 /\ \A j \in 1 .. n : parts[j + 1] = second[j]
      BY <1>1, <1>5
    <2> HIDE DEF n
    <2>2. n >= 2 /\ parts[1 + 1] = second[1]
      BY <2>1
    <2>. QED
      BY <1>1, <2>2 DEF n
  <1>7. second # <<r>>
    <2> DEFINE d == <<r>>
    <2>1. Len(d) = 1
      BY OneIs
    <2> HIDE DEF d
    <2>2. ASSUME second = d PROVE FALSE
      <3>1. Len(second) = 1
        BY <2>1, <2>2, Zenon
      <3> DEFINE n == Len(second)
      <3>2. n = 1 /\ n >= 2
        BY <1>6, <3>1
      <3> HIDE DEF n
      <3>. QED
        BY <3>2
    <2>. QED
      BY <2>2, Zenon DEF d
  <1>8. PICK e \in Seq(A), q \in Seq(A) : Lacks(e, c) /\ r = e \o (<<c>> \o q) /\ second = <<e>> \o SplitAt(q, c)
    <2>1. FirstOf(A, r, c, second)
      BY <1>7, FirstPart, Zenon DEF second
    <2>. QED
      BY <2>1, Zenon DEF FirstOf
  <1>9. e = <<>>
    <2>1. SplitAt(q, c) \in Seq(V) /\ e \in V
      BY <1>0 DEF V
    <2>2. second[1] = e
      BY <1>8, <2>1, ConsIs
    <2>. QED
      BY <1>6, <2>2
  <1>10. r = <<c>> \o q
    <2> DEFINE t == <<c>> \o q
    <2>1. t \in Seq(A)
      <3> DEFINE d == <<c>>
      <3>1. d \in Seq(A)
        BY OneIs
      <3> HIDE DEF d
      <3>. QED
        BY <3>1, ConcatAt DEF d
    <2> HIDE DEF t
    <2>2. r = <<>> \o t
      BY <1>8, <1>9 DEF t
    <2>. QED
      BY <2>1, <2>2, ConcatEmptySeq DEF t
  <1>. QED
    BY <1>3, <1>8, <1>9, <1>10, Zenon DEF UrlOf, parts, second

LEMMA LocationOf ==
  ASSUME NEW A, Slash \in A, NEW p \in Seq(A), Lacks(p, Slash), NEW q \in Seq(A)
  PROVE  LET url == p \o (<<Slash>> \o (<<Slash>> \o q))
             end == Find(q, <<Slash>>, 0)
         IN /\ end = Npos => ParseLocation(url) = [host |-> q, uri |-> <<Slash>>]
            /\ end # Npos => ParseLocation(url) =
                 [host |-> Substr(q, 0, end), uri |-> Rest(url, Len(p) + 2 + end)]
  <1> DEFINE one == <<Slash>>
             two == <<Slash, Slash>>
             head == p \o two
             url == p \o (one \o (one \o q))
             end == Find(q, one, 0)
             http == Find(url, two, 0)
             host == Find(url, one, http + 2)
             m == Len(p)
  <1>1. one \in Seq(A) /\ Len(one) = 1 /\ two \in Seq(A) /\ Len(two) = 2
    OBVIOUS
  <1>2. http = m
    BY FirstDouble, Zenon
  <1>3. url = head \o q
    <2>1. one \o one = two
      BY TwoAre
    <2> HIDE DEF one, two
    <2>2. Regroups(one, one, q) /\ Regroups(p, two, q)
      BY <1>1, Regroup
    <2>. QED
      BY <2>1, <2>2 DEF Regroups
  <1>4. head \in Seq(A) /\ Len(head) = m + 2 /\ m \in Nat
    <2> HIDE DEF two
    <2>1. head \in Seq(A) /\ Len(head) = Len(p) + Len(two) /\ Len(p) \in Nat
      BY <1>1, ConcatAt
    <2>. QED
      BY <1>1, <2>1
  <1>5. InText(end, 0, one, q)
    <2> HIDE DEF one
    <2>. QED
      BY <1>1, FindRange
  <1> HIDE DEF head, url, m
  <1>6. Find(head \o q, one, Len(head) + 0) = Behind(Len(head), end)
    <2> HIDE DEF one
    <2>. QED
      BY <1>1, <1>4, FindBehind
  <1>7. host = Behind(m + 2, end)
    <2> HIDE DEF one, end
    <2>1. Len(head) + 0 = m + 2
      BY <1>4
    <2>. QED
      BY <1>2, <1>3, <1>4, <1>6, <2>1
  <1> HIDE DEF host, end, one, http
  <1>8. ParseLocation(url) =
          IF host = Npos THEN [host |-> Rest(url, http + 2), uri |-> <<Slash>>]
          ELSE [host |-> Substr(url, http + 2, host - http - 2), uri |-> Rest(url, host)]
    BY Zenon DEF ParseLocation, host, http, one
  <1>9. CASE end = Npos
    <2>1. host = Npos
      BY <1>7, <1>9 DEF Behind
    <2>2. Rest(url, m + 2) = q
      <3>1. Rest(head \o q, Len(head) + 0) = Rest(q, 0)
        BY <1>4, RestBehind, LenProperties
      <3>2. Rest(q, 0) = q
        <4>1. Rest(q, 0) = SubSeq(q, 0 + 1, Len(q))
          BY RestIs
        <4>. QED
          BY <4>1, SubSeqFull
      <3>3. Len(head) + 0 = m + 2
        BY <1>4
      <3>. QED
        BY <1>3, <3>1, <3>2, <3>3
    <2>3. ParseLocation(url) = [host |-> q, uri |-> <<Slash>>]
      BY <1>2, <1>8, <2>1, <2>2
    <2>. QED
      BY <1>9, <2>3 DEF end, url, one
  <1>10. CASE end # Npos
    <2>1. end \in Nat /\ end + 1 <= Len(q)
      BY <1>1, <1>5, <1>10 DEF InText
    <2>2. host = m + 2 + end /\ host # Npos /\ host - m - 2 = end
      BY <1>4, <1>7, <1>10, <2>1 DEF Behind, Npos
    <2>3. Substr(url, m + 2, end) = Substr(q, 0, end)
      <3>1. 0 + end <= Len(q)
        BY <2>1, LenProperties
      <3>2. Substr(head \o q, Len(head) + 0, end) = Substr(q, 0, end)
        BY <1>4, <2>1, <3>1, SubstrBehind
      <3>3. Len(head) + 0 = m + 2
        BY <1>4
      <3>. QED
        BY <1>3, <3>2, <3>3
    <2>4. ParseLocation(url) = [host |-> Substr(q, 0, end), uri |-> Rest(url, m + 2 + end)]
      BY <1>2, <1>8, <2>2, <2>3
    <2>. QED
      BY <1>10, <2>4 DEF end, url, one, m
  <1>. QED
    BY <1>9, <1>10

(***************************************************************************)
(* The Location of a response is taken apart as its URL says.              *)
(***************************************************************************)
LEMMA FollowsLocation ==
  ASSUME NEW url \in Symbols, HasHost(SplitAt(url, Slash))
  PROVE  LET parts == SplitAt(url, Slash)
         IN /\ ParseLocation(url).host = parts[3]
            /\ ParseLocation(url).uri =
                 IF Len(parts) = 3 THEN <<Slash>> ELSE Rest(url, Len(parts[1]) + 2 + Len(parts[3]))
  <1> DEFINE A == Characters
             c == Slash
             parts == SplitAt(url, c)
             V == Seq(A)
  <1>0. c \in A /\ url \in Seq(A)
    BY Literals DEF Symbols
  <1>1. PICK p \in Seq(A), q \in Seq(A) :
          /\ Lacks(p, c) /\ url = p \o (<<c>> \o (<<c>> \o q)) /\ parts = <<p>> \o (<<<<>>>> \o SplitAt(q, c))
    <2>1. UrlOf(A, url, c, parts)
      BY <1>0, UrlParts
    <2>. QED
      BY <2>1, Zenon DEF UrlOf
  <1> DEFINE rest == SplitAt(q, c)
             one == <<c>>
             end == Find(q, one, 0)
  <1>2. rest \in Seq(V)
    <2>1. rest \in Seq(Seq(A \ {c}))
      BY <1>0, SplitParts
    <2> DEFINE W == Seq(A \ {c})
    <2>2. W \subseteq V
      BY WithoutLacks
    <2> HIDE DEF V, W, rest
    <2>3. rest \in Seq(W)
      BY <2>1 DEF W
    <2>. QED
      BY <2>2, <2>3, Letters
  <1>3. /\ Len(parts) = Len(rest) + 2 /\ Len(rest) \in Nat /\ parts[1] = p
        /\ \A j \in 1 .. Len(rest) : parts[j + 2] = rest[j]
    <2> DEFINE e == <<>>
               behind == <<e>> \o rest
               n == Len(rest)
               l == Len(behind)
    <2>1. e \in V /\ p \in V
      BY EmptySeq
    <2> HIDE DEF e, V, rest
    <2>2. l = n + 1 /\ n \in Nat /\ \A j \in 1 .. n : behind[j + 1] = rest[j]
      BY <1>2, <2>1, ConsIs
    <2>3. behind \in Seq(V)
      <3> DEFINE d == <<e>>
      <3>1. d \in Seq(V)
        BY <2>1, OneIs
      <3> HIDE DEF d
      <3>. QED
        BY <1>2, <3>1, ConcatAt DEF d
    <2>4. parts = <<p>> \o behind
      BY <1>1 DEF e, rest
    <2> HIDE DEF behind, parts
    <2>5. Len(parts) = l + 1 /\ parts[1] = p /\ \A j \in 1 .. l : parts[j + 1] = behind[j]
      BY <2>1, <2>3, <2>4, ConsIs
    <2> DEFINE m == Len(parts)
    <2> HIDE DEF m, n, l
    <2>6. m = n + 2 /\ \A j \in 1 .. n : j + 1 \in 1 .. l /\ (j + 1) + 1 = j + 2
      BY <2>2, <2>5 DEF m
    <2>7. \A j \in 1 .. n : parts[j + 2] = rest[j]
      <3> SUFFICES ASSUME NEW j \in 1 .. n PROVE parts[j + 2] = rest[j]
        OBVIOUS
      <3>1. parts[(j + 1) + 1] = behind[j + 1] /\ behind[j + 1] = rest[j]
        BY <2>2, <2>5, <2>6
      <3>. QED
        BY <2>6, <3>1
    <2>. QED
      BY <2>2, <2>5, <2>6, <2>7 DEF m, n
  <1>4. /\ end = Npos => ParseLocation(url) = [host |-> q, uri |-> one]
        /\ end # Npos => ParseLocation(url) = [host |-> Substr(q, 0, end), uri |-> Rest(url, Len(p) + 2 + end)]
    BY <1>0, <1>1, LocationOf
  <1>5. CASE Lacks(q, c)
    <2>1. end = Npos
      BY <1>0, <1>5, FindNone
    <2>2. rest = <<q>>
      BY <1>0, <1>5, SplitOne
    <2>3. Len(rest) = 1 /\ rest[1] = q
      BY <2>2, OneIs
    <2> DEFINE n == Len(rest)
               m == Len(parts)
    <2>4. n = 1 /\ m = n + 2 /\ \A j \in 1 .. n : parts[j + 2] = rest[j]
      BY <1>3, <2>3
    <2> HIDE DEF parts, rest, n, m, end, one
    <2>5. m = 3 /\ parts[1 + 2] = rest[1]
      BY <2>4
    <2>6. parts[3] = q
      BY <2>3, <2>5
    <2>7. ParseLocation(url).host = q /\ ParseLocation(url).uri = one
      BY <1>4, <2>1
    <2>. QED
      BY <2>5, <2>6, <2>7, Zenon DEF m, one, parts
  <1>6. CASE ~Lacks(q, c)
    <2>1. PICK x \in Seq(A \ {c}), y \in Seq(A) : q = x \o (<<c>> \o y) /\ Len(y) < Len(q)
      BY <1>0, <1>6, FirstSymbol, Zenon
    <2>2. x \in Seq(A) /\ Lacks(x, c)
      BY WithoutLacks
    <2>3. end = Len(x)
      BY <1>0, <2>1, <2>2, FindFirst
    <2>4. rest = <<x>> \o SplitAt(y, c)
      BY <1>0, <2>1, <2>2, SplitCons
    <2>5. SplitAt(y, c) \in Seq(Seq(A \ {c})) /\ Len(SplitAt(y, c)) >= 1
      BY <1>0, SplitParts
    <2> DEFINE more == SplitAt(y, c)
               n == Len(rest)
               m == Len(parts)
               l == Len(more)
               W == Seq(A \ {c})
    <2>6. n = l + 1 /\ l \in Nat /\ l >= 1 /\ rest[1] = x
      <3> HIDE DEF more, W, rest
      <3>1. rest = <<x>> \o more /\ more \in Seq(W) /\ x \in W
        BY <2>4, <2>5 DEF more, W
      <3>. QED
        BY <2>5, <3>1, ConsIs DEF more
    <2>7. m = n + 2 /\ \A j \in 1 .. n : parts[j + 2] = rest[j]
      BY <1>3
    <2> HIDE DEF parts, rest, more, n, m, l, W, end, one
    <2>8. m # 3 /\ parts[1 + 2] = rest[1]
      BY <2>6, <2>7
    <2>9. parts[3] = x
      BY <2>6, <2>8
    <2>10. Substr(q, 0, Len(x)) = x
      <3> DEFINE k == Len(x)
                 t == one \o y
      <3>1. one \in Seq(A)
        BY <1>0, OneIs DEF one
      <3>2. q \in Seq(A) /\ q = x \o t /\ t \in Seq(A)
        BY <2>1, <3>1, ConcatAt DEF one
      <3> HIDE DEF t
      <3>3. k \in Nat /\ Len(q) = k + Len(t) /\ Len(t) \in Nat /\ \A j \in 1 .. k : q[j] = x[j]
        BY <2>2, <3>2, ConcatAt
      <3>4. Substr(q, 0, k) = SubSeq(q, 0 + 1, 0 + k)
        <4>1. k \in Int /\ k >= 0 /\ 0 + k <= Len(q)
          BY <3>3
        <4>2. q \in Seq(A) /\ 0 \in Nat
          BY <3>2
        <4> HIDE DEF k, A
        <4>. QED
          BY <4>1, <4>2, SubstrIs, Zenon
      <3>5. SubSeq(q, 1, k) = x
        <4>1. k <= Len(q)
          BY <3>3
        <4> DEFINE s == SubSeq(q, 1, k)
        <4>2. s \in Seq(A) /\ Len(s) = k /\ \A j \in 1 .. k : s[j] = q[j]
          <5> HIDE DEF k
          <5>. QED
            BY <3>2, <3>3, <4>1
        <4> HIDE DEF s
        <4>3. s = x
          BY <2>2, <3>3, <4>2, SeqEqual
        <4>. QED
          BY <4>3 DEF s
      <3>6. 0 + 1 = 1 /\ 0 + k = k
        <4> HIDE DEF k
        <4>. QED
          BY <3>3
      <3>. QED
        BY <3>4, <3>5, <3>6
    <2>11. end # Npos
      BY <2>2, <2>3, LenProperties DEF Npos
    <2>12. ParseLocation(url).host = x /\ ParseLocation(url).uri = Rest(url, Len(p) + 2 + Len(x))
      <3> DEFINE k == Len(x)
      <3> HIDE DEF k
      <3>1. end = k /\ Substr(q, 0, k) = x
        BY <2>3, <2>10 DEF k
      <3>. QED
        BY <1>4, <2>11, <3>1 DEF k
    <2>13. parts[1] = p
      BY <1>3
    <2>. QED
      BY <2>8, <2>9, <2>12, <2>13, Zenon DEF m, parts
  <1>. QED
    BY <1>5, <1>6

LEMMA AsksRight == CallInv => AsksForTheRightThing
  <1> SUFFICES ASSUME CallInv, Asking
               PROVE  IF i = 0
                      THEN /\ asked.host = site.host
                           /\ \A rest \in Suffixes(request.uri) :
                                /\ request.uri \in {prefix_ \o rest, prefix_ \o <<Slash>> \o rest}
                                /\ Slashless(rest)
                                => AsksForUri(site.urlpath \o rest)
                      ELSE FollowsUrl(GetHeader(response.headers, Location))
    BY Zenon DEF AsksForTheRightThing
  <1>1. asked.host = nextHost /\ Destined
    BY AskedSendable
  <1>2. \A uri : AsksForUri(uri) <=> transformedRequest.uri = uri
    <2>1. Sent.uri = transformedRequest.uri
      BY AskedIsRead DEF Reread
    <2>. QED
      BY <2>1 DEF AsksForUri, Sent
  <1>3. SiteTypes(site) /\ prefix_ \in Symbols /\ Proper(request, request.raw) /\ response \in ResponseType
    BY DEF CallInv
  <1>4. CASE i = 0
    <2>1. nextHost = site.host /\ transformedRequest.uri = Joined(request.uri)
      BY <1>1, <1>4, Zenon DEF Destined
    <2>2. ASSUME NEW rest \in Suffixes(request.uri),
                 request.uri \in {prefix_ \o rest, prefix_ \o <<Slash>> \o rest}, Slashless(rest)
          PROVE  AsksForUri(site.urlpath \o rest)
      <3>1. rest \in Symbols
        <4>1. request.uri \in Symbols
          BY <1>3 DEF Proper, RequestType
        <4>2. \A l \in 1 .. Len(request.uri) : SubSeq(request.uri, l, Len(request.uri)) \in Symbols
          <5>1. request.uri \in Seq(Characters) /\ Len(request.uri) \in Nat
            BY <4>1, LenProperties DEF Symbols
          <5>2. \A l \in 1 .. Len(request.uri) : SubSeq(request.uri, l, Len(request.uri)) \in Seq(Characters)
            BY <5>1
          <5>. QED
            BY <5>2 DEF Symbols
        <4>. QED
          BY <4>2, SeparatorTexts DEF Suffixes
      <3>2. site.urlpath \in Symbols
        BY <1>3 DEF SiteTypes
      <3>3. Joined(request.uri) = site.urlpath \o rest
        BY <1>3, <2>2, <3>1, <3>2, JoinedCut, JoinedOnce
      <3>. QED
        BY <1>2, <2>1, <3>3
    <2>. QED
      BY <1>1, <1>4, <2>1, <2>2, Zenon
  <1>5. CASE i # 0
    <2> DEFINE url == GetHeader(response.headers, Location)
               parts == SplitAt(url, Slash)
    <2>1. nextHost = ParseLocation(url).host /\ transformedRequest.uri = ParseLocation(url).uri
      BY <1>1, <1>5, Zenon DEF Destined
    <2>2. url \in Symbols
      <3>1. response.headers \in Seq(NonEmpty \X Symbols)
        BY <1>3 DEF ResponseType, NonEmpty
      <3>. QED
        BY <3>1, HeaderValue
    <2> HIDE DEF url
    <2>3. HasHost(parts) =>
            /\ asked.host = parts[3]
            /\ AsksForUri(IF Len(parts) = 3 THEN <<Slash>> ELSE Rest(url, Len(parts[1]) + 2 + Len(parts[3])))
      BY <1>1, <1>2, <2>1, <2>2, FollowsLocation, Zenon
    <2>4. FollowsUrl(url)
      BY <2>3, Zenon DEF FollowsUrl, HasHost
    <2>. QED
      BY <1>5, <2>4, Zenon DEF url
  <1>. QED
    BY <1>4, <1>5

-----------------------------------------------------------------------------
(***************************************************************************)
(* The answer, from here on: the text that a host sends is read back as    *)
(* the answer that it has written.                                         *)
(***************************************************************************)

(***************************************************************************)
(* Where a pattern cannot stand, Find need not look.                       *)
(***************************************************************************)
LEMMA FindLater ==
  ASSUME NEW A, NEW text \in Seq(A), NEW pattern \in Seq(A), NEW m \in Nat,
         \A k \in Nat : k < m => ~StandsAt(k, pattern, text)
  PROVE  Find(text, pattern, 0) = Find(text, pattern, m)
  <1> DEFINE r == Find(text, pattern, m)
  <1>1. Finds(text, pattern, m, r)
    BY FindIs
  <1> HIDE DEF r
  <1>2. Finds(text, pattern, 0, r)
    <2>1. CASE r = Npos
      <3>1. \A k \in Nat : k >= m => ~StandsAt(k, pattern, text)
        BY <1>1, <2>1 DEF Finds
      <3>2. \A k \in Nat : k >= 0 => ~StandsAt(k, pattern, text)
        BY <3>1
      <3>. QED
        BY <2>1, <3>2 DEF Finds
    <2>2. CASE r # Npos
      <3>1. /\ r \in Nat /\ r >= m /\ StandsAt(r, pattern, text)
            /\ \A k \in Nat : k >= m /\ k < r => ~StandsAt(k, pattern, text)
        BY <1>1, <2>2 DEF Finds
      <3>2. r >= 0 /\ \A k \in Nat : k >= 0 /\ k < r => ~StandsAt(k, pattern, text)
        BY <3>1
      <3>. QED
        BY <2>2, <3>1, <3>2 DEF Finds
    <2>. QED
      BY <2>1, <2>2
  <1>3. Find(text, pattern, 0) = r
    BY <1>2, FindUnique
  <1>. QED
    BY <1>3 DEF r

LEMMA Skips ==
  ASSUME NEW A, NEW p \in Seq(A), NEW q \in Seq(A), NEW pattern \in Seq(A), NEW c,
         Len(pattern) >= 1, pattern[1] = c, Lacks(p, c)
  PROVE  Find(p \o q, pattern, 0) = Behind(Len(p), Find(q, pattern, 0))
  <1> DEFINE t == p \o q
             m == Len(p)
             l == Len(pattern)
  <1>1. t \in Seq(A) /\ m \in Nat /\ \A j \in 1 .. m : t[j] = p[j]
    BY ConcatAt
  <1>2. Find(t, pattern, m + 0) = Behind(m, Find(q, pattern, 0))
    BY FindBehind
  <1>3. l \in Nat /\ l >= 1
    BY LenProperties
  <1> HIDE DEF t
  <1>4. ASSUME NEW k \in Nat, k < m PROVE ~StandsAt(k, pattern, t)
    <2>1. k + 1 \in 1 .. m
      BY <1>1, <1>4
    <2>2. t[k + 1] # c
      BY <1>1, <2>1 DEF Lacks
    <2> SUFFICES ASSUME \A j \in 1 .. l : t[k + j] = pattern[j] PROVE FALSE
      BY DEF StandsAt
    <2> HIDE DEF l
    <2>3. t[k + 1] = pattern[1]
      BY <1>3
    <2>. QED
      BY <2>2, <2>3
  <1>5. m + 0 = m
    <2> HIDE DEF m
    <2>. QED
      BY <1>1
  <1>6. Find(t, pattern, 0) = Find(t, pattern, m)
    <2> HIDE DEF m
    <2>. QED
      BY <1>1, <1>4, FindLater
  <1>. QED
    BY <1>2, <1>5, <1>6 DEF t

LEMMA FindHere ==
  ASSUME NEW A, NEW pattern \in Seq(A), NEW q \in Seq(A)
  PROVE  Find(pattern \o q, pattern, 0) = 0
  <1> DEFINE t == pattern \o q
             l == Len(pattern)
  <1>1. t \in Seq(A) /\ Len(t) = l + Len(q) /\ l \in Nat /\ Len(q) \in Nat
    BY ConcatAt
  <1>2. \A j \in 1 .. l : t[j] = pattern[j]
    BY ConcatAt
  <1> HIDE DEF t
  <1>3. l <= Len(t)
    <2> DEFINE n == Len(t)
               k == Len(q)
    <2>1. n = l + k /\ l \in Nat /\ k \in Nat
      BY <1>1
    <2> HIDE DEF n, k, l
    <2>2. l <= n
      BY <2>1
    <2>. QED
      BY <2>2 DEF n
  <1>4. StandsAt(0, pattern, t)
    <2> SUFFICES 0 + l <= Len(t) /\ \A j \in 1 .. l : t[0 + j] = pattern[j]
      BY Zenon DEF StandsAt
    <2> HIDE DEF l
    <2>1. 0 + l = l /\ \A j \in 1 .. l : 0 + j = j
      BY <1>1
    <2>. QED
      BY <1>2, <1>3, <2>1
  <1>5. Finds(t, pattern, 0, 0)
    <2>1. 0 # Npos /\ \A k \in Nat : ~(k < 0)
      BY DEF Npos
    <2>. QED
      BY <1>4, <2>1 DEF Finds
  <1>. QED
    BY <1>1, <1>5, FindUnique DEF t

(***************************************************************************)
(* The beginning of a text.                                                *)
(***************************************************************************)
LEMMA SubstrFirst ==
  ASSUME NEW A, NEW p \in Seq(A), NEW q \in Seq(A)
  PROVE  Substr(p \o q, 0, Len(p)) = p
  <1> DEFINE k == Len(p)
             t == p \o q
             s == SubSeq(t, 1, k)
  <1>1. t \in Seq(A) /\ Len(t) = k + Len(q) /\ k \in Nat /\ Len(q) \in Nat
    BY ConcatAt
  <1>2. \A j \in 1 .. k : t[j] = p[j]
    BY ConcatAt
  <1> HIDE DEF t
  <1>3. k <= Len(t)
    <2> DEFINE n == Len(t)
               m == Len(q)
    <2>1. n = k + m /\ k \in Nat /\ m \in Nat
      BY <1>1
    <2> HIDE DEF n, m, k
    <2>2. k <= n
      BY <2>1
    <2>. QED
      BY <2>2 DEF n
  <1>4. Substr(t, 0, k) = SubSeq(t, 0 + 1, 0 + k)
    <2> HIDE DEF k
    <2>1. 0 \in Nat /\ k \in Int /\ k >= 0 /\ 0 + k <= Len(t)
      BY <1>1, <1>3
    <2>. QED
      BY <1>1, <2>1, SubstrIs, Zenon
  <1>5. 0 + 1 = 1 /\ 0 + k = k
    <2> HIDE DEF k
    <2>. QED
      BY <1>1
  <1>6. s \in Seq(A) /\ Len(s) = k /\ \A j \in 1 .. k : s[j] = t[j]
    <2> HIDE DEF k
    <2>. QED
      BY <1>1, <1>3
  <1> HIDE DEF s
  <1>7. \A j \in 1 .. k : s[j] = p[j]
    BY <1>2, <1>6
  <1>8. s = p
    BY <1>6, <1>7, SeqEqual
  <1>. QED
    BY <1>4, <1>5, <1>8 DEF s, t

LEMMA SubstrMiddle ==
  ASSUME NEW A, NEW p \in Seq(A), NEW q \in Seq(A), NEW r \in Seq(A)
  PROVE  Substr(p \o (q \o r), Len(p), Len(q)) = q
  <1> DEFINE t == q \o r
             m == Len(p)
             k == Len(q)
  <1>1. t \in Seq(A) /\ Len(t) = k + Len(r) /\ k \in Nat /\ Len(r) \in Nat /\ m \in Nat
    BY ConcatAt, LenProperties
  <1>2. Substr(t, 0, k) = q
    BY SubstrFirst
  <1> HIDE DEF t, k
  <1>3. 0 + k <= Len(t)
    <2> DEFINE n == Len(t)
               l == Len(r)
    <2>1. n = k + l /\ k \in Nat /\ l \in Nat
      BY <1>1
    <2> HIDE DEF n, l
    <2>2. 0 + k <= n
      BY <2>1
    <2>. QED
      BY <2>2 DEF n
  <1>4. Substr(p \o t, m + 0, k) = Substr(t, 0, k)
    BY <1>1, <1>3, SubstrBehind
  <1>5. m + 0 = m
    <2> HIDE DEF m
    <2>. QED
      BY <1>1
  <1>. QED
    BY <1>2, <1>4, <1>5 DEF t, k

LEMMA RestAfter ==
  ASSUME NEW A, NEW p \in Seq(A), NEW q \in Seq(A)
  PROVE  Rest(p \o q, Len(p)) = q
  <1> DEFINE m == Len(p)
  <1>1. m \in Nat /\ Len(q) \in Nat
    BY LenProperties
  <1>2. Rest(p \o q, m + 0) = Rest(q, 0)
    BY <1>1, RestBehind
  <1>3. Rest(q, 0) = q
    <2>1. Rest(q, 0) = SubSeq(q, 0 + 1, Len(q))
      BY RestIs
    <2>. QED
      BY <2>1, SubSeqFull
  <1>4. m + 0 = m
    <2> HIDE DEF m
    <2>. QED
      BY <1>1
  <1>. QED
    BY <1>2, <1>3, <1>4

(***************************************************************************)
(* The code of a response, spelled with three digits, is read back.        *)
(***************************************************************************)
LEMMA DigitAt ==
  /\ \A k \in 1 .. 10 : Digit[k] \in Digits /\ Value(Digit[k]) = k - 1
  /\ \A d \in Digits : \E k \in 1 .. 10 : d = Digit[k]
  <1>1. DOMAIN Digit = 1 .. 10
    BY DEF Digit
  <1>2. \A j \in 1 .. 10, k \in 1 .. 10 : Digit[j] = Digit[k] => j = k
    BY DEF Digit
  <1>3. Digits = {Digit[k] : k \in 1 .. 10}
    BY <1>1 DEF Digits, Range
  <1>4. ASSUME NEW k \in 1 .. 10 PROVE Value(Digit[k]) = k - 1
    <2> DEFINE c == CHOOSE j \in 1 .. 10 : Digit[j] = Digit[k]
    <2>1. c \in 1 .. 10 /\ Digit[c] = Digit[k]
      OBVIOUS
    <2>2. Value(Digit[k]) = c - 1
      BY <1>1, Zenon DEF Value
    <2> HIDE DEF c
    <2>3. c = k
      BY <1>2, <2>1
    <2>. QED
      BY <2>2, <2>3
  <1>. QED
    BY <1>3, <1>4

LEMMA ThreeDigits ==
  ASSUME NEW a \in 1 .. 10, NEW b \in 1 .. 10, NEW c \in 1 .. 10
  PROVE  Number(<<Digit[a], Digit[b], Digit[c]>>) = 10 * (10 * (a - 1) + (b - 1)) + (c - 1)
  <1> DEFINE text == <<Digit[a], Digit[b], Digit[c]>>
             Folds(it) == it = [s \in SUBSET (1 .. 3) |->
                 IF s = {} THEN 0 ELSE LET x == Max(s) IN 10 * it[s \ {x}] + Value(text[x])]
             it == CHOOSE it : Folds(it)
             G == [x \in 1 .. 3 |-> [v \in Nat |-> 10 * v + Value(text[x])]]
  <1>1. /\ DOMAIN text = 1 .. 3
        /\ Value(text[1]) = a - 1 /\ Value(text[2]) = b - 1 /\ Value(text[3]) = c - 1
    BY DigitAt
  <1> HIDE DEF text
  <1>2. \A x \in 1 .. 3 : Value(text[x]) \in Nat
    BY <1>1
  <1>3. G \in [1 .. 3 -> [Nat -> Nat]]
    BY <1>2
  <1>4. Folds(it)
    <2>1. PICK f : IsFold(f, 3, Nat, 0, G)
      <3>1. Folding(3, Nat, 0, G)
        BY <1>3 DEF Folding
      <3> HIDE DEF G
      <3>. QED
        BY <3>1, FoldExists
    <2>2. /\ f \in [SUBSET (1 .. 3) -> Nat]
          /\ \A s \in SUBSET (1 .. 3) :
               f[s] = IF s = {} THEN 0 ELSE G[Max(s)][f[s \ {Max(s)}]]
      <3> HIDE DEF G
      <3>. QED
        BY <2>1 DEF IsFold
    <2>3. ASSUME NEW s \in SUBSET (1 .. 3), s # {}
          PROVE  f[s] = 10 * f[s \ {Max(s)}] + Value(text[Max(s)])
      <3>1. Max(s) \in 1 .. 3
        BY <2>3, MaxOfPositions
      <3>2. f[s \ {Max(s)}] \in Nat
        BY <2>2
      <3>3. f[s] = G[Max(s)][f[s \ {Max(s)}]]
        BY <2>2, <2>3
      <3>. QED
        BY <3>1, <3>2, <3>3
    <2>4. Folds(f)
      <3>1. f \in [SUBSET (1 .. 3) -> Nat]
        BY <2>2
      <3>2. \A s \in SUBSET (1 .. 3) : f[s] =
              IF s = {} THEN 0 ELSE LET x == Max(s) IN 10 * f[s \ {x}] + Value(text[x])
        BY <2>2, <2>3
      <3> HIDE DEF G
      <3>. QED
        BY <3>1, <3>2
    <2> HIDE DEF Folds
    <2>. QED
      BY <2>4
  <1>5. Number(text) = it[1 .. 3]
    <2>1. [k \in DOMAIN text |-> text[k]] = text
      BY DEF text
    <2>. QED
      BY <1>1 DEF Number, FoldLeft, MapThenFoldSet
  <1> HIDE DEF it
  <1>6. ASSUME NEW k \in 1 .. 3 PROVE it[1 .. k] = 10 * it[1 .. k - 1] + Value(text[k])
    <2>1. /\ (1 .. k) \in SUBSET (1 .. 3) /\ 1 .. k # {}
          /\ Max(1 .. k) = k /\ (1 .. k) \ {k} = 1 .. k - 1
      BY Positions
    <2>. QED
      BY <1>4, <2>1, Zenon
  <1>7. it[1 .. 0] = 0
    <2>1. 1 .. 0 = {} /\ {} \in SUBSET (1 .. 3)
      OBVIOUS
    <2>2. it[{}] = 0
      BY <1>4, <2>1, Zenon
    <2>. QED
      BY <2>1, <2>2
  <1> HIDE DEF Folds
  <1>8. it[1 .. 1] = a - 1
    <2>1. it[1 .. 1] = 10 * it[1 .. 1 - 1] + Value(text[1])
      BY <1>6
    <2>2. 1 - 1 = 0
      OBVIOUS
    <2>. QED
      BY <1>1, <1>7, <2>1, <2>2
  <1>9. it[1 .. 2] = 10 * (a - 1) + (b - 1)
    <2>1. it[1 .. 2] = 10 * it[1 .. 2 - 1] + Value(text[2])
      BY <1>6
    <2>2. 2 - 1 = 1
      OBVIOUS
    <2>. QED
      BY <1>1, <1>8, <2>1, <2>2
  <1>10. it[1 .. 3] = 10 * (10 * (a - 1) + (b - 1)) + (c - 1)
    <2>1. it[1 .. 3] = 10 * it[1 .. 3 - 1] + Value(text[3])
      BY <1>6
    <2>2. 3 - 1 = 2
      OBVIOUS
    <2>. QED
      BY <1>1, <1>9, <2>1, <2>2
  <1>. QED
    BY <1>5, <1>10 DEF text

LEMMA SpelledCode ==
  ASSUME NEW code \in Codes
  PROVE  /\ Spelled(code) \in Seq(Digits) /\ Len(Spelled(code)) = 3
         /\ ~CodeThrows(Spelled(code)) /\ CodeNumber(Spelled(code)) = code
  <1> DEFINE a == (code \div 100) + 1
             b == ((code \div 10) % 10) + 1
             c == (code % 10) + 1
             word == Spelled(code)
  <1>1. a \in 1 .. 10 /\ b \in 1 .. 10 /\ c \in 1 .. 10
        /\ 10 * (10 * (a - 1) + (b - 1)) + (c - 1) = code
    BY DEF Codes
  <1>2. word = <<Digit[a], Digit[b], Digit[c]>>
    BY Zenon DEF Spelled
  <1> HIDE DEF a, b, c, word
  <1>3. Digit[a] \in Digits /\ Digit[b] \in Digits /\ Digit[c] \in Digits
    BY <1>1, DigitAt
  <1>4. word \in Seq(Digits) /\ Len(word) = 3 /\ word[1] \in Digits
    BY <1>2, <1>3
  <1>5. ~CodeThrows(word)
    BY <1>4 DEF CodeThrows
  <1>6. SelectInSeq(word, LAMBDA d : d \notin Digits) = 0
    <2>1. \A k \in 1 .. Len(word) : word[k] \in Digits
      BY <1>4, ElementOfSeq
    <2>2. {k \in 1 .. Len(word) : word[k] \notin Digits} = {}
      BY <2>1
    <2>. QED
      BY <2>2, Zenon DEF SelectInSeq
  <1>7. CodeNumber(word) = Number(word)
    BY <1>6, Zenon DEF CodeNumber
  <1>8. Number(word) = 10 * (10 * (a - 1) + (b - 1)) + (c - 1)
    BY <1>1, <1>2, ThreeDigits
  <1>. QED
    BY <1>1, <1>4, <1>5, <1>7, <1>8 DEF word

-----------------------------------------------------------------------------
(***************************************************************************)
(* The status line.                                                        *)
(***************************************************************************)
Quiet == Characters \ {"\r"}

LEMMA QuietText ==
  ASSUME NEW s \in Seq(Quiet)
  PROVE  s \in Symbols /\ s \in Seq(Characters) /\ Lacks(s, "\r")
BY WithoutLacks DEF Quiet, Symbols

LEMMA ConcatQuiet ==
  ASSUME NEW A, NEW a \in Seq(A), NEW b \in Seq(A)
  PROVE  a \o b \in Seq(A)
BY ConcatProperties

LEMMA QuietLiterals ==
  /\ Http10 \in Seq(Quiet) /\ <<" ">> \in Seq(Quiet) /\ <<"reason">> \in Seq(Quiet)
  /\ <<":">> \in Seq(Quiet) /\ Lacks(Http10, " ") /\ Digits \subseteq Quiet /\ " " \notin Digits
  <1>1. /\ "H" \in Quiet /\ "T" \in Quiet /\ "P/1.0" \in Quiet /\ " " \in Quiet /\ "reason" \in Quiet
        /\ ":" \in Quiet
    BY TextAssumption DEF Written, Quiet
  <1>2. Digits \subseteq Quiet /\ " " \notin Digits
    <2>1. Digits = {Digit[k] : k \in 1 .. 10}
      <3>1. DOMAIN Digit = 1 .. 10
        BY DEF Digit
      <3>. QED
        BY <3>1 DEF Digits, Range
    <2>2. \A k \in 1 .. 10 : Digit[k] # "\r" /\ Digit[k] # " "
      <3>1. \A k \in 1 .. 10 : Digit[k] \in {"0", "1", "2", "3", "4", "5", "6", "7", "8", "9"}
        <4>1. \A k \in 1 .. 10 : k \in {1, 2, 3, 4, 5, 6, 7, 8, 9, 10}
          OBVIOUS
        <4>. QED
          BY <4>1 DEF Digit
      <3>. QED
        BY <3>1
    <2>3. Digits \subseteq Characters
      BY TextAssumption
    <2>. QED
      BY <2>1, <2>2, <2>3 DEF Quiet
  <1>3. Http10 \in Seq(Quiet)
    <2>1. \A a \in Quiet, b \in Quiet, c \in Quiet, d \in Quiet : <<a, b, c, d>> \in Seq(Quiet)
      OBVIOUS
    <2>. QED
      BY <1>1, <2>1, Zenon DEF Http10
  <1>4. Lacks(Http10, " ")
    <2>1. Len(Http10) = 4 /\ Http10[1] = "H" /\ Http10[2] = "T" /\ Http10[3] = "T" /\ Http10[4] = "P/1.0"
      BY DEF Http10
    <2> DEFINE n == Len(Http10)
    <2> HIDE DEF n
    <2>2. \A k \in 1 .. n : Http10[k] # " "
      <3>1. n = 4
        BY <2>1 DEF n
      <3>2. \A k \in 1 .. n : k \in {1, 2, 3, 4}
        BY <3>1
      <3>. QED
        BY <2>1, <3>2
    <2>. QED
      BY <2>2 DEF Lacks, n
  <1>. QED
    BY <1>1, <1>2, <1>3, <1>4, OneIs

StatusLine(code) == Http10 \o (<<" ">> \o (Spelled(code) \o (<<" ">> \o <<"reason">>)))

LEMMA StatusLineType ==
  ASSUME NEW code \in Codes
  PROVE  /\ Spelled(code) \in Seq(Quiet) /\ Lacks(Spelled(code), " ")
         /\ StatusLine(code) \in Seq(Quiet)
  <1> DEFINE sp == <<" ">>
             re == <<"reason">>
             word == Spelled(code)
  <1>1. word \in Seq(Digits)
    BY SpelledCode
  <1>2. word \in Seq(Quiet)
    BY <1>1, QuietLiterals, Letters
  <1>3. Lacks(word, " ")
    <2>1. \A k \in 1 .. Len(word) : word[k] \in Digits
      BY <1>1, ElementOfSeq
    <2>. QED
      BY <2>1, QuietLiterals DEF Lacks
  <1>4. sp \in Seq(Quiet) /\ re \in Seq(Quiet) /\ Http10 \in Seq(Quiet)
    BY QuietLiterals
  <1> HIDE DEF sp, re, word
  <1>5. sp \o re \in Seq(Quiet)
    BY <1>4, ConcatQuiet
  <1>6. word \o (sp \o re) \in Seq(Quiet)
    BY <1>2, <1>5, ConcatQuiet
  <1>7. sp \o (word \o (sp \o re)) \in Seq(Quiet)
    BY <1>4, <1>6, ConcatQuiet
  <1>8. Http10 \o (sp \o (word \o (sp \o re))) \in Seq(Quiet)
    BY <1>4, <1>7, ConcatQuiet
  <1>. QED
    BY <1>2, <1>3, <1>8 DEF StatusLine, sp, re, word

LEMMA LineEndAt ==
  /\ CRLF \in Seq(Characters) /\ Len(CRLF) = 2 /\ Len(CRLF) >= 1 /\ CRLF[1] = "\r" /\ CRLF[2] = "\n"
  <1>1. "\r" \in Characters /\ "\n" \in Characters
    BY TextAssumption DEF Written
  <1>. QED
    BY <1>1 DEF CRLF

LEMMA CodeTextIs ==
  ASSUME NEW code \in Codes, NEW y \in Symbols
  PROVE  LET t == StatusLine(code) \o (CRLF \o y)
         IN Find(t, CRLF, 0) = Len(StatusLine(code)) /\ CodeText(t) = Spelled(code)
  <1> DEFINE A == Characters
             c == " "
             sp == <<c>>
             re == <<"reason">>
             word == Spelled(code)
             behind == word \o (sp \o re)
             line == StatusLine(code)
             rest == CRLF \o y
             t == line \o rest
             v == Len(Http10)
             k == Len(word)
             head == Http10 \o sp
  <1>1. /\ c \in A /\ sp \in Seq(A) /\ Len(sp) = 1 /\ re \in Seq(A) /\ Http10 \in Seq(A) /\ Lacks(Http10, c)
        /\ word \in Seq(A) /\ Lacks(word, c) /\ line \in Seq(A) /\ Lacks(line, "\r")
    <2>1. c \in A
      BY TextAssumption DEF Written
    <2>. QED
      BY <2>1, QuietLiterals, QuietText, StatusLineType, OneIs
  <1>2. CRLF \in Seq(A) /\ y \in Seq(A)
    BY LineEndAt DEF Symbols
  <1> HIDE DEF A, c, sp, re, word, line
  <1>3. rest \in Seq(A)
    BY <1>2, ConcatQuiet
  <1>4. Find(t, CRLF, 0) = Len(line)
    <2>1. Find(rest, CRLF, 0) = 0
      BY <1>2, FindHere
    <2>2. Find(t, CRLF, 0) = Behind(Len(line), Find(rest, CRLF, 0))
      <3> HIDE DEF rest
      <3>. QED
        BY <1>1, <1>2, <1>3, LineEndAt, Skips
    <2>3. Len(line) \in Nat
      BY <1>1, LenProperties
    <2>4. \A n \in Nat : Behind(n, 0) = n
      BY DEF Behind, Npos
    <2>. QED
      BY <2>1, <2>2, <2>3, <2>4
  <1>5. Substr(t, 0, Len(line)) = line
    <2> HIDE DEF rest
    <2>. QED
      BY <1>1, <1>3, SubstrFirst
  <1>6. behind \in Seq(A) /\ sp \o behind \in Seq(A) /\ sp \o re \in Seq(A)
    BY <1>1, ConcatQuiet
  <1>7. line = Http10 \o (sp \o behind)
    BY Zenon DEF line, StatusLine, sp, re, word, c
  <1>8. Find(line, sp, 0) = v
    <2> HIDE DEF behind, v
    <2>1. Find(Http10 \o (<<c>> \o behind), <<c>>, 0) = Len(Http10)
      BY <1>1, <1>6, FindFirst
    <2>. QED
      BY <1>7, <2>1 DEF sp, v
  <1>9. line = head \o behind /\ head \in Seq(A) /\ Len(head) = v + 1 /\ v \in Nat
    <2> HIDE DEF behind
    <2>1. Regroups(Http10, sp, behind)
      BY <1>1, <1>6, Regroup
    <2>2. head \in Seq(A) /\ Len(head) = Len(Http10) + Len(sp) /\ Len(Http10) \in Nat
      BY <1>1, ConcatAt
    <2>. QED
      BY <1>1, <1>7, <2>1, <2>2 DEF Regroups
  <1>10. Find(behind, sp, 0) = k
    <2>1. Find(word \o (<<c>> \o re), <<c>>, 0) = Len(word)
      BY <1>1, FindFirst
    <2>. QED
      BY <2>1 DEF sp
  <1>11. k \in Nat
    BY <1>1, LenProperties
  <1> HIDE DEF k, v, head
  <1>12. Find(line, sp, v + 1) = v + 1 + k
    <2> HIDE DEF behind
    <2>1. Find(head \o behind, sp, Len(head) + 0) = Behind(Len(head), Find(behind, sp, 0))
      BY <1>1, <1>6, <1>9, FindBehind
    <2>2. Len(head) + 0 = v + 1 /\ Behind(Len(head), k) = v + 1 + k
      BY <1>9, <1>11 DEF Behind, Npos
    <2>. QED
      BY <1>9, <1>10, <2>1, <2>2
  <1>13. Substr(line, v + 1, k) = word
    <2> DEFINE r == sp \o re
    <2> HIDE DEF r
    <2>1. r \in Seq(A) /\ behind = word \o r
      BY <1>6 DEF r
    <2>2. Substr(head \o (word \o r), Len(head), Len(word)) = word
      BY <1>1, <1>9, <2>1, SubstrMiddle
    <2>. QED
      BY <1>9, <2>1, <2>2 DEF k
  <1>14. CodeText(t) = Substr(line, v + 1, (v + 1 + k) - v - 1)
    <2> HIDE DEF t
    <2>1. CodeText(t) = LET l == Substr(t, 0, Find(t, CRLF, 0))
                            n == Find(l, <<" ">>, 0)
                        IN Substr(l, n + 1, Find(l, <<" ">>, n + 1) - n - 1)
      BY Zenon DEF CodeText
    <2>2. Substr(t, 0, Find(t, CRLF, 0)) = line
      BY <1>4, <1>5
    <2>3. Find(line, <<" ">>, 0) = v /\ Find(line, <<" ">>, v + 1) = v + 1 + k
      BY <1>8, <1>12 DEF sp, c
    <2>. QED
      BY <2>1, <2>2, <2>3
  <1>15. (v + 1 + k) - v - 1 = k
    BY <1>9, <1>11
  <1>. QED
    BY <1>4, <1>13, <1>14, <1>15 DEF word, line

-----------------------------------------------------------------------------
(***************************************************************************)
(* The header lines of an answer: name and value without carriage return,  *)
(* and the name without colon.  A text that begins with one does not begin *)
(* with a carriage return, so no empty line stands before its end.         *)
(***************************************************************************)
Named == {s \in Seq(Quiet) : s # <<>> /\ Lacks(s, ":")}
ReplyHeaders == Named \X (Seq(Quiet) \ {<<>>})
Pair(h) == h[1] \o (ColonSpace \o h[2])
EndField == [h \in ReplyHeaders |-> Pair(h) \o CRLF]
FieldsText(hs) == FlattenSeq(Applied(hs, EndField))
Starts == {q \in Symbols : q # <<>> /\ q[1] # "\r"}
EmptyLine == CRLF \o CRLF

LEMMA ConcatNamed ==
  ASSUME NEW A, NEW p \in Seq(A), NEW q \in Seq(A), NEW t, t = p \o q, NEW m, m = Len(p)
  PROVE  /\ t \in Seq(A) /\ Len(t) = m + Len(q) /\ m \in Nat /\ Len(q) \in Nat
         /\ \A j \in 1 .. m : t[j] = p[j]
         /\ \A j \in 1 .. Len(q) : t[m + j] = q[j]
  BY ConcatAt

LEMMA ColonSpaceIs ==
  /\ ColonSpace \in Seq(Quiet) /\ ColonSpace \in Seq(Characters) /\ Len(ColonSpace) = 2
  /\ Len(ColonSpace) >= 1 /\ ColonSpace[1] = ":" /\ ColonSpace = <<":">> \o <<" ">>
  <1>1. ":" \in Quiet /\ " " \in Quiet
    BY TextAssumption DEF Written, Quiet
  <1>2. \A a \in Quiet, b \in Quiet : <<a, b>> \in Seq(Quiet)
    OBVIOUS
  <1>3. ColonSpace \in Seq(Quiet)
    BY <1>1, <1>2, Zenon DEF ColonSpace
  <1>4. ColonSpace = <<":">> \o <<" ">>
    BY <1>1, TwoAre, Zenon DEF ColonSpace
  <1>5. Len(ColonSpace) = 2 /\ Len(ColonSpace) >= 1 /\ ColonSpace[1] = ":"
    BY DEF ColonSpace
  <1>. QED
    BY <1>3, <1>4, <1>5, QuietText

LEMMA EmptyLineIs ==
  /\ EmptyLine \in Seq(Characters) /\ Len(EmptyLine) = 4 /\ Len(EmptyLine) >= 1
  /\ EmptyLine[1] = "\r" /\ EmptyLine[3] = "\r"
  <1> DEFINE c == CRLF
  <1>1. c \in Seq(Characters) /\ Len(c) = 2 /\ c[1] = "\r"
    BY LineEndAt
  <1> HIDE DEF c
  <1>2. c \o c \in Seq(Characters) /\ Len(c \o c) = 4 /\ (c \o c)[1] = "\r" /\ (c \o c)[3] = "\r"
    <2> DEFINE t == c \o c
               m == Len(c)
    <2>0. t = c \o c /\ m = Len(c) /\ c \in Seq(Characters)
      BY <1>1
    <2>3. m = 2
      BY <1>1
    <2> HIDE DEF t, m
    <2>1. t \in Seq(Characters) /\ Len(t) = m + m
      BY <2>0, ConcatNamed
    <2>2. (\A j \in 1 .. m : t[j] = c[j]) /\ \A j \in 1 .. m : t[m + j] = c[j]
      BY <2>0, ConcatNamed
    <2>4. Len(t) = 4 /\ t[1] = c[1] /\ t[2 + 1] = c[1]
      BY <2>1, <2>2, <2>3
    <2>5. t[3] = c[1]
      BY <2>4
    <2>. QED
      BY <1>1, <2>1, <2>4, <2>5 DEF t
  <1>3. EmptyLine = c \o c
    BY DEF EmptyLine, c
  <1> DEFINE d == EmptyLine
             n == Len(d)
  <1>4. d \in Seq(Characters) /\ n = 4 /\ d[1] = "\r" /\ d[3] = "\r"
    BY <1>2, <1>3
  <1> HIDE DEF d, n
  <1>5. n >= 1
    BY <1>4
  <1>. QED
    BY <1>4, <1>5 DEF d, n

LEMMA PairIs ==
  ASSUME NEW x \in ReplyHeaders
  PROVE  /\ x[1] \in Named /\ x[1] \in Seq(Quiet) /\ x[1] # <<>> /\ Lacks(x[1], ":")
         /\ x[2] \in Seq(Quiet) /\ x[2] # <<>> /\ x = <<x[1], x[2]>>
         /\ Pair(x) \in Seq(Quiet) /\ Pair(x) # <<>> /\ Len(Pair(x)) = Len(x[1]) + 2 + Len(x[2])
  <1> DEFINE name == x[1]
             value == x[2]
             co == ColonSpace
             rest == co \o value
             pair == name \o rest
  <1>1. /\ name \in Named /\ name \in Seq(Quiet) /\ name # <<>> /\ Lacks(name, ":")
        /\ value \in Seq(Quiet) /\ value # <<>> /\ x = <<name, value>>
    BY DEF ReplyHeaders, Named
  <1>2. co \in Seq(Quiet) /\ Len(co) = 2
    BY ColonSpaceIs
  <1> HIDE DEF name, value, co
  <1>3. rest \in Seq(Quiet) /\ Len(rest) = Len(co) + Len(value) /\ Len(value) \in Nat
    BY <1>1, <1>2, ConcatAt
  <1> HIDE DEF rest
  <1>4. pair \in Seq(Quiet) /\ Len(pair) = Len(name) + Len(rest) /\ Len(name) \in Nat
    BY <1>1, <1>3, ConcatAt
  <1>5. Len(name) # 0
    BY <1>1, EmptySeq
  <1> HIDE DEF pair
  <1>6. Len(pair) = Len(name) + 2 + Len(value) /\ Len(pair) # 0
    BY <1>2, <1>3, <1>4, <1>5
  <1>7. pair # <<>>
    BY <1>6, EmptySeq
  <1>8. Pair(x) = pair
    BY DEF Pair, pair, rest, co, name, value
  <1>. QED
    BY <1>1, <1>4, <1>6, <1>7, <1>8 DEF name, value

LEMMA StartsWith ==
  ASSUME NEW p \in Seq(Quiet), p # <<>>, NEW q \in Symbols
  PROVE  p \o q \in Starts
  <1> DEFINE t == p \o q
             m == Len(p)
  <1>1. p \in Seq(Characters) /\ Lacks(p, "\r") /\ q \in Seq(Characters)
    BY QuietText DEF Symbols
  <1>2. m # 0 /\ m \in Nat
    BY LenProperties, EmptySeq
  <1>3. t \in Seq(Characters) /\ Len(t) = m + Len(q) /\ Len(q) \in Nat
    BY <1>1, ConcatAt
  <1>4. \A j \in 1 .. m : t[j] = p[j]
    BY <1>1, ConcatAt
  <1> HIDE DEF t
  <1>5. \A j \in 1 .. m : p[j] # "\r"
    BY <1>1 DEF Lacks
  <1>6. Len(t) # 0
    <2> DEFINE n == Len(t)
               k == Len(q)
    <2>1. n = m + k /\ k \in Nat
      BY <1>3
    <2> HIDE DEF n, k, m
    <2>2. n # 0
      BY <1>2, <2>1
    <2>. QED
      BY <2>2 DEF n
  <1> HIDE DEF m
  <1>7. t[1] # "\r"
    <2>1. 1 \in 1 .. m
      BY <1>2
    <2>. QED
      BY <1>4, <1>5, <2>1
  <1>8. t # <<>>
    BY <1>3, <1>6, EmptySeq
  <1>. QED
    BY <1>3, <1>7, <1>8 DEF Starts, Symbols, t

LEMMA BehindAgain ==
  ASSUME NEW m \in Nat, NEW n \in Nat, NEW r \in Nat \cup {Npos}
  PROVE  Behind(m, Behind(n, r)) = Behind(m + n, r)
  <1>1. CASE r = Npos
    BY <1>1 DEF Behind
  <1>2. CASE r # Npos
    <2>1. n + r \in Nat /\ n + r # Npos /\ m + (n + r) = (m + n) + r
      BY <1>2 DEF Npos
    <2>. QED
      BY <1>2, <2>1 DEF Behind
  <1>. QED
    BY <1>1, <1>2

LEMMA SkipEnd ==
  ASSUME NEW q \in Starts
  PROVE  Find(CRLF \o q, EmptyLine, 0) = Behind(2, Find(q, EmptyLine, 0))
  <1> DEFINE A == Characters
             c == CRLF
             t == c \o q
             m == Len(c)
             d == EmptyLine
  <1>1. c \in Seq(A) /\ m = 2 /\ c[2] = "\n" /\ q \in Seq(A) /\ q # <<>> /\ q[1] # "\r"
    BY LineEndAt DEF Starts, Symbols
  <1>2. d \in Seq(A) /\ Len(d) = 4 /\ d[1] = "\r" /\ d[3] = "\r"
    BY EmptyLineIs
  <1>3. Len(q) \in Nat /\ Len(q) # 0
    BY <1>1, LenProperties, EmptySeq
  <1> HIDE DEF c, d, A
  <1>4. t \in Seq(A) /\ t[2] = "\n" /\ t[3] = q[1]
    <2>0. t = c \o q /\ m = Len(c) /\ c \in Seq(A) /\ q \in Seq(A)
      BY <1>1
    <2> HIDE DEF t, m
    <2>1. t \in Seq(A) /\ (\A j \in 1 .. m : t[j] = c[j])
      BY <2>0, ConcatNamed
    <2>2. \A j \in 1 .. Len(q) : t[m + j] = q[j]
      BY <2>0, ConcatNamed
    <2>3. t[2] = c[2] /\ t[2 + 1] = q[1]
      BY <1>1, <1>3, <2>1, <2>2
    <2>. QED
      BY <1>1, <2>1, <2>3
  <1> HIDE DEF t, m
  <1>5. ASSUME NEW k \in Nat, k < 2 PROVE ~StandsAt(k, d, t)
    <2> DEFINE l == Len(d)
    <2>1. l = 4
      BY <1>2
    <2> HIDE DEF l
    <2> SUFFICES ASSUME \A j \in 1 .. l : t[k + j] = d[j] PROVE FALSE
      BY DEF StandsAt, l
    <2>2. t[k + 1] = d[1] /\ t[k + 3] = d[3]
      BY <2>1
    <2>3. k = 0 \/ k = 1
      BY <1>5
    <2>4. CASE k = 0
      <3>1. t[3] = d[3]
        BY <2>2, <2>4
      <3>. QED
        BY <1>1, <1>2, <1>4, <3>1
    <2>5. CASE k = 1
      <3>1. t[2] = d[1]
        BY <2>2, <2>5
      <3>. QED
        BY <1>2, <1>4, <3>1
    <2>. QED
      BY <2>3, <2>4, <2>5
  <1>6. Find(t, d, 0) = Find(t, d, 2)
    BY <1>2, <1>4, <1>5, FindLater
  <1>7. Find(t, d, m + 0) = Behind(m, Find(q, d, 0))
    <2>1. t = c \o q /\ m = Len(c)
      BY DEF t, m
    <2>2. Find(c \o q, d, Len(c) + 0) = Behind(Len(c), Find(q, d, 0))
      BY <1>1, <1>2, FindBehind
    <2>. QED
      BY <2>1, <2>2, Zenon
  <1>8. m + 0 = 2
    BY <1>1
  <1>. QED
    BY <1>1, <1>6, <1>7, <1>8 DEF t, c, d

LEMMA SkipLine ==
  ASSUME NEW p \in Seq(Quiet), NEW q \in Starts
  PROVE  Find(p \o (CRLF \o q), EmptyLine, 0) = Behind(Len(p) + 2, Find(q, EmptyLine, 0))
  <1> DEFINE A == Characters
             c == CRLF
             d == EmptyLine
             rest == c \o q
             r == Find(q, d, 0)
  <1>1. p \in Seq(A) /\ Lacks(p, "\r") /\ Len(p) \in Nat
    BY QuietText, LenProperties
  <1>2. c \in Seq(A) /\ q \in Seq(A)
    BY LineEndAt DEF Starts, Symbols
  <1>3. d \in Seq(A) /\ Len(d) >= 1 /\ d[1] = "\r"
    BY EmptyLineIs
  <1>4. Find(rest, d, 0) = Behind(2, r)
    BY SkipEnd
  <1>5. r \in Nat \cup {Npos}
    BY FindType
  <1> HIDE DEF A, c, d, r
  <1>6. rest \in Seq(A)
    BY <1>2, ConcatQuiet
  <1> HIDE DEF rest
  <1>7. Find(p \o rest, d, 0) = Behind(Len(p), Find(rest, d, 0))
    BY <1>1, <1>3, <1>6, Skips
  <1>8. Behind(Len(p), Behind(2, r)) = Behind(Len(p) + 2, r)
    BY <1>1, <1>5, BehindAgain
  <1>. QED
    BY <1>4, <1>7, <1>8 DEF rest, c, d, r

(***************************************************************************)
(* The header lines of an answer, one behind the other, and where the      *)
(* empty line behind them is found.                                        *)
(***************************************************************************)
LEMMA EndFieldIs ==
  ASSUME NEW x \in ReplyHeaders
  PROVE  /\ EndField[x] = Pair(x) \o CRLF /\ EndField[x] \in Seq(Characters)
         /\ Pair(x) \in Seq(Characters)
         /\ EndField[x] = ((x[1] \o ColonSpace) \o x[2]) \o CRLF
  <1> DEFINE A == Characters
             name == x[1]
             value == x[2]
             co == ColonSpace
             p == Pair(x)
  <1>1. EndField[x] = p \o CRLF
    BY DEF EndField
  <1>2. /\ name \in Seq(A) /\ value \in Seq(A) /\ co \in Seq(A) /\ p \in Seq(A) /\ p = name \o (co \o value)
    BY PairIs, QuietText, ColonSpaceIs DEF Pair
  <1> HIDE DEF name, value, co, p
  <1>3. p \o CRLF \in Seq(A)
    BY <1>2, LineEndAt, ConcatQuiet
  <1>4. (name \o co) \o value = p
    <2>1. Regroups(name, co, value)
      BY <1>2, Regroup
    <2>. QED
      BY <1>2, <2>1 DEF Regroups
  <1>. QED
    BY <1>1, <1>2, <1>3, <1>4 DEF name, value, co, p

LEMMA EndFieldMaps == Maps(EndField, ReplyHeaders, Seq(Characters))
  <1>1. \A x \in ReplyHeaders : Pair(x) \o CRLF \in Seq(Characters)
    <2> SUFFICES ASSUME NEW x \in ReplyHeaders PROVE Pair(x) \o CRLF \in Seq(Characters)
      OBVIOUS
    <2>. QED
      BY EndFieldIs
  <1> DEFINE F(x) == Pair(x) \o CRLF
  <1>2. EndField = [x \in ReplyHeaders |-> F(x)] /\ \A x \in ReplyHeaders : F(x) \in Seq(Characters)
    BY <1>1 DEF EndField
  <1> HIDE DEF F
  <1>3. EndField \in [ReplyHeaders -> Seq(Characters)]
    BY <1>2
  <1>. QED
    BY <1>3 DEF Maps

LEMMA FieldsTextIs ==
  ASSUME NEW hs \in Seq(ReplyHeaders)
  PROVE  HeaderText(hs) = FieldsText(hs) /\ FieldsText(hs) \in Symbols
  <1> DEFINE F(k) == hs[k][1] \o ColonSpace \o hs[k][2] \o CRLF
             G(k) == EndField[hs[k]]
  <1>1. \A k \in DOMAIN hs : hs[k] \in ReplyHeaders
    BY LenProperties, ElementOfSeq
  <1>2. ASSUME NEW k \in DOMAIN hs PROVE F(k) = G(k)
    BY <1>1, EndFieldIs
  <1>3. HeaderText(hs) = FlattenSeq([k \in DOMAIN hs |-> F(k)])
    BY Zenon DEF HeaderText
  <1>4. FieldsText(hs) = FlattenSeq([k \in DOMAIN hs |-> G(k)])
    BY Zenon DEF FieldsText, Applied
  <1> HIDE DEF F, G
  <1>5. [k \in DOMAIN hs |-> F(k)] = [k \in DOMAIN hs |-> G(k)]
    BY <1>2
  <1>6. FieldsText(hs) \in Seq(Characters)
    BY EndFieldMaps, FlattenAppliedType DEF FieldsText
  <1>. QED
    BY <1>3, <1>4, <1>5, <1>6 DEF Symbols

LEMMA FieldsAppended ==
  ASSUME NEW b \in Seq(ReplyHeaders), NEW x \in ReplyHeaders
  PROVE  /\ Append(b, x) \in Seq(ReplyHeaders)
         /\ FieldsText(Append(b, x)) = FieldsText(b) \o (Pair(x) \o CRLF)
  <1>1. FieldsText(Append(b, x)) = FieldsText(b) \o EndField[x]
    BY EndFieldMaps, FlattenApplied DEF FieldsText
  <1>2. EndField[x] = Pair(x) \o CRLF
    BY EndFieldIs
  <1>. QED
    BY <1>1, <1>2, AppendProperties

LEMMA FieldsNone == FieldsText(<<>>) = <<>>
BY AppliedEmpty DEF FieldsText

LEMMA EmptyLineBehind ==
  ASSUME NEW b \in Seq(ReplyHeaders), NEW q \in Starts
  PROVE  /\ FieldsText(b) \o q \in Starts
         /\ Find(FieldsText(b) \o q, EmptyLine, 0) = Behind(Len(FieldsText(b)), Find(q, EmptyLine, 0))
  <1> DEFINE Goal(s, r) == /\ FieldsText(s) \o r \in Starts
                           /\ Find(FieldsText(s) \o r, EmptyLine, 0)
                                = Behind(Len(FieldsText(s)), Find(r, EmptyLine, 0))
             P == {s \in Seq(ReplyHeaders) : \A r \in Starts : Goal(s, r)}
  <1>1. <<>> \in P
    <2>1. ASSUME NEW r \in Starts PROVE Goal(<<>>, r)
      <3> DEFINE n == Find(r, EmptyLine, 0)
      <3>1. <<>> \o r = r /\ Len(<<>>) = 0
        <4>1. r \in Seq(Characters)
          BY DEF Starts, Symbols
        <4>. QED
          BY <4>1, ConcatEmptySeq, EmptySeq
      <3>2. n \in Nat \cup {Npos}
        BY FindType
      <3> HIDE DEF n
      <3>3. Behind(0, n) = n
        BY <3>2 DEF Behind
      <3>. QED
        BY <3>1, <3>3, FieldsNone DEF n
    <2>2. <<>> \in Seq(ReplyHeaders)
      BY EmptySeq
    <2> HIDE DEF Goal
    <2>. QED
      BY <2>1, <2>2
  <1>2. ASSUME NEW s \in Seq(ReplyHeaders), s \in P, NEW x \in ReplyHeaders PROVE Append(s, x) \in P
    <2>1. ASSUME NEW r \in Starts PROVE Goal(Append(s, x), r)
      <3> DEFINE A == Characters
                 a == FieldsText(s)
                 p == Pair(x)
                 c == CRLF
                 line == p \o c
                 u == p \o (c \o r)
                 n == Find(r, EmptyLine, 0)
                 whole == FieldsText(Append(s, x))
      <3>1. /\ a \in Seq(A) /\ p \in Seq(A) /\ c \in Seq(A) /\ Len(c) = 2 /\ r \in Seq(A) /\ p \in Seq(Quiet)
            /\ p # <<>>
        BY FieldsTextIs, EndFieldIs, PairIs, LineEndAt DEF Symbols, Starts
      <3>2. whole = a \o line /\ Append(s, x) \in Seq(ReplyHeaders)
        BY FieldsAppended
      <3>3. Find(u, EmptyLine, 0) = Behind(Len(p) + 2, n)
        BY <3>1, SkipLine
      <3>4. n \in Nat \cup {Npos}
        BY FindType
      <3>5. \A t \in Starts : Goal(s, t)
        BY <1>2
      <3> HIDE DEF Goal, A, a, p, c, n, whole
      <3>6. u \in Starts
        <4>1. c \o r \in Seq(A)
          BY <3>1, ConcatQuiet
        <4>. QED
          BY <3>1, <4>1, StartsWith DEF A, Symbols
      <3>7. line \in Seq(A) /\ Len(line) = Len(p) + 2 /\ Len(p) \in Nat /\ Len(a) \in Nat
        <4>1. line \in Seq(A) /\ Len(line) = Len(p) + Len(c) /\ Len(p) \in Nat
          BY <3>1, ConcatAt
        <4>2. Len(a) \in Nat
          BY <3>1, LenProperties
        <4> HIDE DEF line
        <4>. QED
          BY <3>1, <4>1, <4>2
      <3>8. whole \o r = a \o u
        <4>1. Regroups(a, line, r)
          <5> HIDE DEF line
          <5>. QED
            BY <3>1, <3>7, Regroup
        <4>2. Regroups(p, c, r)
          BY <3>1, Regroup
        <4>. QED
          BY <3>2, <4>1, <4>2, Zenon DEF Regroups
      <3>9. Len(whole) = Len(a) + (Len(p) + 2)
        <4> HIDE DEF line
        <4>1. Len(a \o line) = Len(a) + Len(line)
          BY <3>1, <3>7, ConcatAt
        <4>. QED
          BY <3>2, <3>7, <4>1, Zenon
      <3> HIDE DEF line, u
      <3>10. a \o u \in Starts /\ Find(a \o u, EmptyLine, 0) = Behind(Len(a), Find(u, EmptyLine, 0))
        BY <3>5, <3>6, Zenon DEF Goal, a
      <3>11. Behind(Len(a), Behind(Len(p) + 2, n)) = Behind(Len(a) + (Len(p) + 2), n)
        <4>1. Len(p) + 2 \in Nat
          BY <3>7
        <4>. QED
          BY <3>4, <3>7, <4>1, BehindAgain
      <3>. QED
        BY <3>3, <3>8, <3>9, <3>10, <3>11, Zenon DEF Goal, whole, n
    <2>2. Append(s, x) \in Seq(ReplyHeaders)
      BY FieldsAppended
    <2> HIDE DEF Goal
    <2>. QED
      BY <2>1, <2>2
  <1>3. Seq(ReplyHeaders) \subseteq P
    <2> HIDE DEF P
    <2>. QED
      BY <1>1, <1>2, SeqInductive
  <1>4. b \in P
    BY <1>3
  <1> HIDE DEF Goal
  <1>5. Goal(b, q)
    BY <1>4
  <1>. QED
    BY <1>5 DEF Goal

LEMMA EmptyLineAt ==
  ASSUME NEW b \in Seq(ReplyHeaders), NEW p \in Seq(Quiet), p # <<>>, NEW body \in Symbols
  PROVE  LET t == FieldsText(b) \o (p \o (CRLF \o (CRLF \o body)))
         IN t \in Starts /\ Find(t, EmptyLine, 0) = Len(FieldsText(b)) + Len(p)
  <1> DEFINE A == Characters
             c == CRLF
             z == c \o (c \o body)
             q == p \o z
             d == EmptyLine
             a == FieldsText(b)
  <1>1. /\ c \in Seq(A) /\ p \in Seq(A) /\ Lacks(p, "\r") /\ body \in Seq(A)
        /\ d \in Seq(A) /\ Len(d) >= 1 /\ d[1] = "\r" /\ a \in Seq(A)
    BY LineEndAt, EmptyLineIs, QuietText, FieldsTextIs DEF Symbols
  <1>2. d = c \o c
    BY DEF EmptyLine
  <1> HIDE DEF A, c, d, a
  <1>3. z \in Seq(A)
    BY <1>1, ConcatQuiet
  <1>4. Find(z, d, 0) = 0
    <2>1. z = d \o body
      <3>1. Regroups(c, c, body)
        BY <1>1, Regroup
      <3>. QED
        BY <1>2, <3>1, Zenon DEF Regroups
    <2>2. Find(d \o body, d, 0) = 0
      BY <1>1, FindHere
    <2>. QED
      BY <2>1, <2>2, Zenon
  <1>5. Len(p) \in Nat /\ Len(a) \in Nat
    BY <1>1, LenProperties
  <1> HIDE DEF z
  <1>6. Find(q, d, 0) = Len(p)
    <2>1. Find(q, d, 0) = Behind(Len(p), Find(z, d, 0))
      BY <1>1, <1>3, Skips
    <2>2. \A n \in Nat : Behind(n, 0) = n
      BY DEF Behind, Npos
    <2>. QED
      BY <1>4, <1>5, <2>1, <2>2
  <1>7. q \in Starts
    BY <1>3, StartsWith DEF A, Symbols
  <1> HIDE DEF q
  <1>8. a \o q \in Starts /\ Find(a \o q, d, 0) = Behind(Len(a), Find(q, d, 0))
    BY <1>7, EmptyLineBehind DEF a, d
  <1>9. \A m \in Nat, n \in Nat : Behind(m, n) = m + n
    BY DEF Behind, Npos
  <1>. QED
    BY <1>5, <1>6, <1>8, <1>9 DEF a, q, z, c, d

(***************************************************************************)
(* One round of the loop, at a position where a header line begins.        *)
(***************************************************************************)
Placed(pre, x, z, all) ==
  LET k == Len(pre)
      v == Len(x[1])
  IN /\ k \in Nat /\ v \in Nat /\ all \in Symbols
     /\ NameAt(all, k) = k + v /\ Substr(all, k, v) = x[1]
     /\ ValueAt(all, k) = Behind(k + v + 1, Find((<<" ">> \o x[2]) \o z, CRLF, 0))
     /\ \E head \in Symbols : Len(head) = k + v + 2 /\ all = head \o (x[2] \o z)

LEMMA FieldPlaces ==
  ASSUME NEW pre \in Symbols, NEW x \in ReplyHeaders, NEW z \in Symbols,
         NEW all, all = pre \o (Pair(x) \o z)
  PROVE  Placed(pre, x, z, all)
  <1> DEFINE A == Characters
             k == Len(pre)
             v == Len(x[1])
             name == x[1]
             value == x[2]
             co == <<":">>
             sp == <<" ">>
             cs == ColonSpace
             vz == value \o z
             csvz == cs \o vz
             rest == name \o csvz
             pn == pre \o name
             head == pre \o (name \o cs)
             far == pn \o co
             svz == (sp \o value) \o z
  <1>1. /\ name \in Seq(A) /\ Lacks(name, ":") /\ value \in Seq(A) /\ pre \in Seq(A) /\ z \in Seq(A)
        /\ cs \in Seq(A) /\ Len(cs) = 2 /\ Len(cs) >= 1 /\ cs[1] = ":" /\ cs = co \o sp
    BY PairIs, QuietText, ColonSpaceIs DEF Symbols
  <1>2. co \in Seq(A) /\ sp \in Seq(A) /\ Len(co) = 1
    <2>1. ":" \in A /\ " " \in A
      BY TextAssumption DEF Written
    <2>. QED
      BY <2>1, OneIs
  <1>3. all = pre \o ((name \o (cs \o value)) \o z)
    BY DEF Pair
  <1>4. k \in Nat /\ v \in Nat
    BY <1>1, LenProperties
  <1>x. k = Len(pre) /\ v = Len(name)
    OBVIOUS
  <1> HIDE DEF A, name, value, co, sp, cs, k, v
  <1>5. vz \in Seq(A) /\ csvz \in Seq(A) /\ rest \in Seq(A) /\ sp \o value \in Seq(A) /\ svz \in Seq(A)
    <2>1. vz \in Seq(A) /\ sp \o value \in Seq(A)
      BY <1>1, <1>2, ConcatQuiet
    <2> HIDE DEF vz
    <2>2. csvz \in Seq(A)
      BY <1>1, <2>1, ConcatQuiet
    <2>3. svz \in Seq(A)
      BY <1>1, <2>1, ConcatQuiet
    <2> HIDE DEF csvz
    <2>4. rest \in Seq(A)
      BY <1>1, <2>2, ConcatQuiet
    <2>. QED
      BY <2>1, <2>2, <2>3, <2>4 DEF vz
  <1>6. all = pre \o rest
    <2>1. Regroups(name, cs \o value, z) /\ Regroups(cs, value, z)
      <3>1. cs \o value \in Seq(A)
        BY <1>1, ConcatQuiet
      <3>2. Regroups(cs, value, z)
        BY <1>1, Regroup
      <3> DEFINE cv == cs \o value
      <3> HIDE DEF cv
      <3>3. Regroups(name, cv, z)
        BY <1>1, <3>1, Regroup DEF cv
      <3>. QED
        BY <3>2, <3>3 DEF cv
    <2>. QED
      BY <1>3, <2>1, Zenon DEF Regroups
  <1>7. pn \in Seq(A) /\ Len(pn) = k + v /\ head \in Seq(A) /\ Len(head) = k + v + 2
        /\ far \in Seq(A) /\ Len(far) = k + v + 1
    <2>1. pn \in Seq(A) /\ Len(pn) = k + v
      BY <1>1, <1>x, ConcatAt
    <2>2. name \o cs \in Seq(A) /\ Len(name \o cs) = v + 2
      BY <1>1, <1>x, ConcatAt
    <2> DEFINE nc == name \o cs
    <2> HIDE DEF nc, pn
    <2>3. pre \o nc \in Seq(A) /\ Len(pre \o nc) = k + (v + 2)
      <3>1. pre \in Seq(A) /\ nc \in Seq(A)
        BY <1>1, <2>2 DEF nc
      <3>2. pre \o nc \in Seq(A) /\ Len(pre \o nc) = Len(pre) + Len(nc)
        BY <3>1, ConcatAt
      <3>. QED
        BY <1>x, <2>2, <3>2, Zenon DEF nc
    <2>4. far \in Seq(A) /\ Len(far) = (k + v) + 1
      <3>1. pn \in Seq(A) /\ co \in Seq(A)
        BY <1>2, <2>1
      <3>2. pn \o co \in Seq(A) /\ Len(pn \o co) = Len(pn) + Len(co)
        BY <3>1, ConcatAt
      <3>. QED
        BY <1>2, <2>1, <3>2, Zenon
    <2>5. k + (v + 2) = k + v + 2 /\ (k + v) + 1 = k + v + 1
      BY <1>4
    <2>. QED
      BY <2>1, <2>3, <2>4, <2>5 DEF nc, pn
  <1>8. all = head \o vz
    <2> HIDE DEF vz
    <2>1. Regroups(name, cs, vz)
      BY <1>1, <1>5, Regroup
    <2>2. Regroups(pre, name \o cs, vz)
      <3>1. name \o cs \in Seq(A)
        BY <1>1, ConcatQuiet
      <3> DEFINE nc == name \o cs
      <3> HIDE DEF nc
      <3>2. Regroups(pre, nc, vz)
        BY <1>1, <1>5, <3>1, Regroup DEF nc
      <3>. QED
        BY <3>2 DEF nc
    <2>. QED
      BY <1>6, <2>1, <2>2, Zenon DEF Regroups
  <1>9. all = far \o svz
    <2>1. csvz = co \o (sp \o vz)
      <3> HIDE DEF vz
      <3>1. Regroups(co, sp, vz)
        BY <1>2, <1>5, Regroup
      <3>. QED
        BY <1>1, <3>1, Zenon DEF Regroups
    <2>2. sp \o vz = svz
      <3>1. Regroups(sp, value, z)
        BY <1>1, <1>2, Regroup
      <3>. QED
        BY <3>1, Zenon DEF Regroups
    <2>3. csvz = co \o svz
      BY <2>1, <2>2, Zenon
    <2> HIDE DEF csvz, svz
    <2>4. Regroups(pre, name, csvz)
      BY <1>1, <1>5, Regroup
    <2>5. Regroups(pn, co, svz)
      <3> HIDE DEF pn
      <3>. QED
        BY <1>2, <1>5, <1>7, Regroup
    <2>. QED
      BY <1>6, <2>3, <2>4, <2>5, Zenon DEF Regroups
  <1> HIDE DEF vz, csvz, rest, pn, head, far, svz
  <1>10. NameAt(all, k) = k + v
    <2>1. Find(rest, cs, 0) = v
      <3>1. Find(name \o csvz, cs, 0) = Behind(v, Find(csvz, cs, 0))
        <4>1. name \in Seq(A) /\ Lacks(name, ":") /\ csvz \in Seq(A) /\ cs \in Seq(A)
          BY <1>1, <1>5
        <4>2. Len(cs) >= 1 /\ cs[1] = ":"
          BY <1>1
        <4>3. Find(name \o csvz, cs, 0) = Behind(Len(name), Find(csvz, cs, 0))
          BY <4>1, <4>2, Skips
        <4>. QED
          BY <1>x, <4>3, Zenon
      <3>2. Find(csvz, cs, 0) = 0
        BY <1>1, <1>5, FindHere DEF csvz
      <3>3. Behind(v, 0) = v
        BY <1>4 DEF Behind, Npos
      <3>. QED
        BY <3>1, <3>2, <3>3 DEF rest
    <2>2. Find(pre \o rest, cs, k + 0) = Behind(k, Find(rest, cs, 0))
      <3>1. pre \in Seq(A) /\ rest \in Seq(A) /\ cs \in Seq(A)
        BY <1>1, <1>5
      <3>2. Find(pre \o rest, cs, Len(pre) + 0) = Behind(Len(pre), Find(rest, cs, 0))
        BY <3>1, FindBehind
      <3>. QED
        BY <1>x, <3>2, Zenon
    <2>3. k + 0 = k /\ Behind(k, v) = k + v
      BY <1>4 DEF Behind, Npos
    <2>. QED
      BY <1>6, <2>1, <2>2, <2>3 DEF NameAt, cs
  <1>11. Substr(all, k, v) = name
    <2>1. Substr(pre \o (name \o csvz), Len(pre), Len(name)) = name
      BY <1>1, <1>5, SubstrMiddle
    <2>. QED
      BY <1>6, <1>x, <2>1 DEF rest
  <1>12. ValueAt(all, k) = Behind(k + v + 1, Find(svz, CRLF, 0))
    <2> DEFINE m == k + v + 1
    <2>1. m = Len(far) /\ m \in Nat
      BY <1>4, <1>7
    <2> HIDE DEF m
    <2>2. Find(far \o svz, CRLF, m + 0) = Behind(m, Find(svz, CRLF, 0))
      BY <1>5, <1>7, <2>1, LineEndAt, FindBehind DEF A
    <2>3. m + 0 = m
      BY <2>1
    <2>4. Find(all, CRLF, m) = Behind(m, Find(svz, CRLF, 0))
      BY <1>9, <2>2, <2>3
    <2>5. ValueAt(all, k) = Find(all, CRLF, m)
      BY <1>10, Zenon DEF ValueAt, m
    <2>. QED
      BY <2>4, <2>5 DEF m
  <1>13. all \in Seq(A)
    BY <1>1, <1>5, <1>6, ConcatQuiet
  <1>. QED
    BY <1>4, <1>7, <1>8, <1>10, <1>11, <1>12, <1>13 DEF Placed, A, Symbols, k, v, name, value, sp, vz, svz

LineAt(all, pre, x, q) == all = pre \o (Pair(x) \o (CRLF \o q))
Stepped(f, all, k, x) ==
  k + (Len(Pair(x)) + 2) \in 0 .. Len(all) /\ f[k] = <<x>> \o f[k + (Len(Pair(x)) + 2)]

LEMMA FieldHere ==
  ASSUME NEW pre \in Symbols, NEW x \in ReplyHeaders, NEW q \in Symbols,
         NEW all, LineAt(all, pre, x, q), NEW f, AreFields(f, all)
  PROVE  Stepped(f, all, Len(pre), x)
  <1> DEFINE A == Characters
             k == Len(pre)
             v == Len(x[1])
             value == x[2]
             w == Len(value)
             l == Len(Pair(x)) + 2
             z == CRLF \o q
             spaced == <<" ">> \o value
             s == k + v + 2
  <1>0. all = pre \o (Pair(x) \o (CRLF \o q))
    BY DEF LineAt
  <1>1. z \in Symbols
    BY LineEndAt, ConcatQuiet DEF Symbols
  <1>2. /\ x[1] \in Seq(Quiet) /\ value \in Seq(A) /\ Lacks(value, "\r") /\ x = <<x[1], value>>
        /\ l = (v + 2 + w) + 2 /\ value \in Seq(Quiet)
    BY PairIs, QuietText
  <1>3. w \in Nat
    BY <1>2, LenProperties
  <1> HIDE DEF z
  <1>4. /\ k \in Nat /\ v \in Nat /\ all \in Symbols
        /\ NameAt(all, k) = k + v /\ Substr(all, k, v) = x[1]
        /\ ValueAt(all, k) = Behind(k + v + 1, Find(spaced \o z, CRLF, 0))
        /\ \E head \in Symbols : Len(head) = s /\ all = head \o (value \o z)
    <2>1. Placed(pre, x, z, all)
      BY <1>0, <1>1, FieldPlaces DEF z
    <2>. QED
      BY <2>1, Zenon DEF Placed
  <1>5. spaced \in Seq(Quiet) /\ Len(spaced) = 1 + w
    <2> DEFINE sp == <<" ">>
    <2>1. sp \in Seq(Quiet) /\ Len(sp) = 1
      BY QuietLiterals, OneIs
    <2> HIDE DEF sp, value
    <2>2. sp \o value \in Seq(Quiet) /\ Len(sp \o value) = Len(sp) + w
      BY <1>2, <2>1, ConcatAt
    <2>. QED
      BY <2>1, <2>2 DEF sp
  <1> HIDE DEF spaced, k, v, value, l
  <1>6. Find(spaced \o z, CRLF, 0) = 1 + w
    <2>1. spaced \in Seq(A) /\ Lacks(spaced, "\r") /\ z \in Seq(A)
      BY <1>1, <1>5, QuietText DEF Symbols
    <2>2. Find(spaced \o z, CRLF, 0) = Behind(Len(spaced), Find(z, CRLF, 0))
      BY <2>1, LineEndAt, Skips
    <2>3. Find(z, CRLF, 0) = 0
      BY LineEndAt, FindHere DEF z, Symbols
    <2>4. \A n \in Nat : Behind(n, 0) = n
      BY DEF Behind, Npos
    <2>5. Len(spaced) \in Nat
      BY <2>1, LenProperties
    <2>. QED
      BY <1>5, <2>2, <2>3, <2>4, <2>5
  <1>7. ValueAt(all, k) = s + w
    <2> HIDE DEF w
    <2>1. Behind(k + v + 1, 1 + w) = s + w
      BY <1>3, <1>4 DEF Behind, Npos
    <2>. QED
      BY <1>4, <1>6, <2>1
  <1>8. Substr(all, s, w) = value
    <2>1. PICK head \in Symbols : Len(head) = s /\ all = head \o (value \o z)
      BY <1>4
    <2>2. head \in Seq(A) /\ z \in Seq(A)
      BY <1>1 DEF Symbols
    <2>3. Substr(head \o (value \o z), Len(head), Len(value)) = value
      BY <1>2, <2>2, SubstrMiddle
    <2> HIDE DEF s
    <2>. QED
      BY <2>1, <2>3
  <1>9. FieldAt(all, k) = x
    <2> DEFINE name == NameAt(all, k)
               end == ValueAt(all, k)
    <2>1. FieldAt(all, k) = <<Substr(all, k, name - k), Substr(all, name + 2, end - name - 2)>>
      BY Zenon DEF FieldAt
    <2>2. name - k = v /\ name + 2 = s /\ end - name - 2 = w
      <3> HIDE DEF w
      <3>. QED
        BY <1>3, <1>4, <1>7
    <2> HIDE DEF name, end, w, s
    <2>3. FieldAt(all, k) = <<x[1], value>>
      BY <1>4, <1>8, <2>1, <2>2
    <2>. QED
      BY <1>2, <2>3
  <1>10. NameAt(all, k) # Npos /\ ValueAt(all, k) + 2 = k + l /\ ValueAt(all, k) + 2 > k
    <2> HIDE DEF w
    <2>. QED
      BY <1>2, <1>3, <1>4, <1>7 DEF Npos
  <1>11. k \in 0 .. Len(all)
    <2> DEFINE n == Len(all)
    <2>1. InText(NameAt(all, k), k, ColonSpace, all)
      BY <1>4, ColonSpaceIs, FindRange DEF NameAt, Symbols
    <2>2. n \in Nat
      BY <1>4, LenProperties DEF Symbols
    <2>3. NameAt(all, k) + 2 <= n /\ NameAt(all, k) = k + v
      BY <1>4, <1>10, <2>1, ColonSpaceIs DEF InText
    <2> HIDE DEF n
    <2>4. k \in 0 .. n
      BY <1>4, <2>2, <2>3
    <2>. QED
      BY <2>4 DEF n
  <1>12. k + l \in 0 .. Len(all)
    BY <1>4, <1>10, <1>11, FieldAtType
  <1>13. f[k] = FieldsStep(f, all, k)
    BY <1>11 DEF AreFields
  <1>14. FieldsStep(f, all, k) = <<x>> \o f[k + l]
    <2> HIDE DEF w, s
    <2>. QED
      BY <1>9, <1>10, Zenon DEF FieldsStep
  <1>. QED
    BY <1>12, <1>13, <1>14 DEF Stepped, k, l

(***************************************************************************)
(* At the last line all_headers ends behind the carriage return, which     *)
(* goes to the value, and the loop jumps to position 1.                    *)
(***************************************************************************)
LEMMA FieldLast ==
  ASSUME NEW pre \in Symbols, NEW x \in ReplyHeaders,
         NEW all, all = pre \o (Pair(x) \o <<"\r">>), NEW f, AreFields(f, all)
  PROVE  /\ pre # <<>> => f[Len(pre)] = <<<<x[1], x[2] \o <<"\r">>>>>>
         /\ pre = <<>> => f[Len(pre)] = <<<<x[1], x[2] \o <<"\r">>>>>> \o f[1]
         /\ 1 \in 0 .. Len(all)
  <1> DEFINE A == Characters
             k == Len(pre)
             v == Len(x[1])
             value == x[2]
             w == Len(value)
             z == <<"\r">>
             spaced == <<" ">> \o value
             s == k + v + 2
             field == <<x[1], value \o z>>
  <1>1. z \in Symbols /\ z \in Seq(A) /\ Len(z) = 1
    <2>1. "\r" \in A
      BY TextAssumption DEF Written
    <2>. QED
      BY <2>1, OneIs DEF Symbols
  <1>2. value \in Seq(A) /\ value \in Seq(Quiet) /\ pre \in Seq(A)
    BY PairIs, QuietText DEF Symbols
  <1> HIDE DEF z
  <1>4. /\ k \in Nat /\ v \in Nat /\ all \in Symbols
        /\ NameAt(all, k) = k + v /\ Substr(all, k, v) = x[1]
        /\ ValueAt(all, k) = Behind(k + v + 1, Find(spaced \o z, CRLF, 0))
        /\ \E head \in Symbols : Len(head) = s /\ all = head \o (value \o z)
    <2>1. Placed(pre, x, z, all)
      BY <1>1, FieldPlaces DEF z
    <2>. QED
      BY <2>1, Zenon DEF Placed
  <1>5. spaced \in Seq(Quiet)
    BY <1>2, QuietLiterals, ConcatQuiet
  <1> HIDE DEF spaced, k, v, value
  <1>6. Find(spaced \o z, CRLF, 0) = Npos
    <2>1. spaced \in Seq(A) /\ Lacks(spaced, "\r")
      BY <1>5, QuietText
    <2>2. Find(spaced \o z, CRLF, 0) = Behind(Len(spaced), Find(z, CRLF, 0))
      BY <1>1, <2>1, LineEndAt, Skips
    <2>3. Find(z, CRLF, 0) = Npos
      <3> DEFINE r == Find(z, CRLF, 0)
      <3>1. InText(r, 0, CRLF, z)
        BY <1>1, LineEndAt, FindRange
      <3> HIDE DEF r
      <3>2. r = Npos \/ (r \in Nat /\ r + 2 <= 1)
        BY <1>1, <3>1, LineEndAt DEF InText
      <3>3. r = Npos
        BY <3>2
      <3>. QED
        BY <3>3 DEF r
    <2>. QED
      BY <2>2, <2>3 DEF Behind
  <1>7. ValueAt(all, k) = Npos
    BY <1>4, <1>6 DEF Behind
  <1>8. Substr(all, s, Npos - (k + v) - 2) = value \o z
    <2> DEFINE vz == value \o z
    <2>1. PICK head \in Symbols : Len(head) = s /\ all = head \o vz
      BY <1>4
    <2>2. head \in Seq(A) /\ vz \in Seq(A)
      BY <1>1, <1>2, ConcatQuiet DEF Symbols
    <2> HIDE DEF vz
    <2>3. Rest(head \o vz, Len(head)) = vz
      BY <2>2, RestAfter
    <2>4. s \in Nat /\ Npos - (k + v) - 2 \in Int /\ Npos - (k + v) - 2 < 0
      BY <1>4 DEF Npos
    <2> HIDE DEF s
    <2>5. Substr(all, s, Npos - (k + v) - 2) = Rest(all, s)
      BY <1>4, <2>4, SubstrIs DEF Symbols
    <2>. QED
      BY <2>1, <2>3, <2>5 DEF vz
  <1>9. FieldAt(all, k) = field
    <2> DEFINE name == NameAt(all, k)
               end == ValueAt(all, k)
    <2>1. FieldAt(all, k) = <<Substr(all, k, name - k), Substr(all, name + 2, end - name - 2)>>
      BY Zenon DEF FieldAt
    <2>2. name - k = v /\ name + 2 = s /\ end - name - 2 = Npos - (k + v) - 2
      BY <1>4, <1>7
    <2> HIDE DEF name, end, s
    <2>. QED
      BY <1>4, <1>8, <2>1, <2>2
  <1>11. k \in 0 .. Len(all) /\ 1 \in 0 .. Len(all)
    <2> DEFINE n == Len(all)
    <2>1. InText(NameAt(all, k), k, ColonSpace, all)
      BY <1>4, ColonSpaceIs, FindRange DEF NameAt, Symbols
    <2>2. n \in Nat
      BY <1>4, LenProperties DEF Symbols
    <2>3. NameAt(all, k) # Npos
      BY <1>4 DEF Npos
    <2>4. NameAt(all, k) + 2 <= n /\ NameAt(all, k) = k + v
      BY <1>4, <2>1, <2>3, ColonSpaceIs DEF InText
    <2> HIDE DEF n
    <2>5. k \in 0 .. n /\ 1 \in 0 .. n
      BY <1>4, <2>2, <2>4
    <2>. QED
      BY <2>5 DEF n
  <1>12. f[k] = FieldsStep(f, all, k)
    BY <1>11 DEF AreFields
  <1>13. NameAt(all, k) # Npos /\ Npos + 2 = 1
    BY <1>4 DEF Npos
  <1>14. f[k] = <<field>> \o (IF 1 > k THEN f[1] ELSE <<>>)
    <2> HIDE DEF s, field
    <2>. QED
      BY <1>7, <1>9, <1>12, <1>13, Zenon DEF FieldsStep
  <1>15. (pre = <<>> => 1 > k) /\ (pre # <<>> => ~(1 > k))
    <2>1. pre = <<>> <=> k = 0
      BY <1>2, EmptySeq, LenProperties DEF k
    <2>. QED
      BY <1>4, <2>1
  <1>16. <<field>> \o <<>> = <<field>>
    <2>1. \A S : \A g \in S : <<g>> \in Seq(S)
      BY OneIs
    <2>2. <<field>> \in Seq({field})
      BY <2>1
    <2>. QED
      BY <2>2, ConcatEmptySeq
  <1>. QED
    BY <1>11, <1>14, <1>15, <1>16 DEF k, field, value, z

(***************************************************************************)
(* The whole loop: the fields are the headers that were written, and the   *)
(* last one's value has a carriage return more.                            *)
(***************************************************************************)
Entries == Seq(Symbols \X Symbols)

LEMMA ReplyHeadersAre ==
  /\ ReplyHeaders \subseteq NonEmpty \X NonEmpty
  /\ ReplyHeaders \subseteq Symbols \X Symbols
  /\ Seq(ReplyHeaders) \subseteq Entries
  <1>1. ASSUME NEW x \in ReplyHeaders PROVE x \in NonEmpty \X NonEmpty /\ x \in Symbols \X Symbols
    <2>1. x[1] \in Symbols /\ x[2] \in Symbols /\ x[1] # <<>> /\ x[2] # <<>> /\ x = <<x[1], x[2]>>
      BY PairIs, QuietText
    <2>. QED
      BY <2>1 DEF NonEmpty
  <1>2. Seq(ReplyHeaders) \subseteq Entries
    BY <1>1, SeqMonotonic DEF Entries
  <1>. QED
    BY <1>1, <1>2

LEMMA FieldsValues ==
  ASSUME NEW all \in Symbols, NEW f, AreFields(f, all), NEW k \in 0 .. Len(all)
  PROVE  f[k] \in Entries
  <1>1. PICK g \in [0 .. Len(all) -> Seq(Symbols \X Symbols)] : AreFields(g, all)
    BY FieldsExist
  <1>2. f[k] = g[k]
    BY <1>1, FieldsUnique
  <1>. QED
    BY <1>1, <1>2 DEF Entries

Skipped(s, pre, f, all) ==
  /\ Len(pre) + Len(FieldsText(s)) \in 0 .. Len(all)
  /\ f[Len(pre)] = s \o f[Len(pre) + Len(FieldsText(s))]

LEMMA FieldsSkip ==
  ASSUME NEW b \in Seq(ReplyHeaders), NEW pre \in Symbols, NEW q \in Symbols,
         NEW all, all = pre \o (FieldsText(b) \o q), NEW f, AreFields(f, all)
  PROVE  Skipped(b, pre, f, all)
  <1> DEFINE A == Characters
             Goal(s) == \A p \in Symbols, r \in Symbols :
                          all = p \o (FieldsText(s) \o r) => Skipped(s, p, f, all)
             P == {s \in Seq(ReplyHeaders) : Goal(s)}
  <1>0. all \in Symbols /\ Len(all) \in Nat
    <2>1. FieldsText(b) \in Seq(A) /\ pre \in Seq(A) /\ q \in Seq(A)
      BY FieldsTextIs DEF Symbols
    <2> DEFINE t == FieldsText(b)
    <2> HIDE DEF t
    <2>2. t \o q \in Seq(A)
      BY <2>1, ConcatQuiet DEF t
    <2>3. pre \o (t \o q) \in Seq(A)
      BY <2>1, <2>2, ConcatQuiet
    <2>4. all \in Seq(A)
      BY <2>3 DEF t
    <2>. QED
      BY <2>4, LenProperties DEF Symbols
  <1>1. <<>> \in P
    <2>1. ASSUME NEW p \in Symbols, NEW r \in Symbols, all = p \o (FieldsText(<<>>) \o r)
          PROVE  Skipped(<<>>, p, f, all)
      <3> DEFINE n == Len(p)
                 m == Len(all)
                 v == f[n]
      <3>1. FieldsText(<<>>) = <<>> /\ Len(<<>>) = 0
        BY FieldsNone, EmptySeq
      <3>2. r \in Seq(A) /\ p \in Seq(A) /\ <<>> \o r = r
        BY ConcatEmptySeq DEF Symbols
      <3>3. all = p \o r
        BY <2>1, <3>1, <3>2
      <3>4. Len(p \o r) = Len(p) + Len(r) /\ Len(p) \in Nat /\ Len(r) \in Nat
        BY <3>2, ConcatAt
      <3>5. m = n + Len(r) /\ n \in Nat /\ Len(r) \in Nat
        BY <3>3, <3>4
      <3> HIDE DEF n, m
      <3>6. n \in 0 .. m /\ n + 0 = n
        BY <3>5
      <3>7. v \in Entries
        BY <1>0, <3>6, FieldsValues DEF m
      <3> HIDE DEF v
      <3>8. <<>> \o v = v
        BY <3>7, ConcatEmptySeq DEF Entries
      <3>. QED
        BY <3>1, <3>6, <3>8 DEF Skipped, n, m, v
    <2>2. <<>> \in Seq(ReplyHeaders)
      BY EmptySeq
    <2>. QED
      BY <2>1, <2>2
  <1>2. ASSUME NEW s \in Seq(ReplyHeaders), s \in P, NEW x \in ReplyHeaders PROVE Append(s, x) \in P
    <2>1. ASSUME NEW p \in Symbols, NEW r \in Symbols, all = p \o (FieldsText(Append(s, x)) \o r)
          PROVE  Skipped(Append(s, x), p, f, all)
      <3> DEFINE t == FieldsText(s)
                 w == Pair(x)
                 c == CRLF
                 line == w \o c
                 u == w \o (c \o r)
                 pt == p \o t
                 whole == FieldsText(Append(s, x))
                 k == Len(p) + Len(t)
                 l == Len(w) + 2
      <3>1. /\ t \in Seq(A) /\ w \in Seq(A) /\ c \in Seq(A) /\ r \in Seq(A) /\ p \in Seq(A) /\ Len(c) = 2
        BY FieldsTextIs, EndFieldIs, LineEndAt DEF Symbols
      <3>2. whole = t \o line /\ Append(s, x) \in Seq(ReplyHeaders)
        BY FieldsAppended
      <3>3. \A pp \in Symbols, rr \in Symbols : all = pp \o (t \o rr) => Skipped(s, pp, f, all)
        BY <1>2
      <3>4. all = p \o (whole \o r)
        BY <2>1
      <3> HIDE DEF t, w, c, whole, A, Goal
      <3>5. line \in Seq(A) /\ Len(line) = l /\ u \in Seq(A) /\ c \o r \in Seq(A) /\ pt \in Seq(A)
        <4>1. line \in Seq(A) /\ Len(line) = Len(w) + Len(c)
          BY <3>1, ConcatAt
        <4>2. c \o r \in Seq(A)
          BY <3>1, ConcatQuiet
        <4> DEFINE cr == c \o r
        <4> HIDE DEF cr
        <4>3. w \o cr \in Seq(A)
          BY <3>1, <4>2, ConcatQuiet DEF cr
        <4>4. pt \in Seq(A)
          BY <3>1, ConcatQuiet
        <4>. QED
          BY <3>1, <4>1, <4>2, <4>3, <4>4 DEF cr
      <3>6. all = p \o (t \o u)
        <4>1. Regroups(t, line, r)
          <5> HIDE DEF line
          <5>. QED
            BY <3>1, <3>5, Regroup
        <4>2. Regroups(w, c, r)
          BY <3>1, Regroup
        <4>. QED
          BY <3>2, <3>4, <4>1, <4>2, Zenon DEF Regroups
      <3>7. all = pt \o u
        <4> HIDE DEF u
        <4>1. Regroups(p, t, u)
          BY <3>1, <3>5, Regroup
        <4>. QED
          BY <3>6, <4>1, Zenon DEF Regroups
      <3>8. Len(pt) = k /\ k \in Nat /\ Len(w) \in Nat
        <4>1. Len(p \o t) = Len(p) + Len(t) /\ Len(p) \in Nat /\ Len(t) \in Nat
          BY <3>1, ConcatAt
        <4>. QED
          BY <3>1, <4>1, LenProperties
      <3>9. Skipped(s, p, f, all)
        <4>1. u \in Symbols
          BY <3>5 DEF A, Symbols
        <4> HIDE DEF u
        <4>. QED
          BY <3>3, <3>6, <4>1
      <3>10. k + l \in 0 .. Len(all) /\ f[k] = <<x>> \o f[k + l]
        <4> HIDE DEF l, pt, k
        <4>1. pt \in Symbols /\ r \in Symbols
          BY <3>1, <3>5 DEF A, Symbols
        <4>2. LineAt(all, pt, x, r)
          BY <3>7, Zenon DEF LineAt, u, w, c
        <4>3. Stepped(f, all, Len(pt), x)
          BY <4>1, <4>2, FieldHere
        <4>. QED
          BY <3>8, <4>3 DEF Stepped, w, l
      <3>11. f[Len(p)] = s \o f[k]
        BY <3>9, Zenon DEF Skipped, k, t
      <3>12. Len(whole) = Len(t) + l
        <4> HIDE DEF line, l
        <4>1. Len(t \o line) = Len(t) + Len(line)
          BY <3>1, <3>5, ConcatAt
        <4>. QED
          BY <3>2, <3>5, <4>1, Zenon
      <3>13. Len(p) + Len(whole) = k + l
        <4>1. Len(p) \in Nat /\ Len(t) \in Nat /\ Len(w) \in Nat
          BY <3>1, LenProperties
        <4> DEFINE lp == Len(p)
                   lt == Len(t)
                   lw == Len(w)
        <4>2. Len(whole) = lt + (lw + 2) /\ lp \in Nat /\ lt \in Nat /\ lw \in Nat
          BY <3>12, <4>1
        <4> HIDE DEF lp, lt, lw
        <4>3. lp + (lt + (lw + 2)) = (lp + lt) + (lw + 2)
          BY <4>2
        <4>. QED
          BY <4>2, <4>3 DEF lp, lt, lw
      <3>14. s \o (<<x>> \o f[k + l]) = Append(s, x) \o f[k + l]
        <4> DEFINE g == f[k + l]
                   one == <<x>>
        <4>1. g \in Entries
          BY <1>0, <3>10, FieldsValues
        <4>2. s \in Entries /\ x \in Symbols \X Symbols
          BY ReplyHeadersAre
        <4>3. one \in Entries /\ Append(s, x) = s \o one
          BY <4>2, OneIs, AppendIsConcat DEF Entries
        <4> HIDE DEF g, one
        <4>4. Regroups(s, one, g)
          BY <4>1, <4>2, <4>3, Regroup DEF Entries
        <4>. QED
          BY <4>3, <4>4, Zenon DEF Regroups, g, one
      <3> HIDE DEF k, l
      <3>15. f[Len(p)] = Append(s, x) \o f[Len(p) + Len(whole)] /\ Len(p) + Len(whole) \in 0 .. Len(all)
        BY <3>10, <3>11, <3>13, <3>14, Zenon
      <3>. QED
        BY <3>15 DEF Skipped, whole
    <2>2. Append(s, x) \in Seq(ReplyHeaders)
      BY FieldsAppended
    <2>. QED
      BY <2>1, <2>2
  <1>3. Seq(ReplyHeaders) \subseteq P
    <2> HIDE DEF P
    <2>. QED
      BY <1>1, <1>2, SeqInductive
  <1>. QED
    BY <1>3

FieldsFrom(b, x, all) ==
  \E more \in Entries :
    /\ Fields(all) = Append(b, <<x[1], x[2] \o <<"\r">>>>) \o more
    /\ b # <<>> => more = <<>>

LEMMA FieldsRead ==
  ASSUME NEW b \in Seq(ReplyHeaders), NEW x \in ReplyHeaders,
         NEW all, all = FieldsText(b) \o (Pair(x) \o <<"\r">>)
  PROVE  FieldsFrom(b, x, all)
  <1> DEFINE A == Characters
             t == FieldsText(b)
             cr == <<"\r">>
             q == Pair(x) \o cr
             fl == <<x[1], x[2] \o cr>>
             one == <<fl>>
             none == <<>>
  <1>1. t \in Symbols /\ q \in Symbols /\ cr \in Seq(A) /\ t \in Seq(A) /\ q \in Seq(A) /\ all \in Symbols
    <2>1. "\r" \in A
      BY TextAssumption DEF Written
    <2>2. cr \in Seq(A)
      BY <2>1, OneIs
    <2>3. Pair(x) \in Seq(A) /\ t \in Seq(A)
      BY EndFieldIs, FieldsTextIs DEF Symbols
    <2> HIDE DEF cr, t
    <2>4. q \in Seq(A)
      BY <2>2, <2>3, ConcatQuiet
    <2> HIDE DEF q
    <2>5. t \o q \in Seq(A)
      BY <2>3, <2>4, ConcatQuiet
    <2>. QED
      BY <2>2, <2>3, <2>4, <2>5 DEF Symbols, t, q, cr
  <1>2. PICK f : AreFields(f, all) /\ Fields(all) = f[0]
    BY <1>1, FieldsAre
  <1>3. all = none \o (t \o q)
    <2>1. t \o q \in Seq(A)
      BY <1>1 DEF Symbols
    <2> DEFINE tq == t \o q
    <2> HIDE DEF tq
    <2>2. <<>> \o tq = tq
      BY <2>1, ConcatEmptySeq DEF tq
    <2>. QED
      BY <2>2 DEF tq
  <1>4. none \in Symbols /\ Len(none) = 0
    BY SeparatorTexts, EmptySeq
  <1> HIDE DEF t, q, none
  <1>5. Skipped(b, none, f, all)
    BY <1>1, <1>2, <1>3, <1>4, FieldsSkip DEF t
  <1>6. f[0] = b \o f[Len(t)]
    <2>1. f[0] = b \o f[0 + Len(t)] /\ Len(t) \in Nat
      BY <1>1, <1>4, <1>5, LenProperties DEF Skipped, t
    <2> DEFINE n == Len(t)
    <2> HIDE DEF n
    <2>2. f[0] = b \o f[0 + n] /\ n \in Nat
      BY <2>1 DEF n
    <2>3. 0 + n = n
      BY <2>2
    <2>. QED
      BY <2>2, <2>3 DEF n
  <1>7. /\ t # <<>> => f[Len(t)] = one
        /\ t = <<>> => f[Len(t)] = one \o f[1]
        /\ 1 \in 0 .. Len(all)
    <2>1. all = t \o (Pair(x) \o <<"\r">>)
      BY DEF t
    <2>. QED
      BY <1>1, <1>2, <2>1, FieldLast
  <1>8. fl \in Symbols \X Symbols
    <2>1. x[1] \in Symbols /\ x[2] \in Seq(A)
      BY PairIs, QuietText
    <2>2. x[2] \o cr \in Seq(A)
      BY <1>1, <2>1, ConcatQuiet
    <2>. QED
      BY <2>1, <2>2 DEF Symbols
  <1>9. f[1] \in Entries
    BY <1>1, <1>2, <1>7, FieldsValues
  <1>10. b # <<>> => t # <<>>
    <2> SUFFICES ASSUME b # <<>> PROVE t # <<>>
      OBVIOUS
    <2>1. PICK s \in Seq(ReplyHeaders), y \in ReplyHeaders : b = Append(s, y)
      BY SequenceEmptyOrAppend
    <2> DEFINE a == FieldsText(s)
               line == Pair(y) \o CRLF
    <2>2. t = a \o line
      BY <2>1, FieldsAppended DEF t
    <2>3. a \in Seq(A) /\ Pair(y) \in Seq(A) /\ CRLF \in Seq(A) /\ Len(CRLF) = 2
      BY FieldsTextIs, EndFieldIs, LineEndAt DEF Symbols
    <2> HIDE DEF a
    <2>4. line \in Seq(A) /\ Len(line) = Len(Pair(y)) + 2 /\ Len(Pair(y)) \in Nat
      <3> DEFINE py == Pair(y)
                 c == CRLF
      <3>1. py \in Seq(A) /\ c \in Seq(A)
        BY <2>3
      <3>2. Len(c) = 2
        BY <2>3
      <3> HIDE DEF py, c
      <3>3. py \o c \in Seq(A) /\ Len(py \o c) = Len(py) + Len(c) /\ Len(py) \in Nat
        BY <3>1, ConcatAt
      <3>. QED
        BY <3>2, <3>3, Zenon DEF py, c
    <2> HIDE DEF line
    <2>5. Len(t) = Len(a) + Len(line) /\ Len(a) \in Nat
      BY <2>2, <2>3, <2>4, ConcatAt
    <2>6. Len(t) # 0
      BY <2>4, <2>5
    <2>. QED
      BY <2>6, EmptySeq
  <1>11. b \in Entries /\ one \in Entries /\ Append(b, fl) = b \o one /\ Append(b, fl) \in Entries
    <2>1. b \in Seq(Symbols \X Symbols)
      BY ReplyHeadersAre DEF Entries
    <2> HIDE DEF fl
    <2>. QED
      BY <1>8, <2>1, OneIs, AppendIsConcat, AppendProperties DEF Entries
  <1> DEFINE ext == Append(b, fl)
  <1>12. CASE t # <<>>
    <2>1. <<>> \in Entries
      BY EmptySeq DEF Entries
    <2>2. Fields(all) = ext
      BY <1>2, <1>6, <1>7, <1>11, <1>12
    <2> HIDE DEF ext
    <2>3. Fields(all) = ext \o <<>>
      BY <1>11, <2>2, ConcatEmptySeq DEF Entries, ext
    <2>. QED
      BY <2>1, <2>3, Zenon DEF FieldsFrom, ext, fl, cr
  <1>13. CASE t = <<>>
    <2> DEFINE more == f[1]
    <2>1. Fields(all) = b \o (one \o more)
      BY <1>2, <1>6, <1>7, <1>13
    <2> HIDE DEF more, one, fl
    <2>2. Regroups(b, one, more)
      BY <1>9, <1>11, Regroup DEF Entries, more
    <2>3. Fields(all) = ext \o more
      BY <1>11, <2>1, <2>2, Zenon DEF Regroups
    <2>4. b = <<>>
      BY <1>10, <1>13
    <2>5. more \in Entries
      BY <1>9 DEF more
    <2> HIDE DEF ext
    <2>. QED
      BY <2>3, <2>4, <2>5, Zenon DEF FieldsFrom, ext, fl, cr
  <1>. QED
    BY <1>12, <1>13

-----------------------------------------------------------------------------
(***************************************************************************)
(* AddHeader, for one field after the other: what has a name and a value   *)
(* is added.                                                               *)
(***************************************************************************)
AddedOne == [h \in Symbols \X Symbols |-> IF h[1] # <<>> /\ h[2] # <<>> THEN <<h>> ELSE <<>>]

LEMMA AddedOneMaps == Maps(AddedOne, Symbols \X Symbols, Entries)
  <1> DEFINE F(h) == IF h[1] # <<>> /\ h[2] # <<>> THEN <<h>> ELSE <<>>
             S == Symbols \X Symbols
  <1>1. ASSUME NEW h \in S PROVE F(h) \in Seq(S)
    <2>1. <<h>> \in Seq(S) /\ <<>> \in Seq(S)
      BY OneIs, EmptySeq
    <2>. QED
      BY <2>1
  <1>2. AddedOne = [h \in S |-> F(h)]
    BY DEF AddedOne
  <1> HIDE DEF F, S
  <1>3. AddedOne \in [S -> Seq(S)]
    BY <1>1, <1>2
  <1>. QED
    BY <1>3 DEF Maps, Entries, S

LEMMA AddedIs ==
  ASSUME NEW fields \in Entries
  PROVE  Added(fields) = FlattenSeq(Applied(fields, AddedOne)) /\ Added(fields) \in Entries
  <1> DEFINE good == {k \in DOMAIN fields : fields[k][1] # <<>> /\ fields[k][2] # <<>>}
             F(k) == IF k \in good THEN <<fields[k]>> ELSE <<>>
             G(k) == AddedOne[fields[k]]
  <1>1. \A k \in DOMAIN fields : fields[k] \in Symbols \X Symbols
    BY LenProperties, ElementOfSeq DEF Entries
  <1>2. ASSUME NEW k \in DOMAIN fields PROVE F(k) = G(k)
    BY <1>1 DEF AddedOne
  <1>3. Added(fields) = FlattenSeq([k \in DOMAIN fields |-> F(k)])
    BY Zenon DEF Added, AddedIf
  <1>4. Applied(fields, AddedOne) = [k \in DOMAIN fields |-> G(k)]
    BY Zenon DEF Applied
  <1> HIDE DEF F, G, good
  <1>5. [k \in DOMAIN fields |-> F(k)] = [k \in DOMAIN fields |-> G(k)]
    BY <1>2
  <1>6. FlattenSeq(Applied(fields, AddedOne)) \in Seq(Symbols \X Symbols)
    <2>1. Maps(AddedOne, Symbols \X Symbols, Seq(Symbols \X Symbols)) /\ fields \in Seq(Symbols \X Symbols)
      BY AddedOneMaps DEF Entries
    <2>. QED
      BY <2>1, FlattenAppliedType
  <1>. QED
    BY <1>3, <1>4, <1>5, <1>6 DEF Entries

LEMMA AddedConcat ==
  ASSUME NEW a \in Entries, NEW b \in Entries
  PROVE  a \o b \in Entries /\ Added(a \o b) = Added(a) \o Added(b)
  <1> DEFINE S == Symbols \X Symbols
             c == a \o b
  <1>1. Maps(AddedOne, S, Seq(S)) /\ a \in Seq(S) /\ b \in Seq(S)
    BY AddedOneMaps DEF Entries
  <1> HIDE DEF S
  <1>2. FlattenSeq(Applied(c, AddedOne)) = FlattenSeq(Applied(a, AddedOne)) \o FlattenSeq(Applied(b, AddedOne))
    BY <1>1, FlattenAppliedConcat
  <1>3. c \in Entries
    BY <1>1, ConcatQuiet DEF Entries, S
  <1> HIDE DEF c
  <1>4. /\ Added(c) = FlattenSeq(Applied(c, AddedOne))
        /\ Added(a) = FlattenSeq(Applied(a, AddedOne))
        /\ Added(b) = FlattenSeq(Applied(b, AddedOne))
    BY <1>3, AddedIs
  <1>5. Added(c) = Added(a) \o Added(b)
    BY <1>2, <1>4, Zenon
  <1>. QED
    BY <1>3, <1>5 DEF c

LEMMA AddedWhole ==
  ASSUME NEW fields \in Seq(NonEmpty \X NonEmpty)
  PROVE  fields \in Entries /\ Added(fields) = fields
  <1> DEFINE T == NonEmpty \X NonEmpty
             S == Symbols \X Symbols
             A(s) == FlattenSeq(Applied(s, AddedOne))
             P == {s \in Seq(T) : A(s) = s}
  <1>1. T \subseteq S /\ Seq(T) \subseteq Seq(S)
    BY SeqMonotonic DEF NonEmpty
  <1>2. <<>> \in P
    BY AppliedEmpty, EmptySeq
  <1>3. ASSUME NEW s \in Seq(T), s \in P, NEW x \in T PROVE Append(s, x) \in P
    <2>1. s \in Seq(S) /\ x \in S /\ Maps(AddedOne, S, Seq(S))
      BY <1>1, AddedOneMaps DEF Entries
    <2>2. A(Append(s, x)) = A(s) \o AddedOne[x]
      <3> HIDE DEF S
      <3>. QED
        BY <2>1, FlattenApplied
    <2>3. AddedOne[x] = <<x>>
      <3>1. x[1] # <<>> /\ x[2] # <<>>
        BY DEF NonEmpty
      <3>. QED
        BY <2>1, <3>1 DEF AddedOne
    <2>4. Append(s, x) = s \o <<x>> /\ Append(s, x) \in Seq(T)
      <3> HIDE DEF T, A
      <3>. QED
        BY AppendIsConcat, AppendProperties
    <2>5. A(s) = s
      BY <1>3
    <2> HIDE DEF A, T
    <2>6. A(Append(s, x)) = Append(s, x)
      BY <2>2, <2>3, <2>4, <2>5, Zenon
    <2>. QED
      BY <2>4, <2>6
  <1>4. Seq(T) \subseteq P
    <2> HIDE DEF P, T
    <2>. QED
      BY <1>2, <1>3, SeqInductive
  <1>5. A(fields) = fields
    BY <1>4
  <1>6. fields \in Entries
    BY <1>1 DEF Entries
  <1> HIDE DEF A
  <1>. QED
    BY <1>5, <1>6, AddedIs DEF A

-----------------------------------------------------------------------------
(***************************************************************************)
(* The text of an answer, and what it is read as.                          *)
(***************************************************************************)
AnswerText(code, hs, body) == StatusLine(code) \o (CRLF \o (FieldsText(hs) \o (CRLF \o body)))

LEMMA AnswerTextIs ==
  ASSUME NEW r, r.code \in Codes, r.headers \in Seq(ReplyHeaders), r.body \in Symbols
  PROVE  ResponseText(r) = AnswerText(r.code, r.headers, r.body)
  <1> DEFINE A == Characters
             h == Http10
             sp == <<" ">>
             re == <<"reason">>
             w == Spelled(r.code)
             c == CRLF
             t == HeaderText(r.headers)
             b == r.body
             line == ((h \o sp) \o w) \o (sp \o re)
  <1>1. /\ h \in Seq(A) /\ sp \in Seq(A) /\ re \in Seq(A) /\ w \in Seq(A) /\ c \in Seq(A)
        /\ t \in Seq(A) /\ b \in Seq(A)
    BY QuietLiterals, QuietText, StatusLineType, LineEndAt, FieldsTextIs DEF Symbols
  <1>2. <<" ", "reason">> = sp \o re
    <2>1. " " \in A /\ "reason" \in A
      BY TextAssumption DEF Written
    <2>. QED
      BY <2>1, TwoAre
  <1>3. ResponseText(r) = (((((h \o sp) \o w) \o <<" ", "reason">>) \o c) \o t) \o c \o b
    BY Zenon DEF ResponseText
  <1>4. t = FieldsText(r.headers)
    BY FieldsTextIs
  <1>5. StatusLine(r.code) = h \o (sp \o (w \o (sp \o re)))
    BY Zenon DEF StatusLine
  <1> HIDE DEF A, h, sp, re, w, c, t, b
  <1>6. line = h \o (sp \o (w \o (sp \o re))) /\ line \in Seq(A)
    <2> DEFINE s == sp \o re
               hs == h \o sp
               hw == hs \o w
               ws == w \o s
    <2>1. s \in Seq(A) /\ hs \in Seq(A) /\ ws \in Seq(A) /\ hw \in Seq(A)
      <3>1. s \in Seq(A) /\ hs \in Seq(A)
        BY <1>1, ConcatQuiet
      <3> HIDE DEF s, hs
      <3>2. ws \in Seq(A) /\ hw \in Seq(A)
        BY <1>1, <3>1, ConcatQuiet
      <3>. QED
        BY <3>1, <3>2
    <2> HIDE DEF s
    <2>2. Regroups(hs, w, s)
      <3> HIDE DEF hs
      <3>. QED
        BY <1>1, <2>1, Regroup
    <2>3. Regroups(h, sp, ws)
      <3> HIDE DEF ws
      <3>. QED
        BY <1>1, <2>1, Regroup
    <2>4. line = hw \o s
      BY DEF s
    <2>5. line \in Seq(A)
      <3> HIDE DEF hw, line
      <3>. QED
        BY <2>1, <2>4, ConcatQuiet
    <2>6. hw \o s = h \o (sp \o ws)
      BY <2>2, <2>3, Zenon DEF Regroups
    <2>. QED
      BY <2>4, <2>5, <2>6, Zenon DEF s
  <1> DEFINE cb == c \o b
             lc == line \o c
             lct == lc \o t
  <1>7. (lct \o c) \o b = line \o (c \o (t \o cb))
    <2> HIDE DEF line
    <2>1. cb \in Seq(A) /\ lc \in Seq(A)
      BY <1>1, <1>6, ConcatQuiet
    <2>2. lct \in Seq(A)
      <3> HIDE DEF lc
      <3>. QED
        BY <1>1, <2>1, ConcatQuiet
    <2>3. Regroups(lct, c, b)
      <3> HIDE DEF lct
      <3>. QED
        BY <1>1, <2>2, Regroup
    <2> HIDE DEF cb
    <2>4. t \o cb \in Seq(A)
      BY <1>1, <2>1, ConcatQuiet
    <2>5. Regroups(lc, t, cb)
      <3> HIDE DEF lc
      <3>. QED
        BY <1>1, <2>1, Regroup
    <2> DEFINE tcb == t \o cb
    <2>6. Regroups(line, c, tcb)
      <3> HIDE DEF tcb
      <3>. QED
        BY <1>1, <1>6, <2>4, Regroup DEF tcb
    <2>. QED
      BY <2>3, <2>5, <2>6, Zenon DEF Regroups, cb
  <1>8. ResponseText(r) = (lct \o c) \o b
    BY <1>2, <1>3
  <1> HIDE DEF lct, line
  <1>9. ResponseText(r) = line \o (c \o (t \o cb))
    BY <1>7, <1>8
  <1>. QED
    BY <1>4, <1>5, <1>6, <1>9, Zenon DEF AnswerText, cb, c, b

-----------------------------------------------------------------------------
(***************************************************************************)
(* The answer as a whole: its status line, its header lines, the empty     *)
(* line and its body.                                                      *)
(***************************************************************************)

Threes(a, b, e, g) == (a \o (b \o e)) \o g = a \o (b \o (e \o g))

LEMMA ThreeParts ==
  ASSUME NEW A, NEW a \in Seq(A), NEW b \in Seq(A), NEW e \in Seq(A), NEW g \in Seq(A)
  PROVE  /\ a \o (b \o e) \in Seq(A) /\ Len(a \o (b \o e)) = Len(a) + (Len(b) + Len(e))
         /\ Threes(a, b, e, g)
  <1> DEFINE be == b \o e
             eg == e \o g
  <1>1. be \in Seq(A) /\ Len(be) = Len(b) + Len(e)
    BY ConcatAt
  <1>2. Regroups(b, e, g)
    BY Regroup
  <1> HIDE DEF be
  <1>3. Regroups(a, be, g)
    BY <1>1, Regroup
  <1>4. a \o be \in Seq(A) /\ Len(a \o be) = Len(a) + Len(be)
    BY <1>1, ConcatAt
  <1>. QED
    BY <1>1, <1>2, <1>3, <1>4, Zenon DEF Regroups, Threes, be

Relayed(answer, code, b, x, body) ==
  /\ answer.code = code /\ answer.body = body
  /\ \E more \in Entries :
       /\ answer.headers = Append(b, <<x[1], x[2] \o <<"\r">>>>) \o more
       /\ b # <<>> => more = <<>>

LEMMA AnswerParts ==
  ASSUME NEW code \in Codes, NEW b \in Seq(ReplyHeaders), NEW x \in ReplyHeaders, NEW body \in Symbols
  PROVE  LET text == AnswerText(code, Append(b, x), body)
         IN /\ CodeText(text) = Spelled(code)
            /\ AllHeaders(text) = FieldsText(b) \o (Pair(x) \o <<"\r">>)
            /\ Body(text) = body
  <1> DEFINE A == Characters
             line == StatusLine(code)
             c == CRLF
             cr == <<"\r">>
             nl == <<"\n">>
             t == FieldsText(b)
             p == Pair(x)
             d == EmptyLine
             z == c \o body
             q == t \o (p \o (c \o z))
             text == AnswerText(code, Append(b, x), body)
             start == line \o c
             all == t \o (p \o cr)
  <1>1. /\ line \in Seq(Quiet) /\ line \in Seq(A) /\ c \in Seq(A) /\ Len(c) = 2 /\ t \in Seq(A)
        /\ p \in Seq(A) /\ p \in Seq(Quiet) /\ p # <<>> /\ body \in Seq(A)
        /\ d \in Seq(A) /\ Len(d) = 4 /\ d = c \o c
    BY StatusLineType, QuietText, LineEndAt, FieldsTextIs, EndFieldIs, PairIs, EmptyLineIs DEF Symbols, EmptyLine
  <1>2. cr \in Seq(A) /\ nl \in Seq(A) /\ Len(cr) = 1 /\ c = cr \o nl
    <2>1. "\r" \in A /\ "\n" \in A
      BY TextAssumption DEF Written
    <2>. QED
      BY <2>1, OneIs, TwoAre, Zenon DEF CRLF
  <1>3. text = line \o (c \o ((t \o (p \o c)) \o z))
    BY FieldsAppended, Zenon DEF AnswerText
  <1>4. q \in Starts /\ Find(q, d, 0) = Len(t) + Len(p)
    BY <1>1, EmptyLineAt
  <1>5. Find(line \o (c \o q), c, 0) = Len(line) /\ CodeText(line \o (c \o q)) = Spelled(code)
    <2>1. q \in Symbols
      BY <1>4 DEF Starts
    <2> HIDE DEF q
    <2>. QED
      BY <2>1, CodeTextIs
  <1>6. Find(line \o (c \o q), d, 0) = Behind(Len(line) + 2, Find(q, d, 0))
    <2> HIDE DEF q
    <2>. QED
      BY <1>1, <1>4, SkipLine
  <1> HIDE DEF A, line, c, cr, nl, t, p, d, text
  <1>7. z \in Seq(A) /\ start \in Seq(A) /\ Len(start) = Len(line) + 2 /\ Len(line) \in Nat
        /\ Len(t) \in Nat /\ Len(p) \in Nat
    <2>1. z \in Seq(A)
      BY <1>1, ConcatQuiet
    <2>2. line \in Seq(A) /\ c \in Seq(A)
      BY <1>1
    <2>3. start \in Seq(A) /\ Len(start) = Len(line) + Len(c) /\ Len(line) \in Nat
      BY <2>2, ConcatAt
    <2>4. Len(t) \in Nat /\ Len(p) \in Nat
      BY <1>1, LenProperties
    <2> HIDE DEF start
    <2>. QED
      BY <1>1, <2>1, <2>3, <2>4
  <1> HIDE DEF z
  <1>8. (t \o (p \o c)) \o z = q
    <2>1. t \in Seq(A) /\ p \in Seq(A) /\ c \in Seq(A) /\ z \in Seq(A)
      BY <1>1, <1>7
    <2>2. Threes(t, p, c, z)
      BY <2>1, ThreeParts
    <2>. QED
      BY <2>2, Zenon DEF Threes, q
  <1>9. text = line \o (c \o q)
    BY <1>3, <1>8, Zenon
  <1>10. q \in Seq(A)
    BY <1>4 DEF Starts, Symbols, A
  <1> HIDE DEF q
  <1>11. text = start \o q
    <2>1. Regroups(line, c, q)
      BY <1>1, <1>10, Regroup
    <2>. QED
      BY <1>9, <2>1, Zenon DEF Regroups
  <1> DEFINE end == Len(line) + 2 + (Len(t) + Len(p))
  <1>12. Find(text, c, 0) = Len(line) /\ Find(text, d, 0) = end /\ CodeText(text) = Spelled(code)
    <2>1. Behind(Len(line) + 2, Len(t) + Len(p)) = end
      <3>1. \A m \in Nat, n \in Nat : Behind(m + 2, n) = m + 2 + n
        BY DEF Behind, Npos
      <3>2. Len(t) + Len(p) \in Nat
        BY <1>7
      <3>. QED
        BY <1>7, <3>1, <3>2
    <2>. QED
      BY <1>4, <1>5, <1>6, <1>9, <2>1
  <1>13. all \in Seq(A) /\ Len(all) = Len(t) + (Len(p) + 1)
    <2>1. t \in Seq(A) /\ p \in Seq(A) /\ cr \in Seq(A)
      BY <1>1, <1>2
    <2>2. all \in Seq(A) /\ Len(all) = Len(t) + (Len(p) + Len(cr))
      BY <2>1, ThreeParts
    <2> HIDE DEF all
    <2>. QED
      BY <1>2, <2>2
  <1>14. AllHeaders(text) = all
    <2> DEFINE y == nl \o z
    <2>1. y \in Seq(A) /\ cr \o y = c \o z
      <3>1. Regroups(cr, nl, z)
        BY <1>2, <1>7, Regroup
      <3>2. y \in Seq(A)
        BY <1>2, <1>7, ConcatQuiet
      <3>. QED
        BY <1>2, <3>1, <3>2, Zenon DEF Regroups
    <2> HIDE DEF y
    <2>2. all \o y = q
      <3>1. t \in Seq(A) /\ p \in Seq(A) /\ cr \in Seq(A) /\ y \in Seq(A)
        BY <1>1, <1>2, <2>1
      <3>2. Threes(t, p, cr, y)
        BY <3>1, ThreeParts
      <3>. QED
        BY <2>1, <3>2, Zenon DEF Threes, q
    <2> HIDE DEF all
    <2>3. Substr(start \o (all \o y), Len(start), Len(all)) = all
      BY <1>7, <1>13, <2>1, SubstrMiddle
    <2> HIDE DEF start
    <2>4. AllHeaders(text) = Substr(text, Len(line) + 2, end - Len(line) - 1)
      BY <1>12, Zenon DEF AllHeaders, c, d, EmptyLine
    <2>5. end - Len(line) - 1 = Len(all) /\ Len(line) + 2 = Len(start)
      BY <1>7, <1>13
    <2>. QED
      BY <1>11, <2>2, <2>3, <2>4, <2>5
  <1>15. Body(text) = body
    <2> DEFINE tpd == t \o (p \o d)
               front == start \o tpd
    <2>1. tpd \in Seq(A) /\ Len(tpd) = Len(t) + (Len(p) + 4) /\ tpd \o body = q
      <3>1. t \in Seq(A) /\ p \in Seq(A) /\ d \in Seq(A) /\ body \in Seq(A)
        BY <1>1
      <3>2. tpd \in Seq(A) /\ Len(tpd) = Len(t) + (Len(p) + Len(d)) /\ Threes(t, p, d, body)
        BY <3>1, ThreeParts
      <3>3. Regroups(c, c, body)
        BY <1>1, Regroup
      <3>4. d \o body = c \o z
        BY <1>1, <3>3, Zenon DEF Regroups, z
      <3>5. tpd \o body = q
        BY <3>2, <3>4, Zenon DEF Threes, q
      <3> HIDE DEF tpd
      <3>. QED
        BY <1>1, <3>2, <3>5
    <2> HIDE DEF tpd, start
    <2>2. Regroups(start, tpd, body)
      BY <1>1, <1>7, <2>1, Regroup
    <2>3. text = front \o body
      BY <1>11, <2>1, <2>2, Zenon DEF Regroups
    <2>4. front \in Seq(A) /\ Len(front) = Len(start) + Len(tpd)
      BY <1>7, <2>1, ConcatAt
    <2> HIDE DEF front
    <2>5. Len(front) = end + 4
      BY <1>7, <2>1, <2>4
    <2>6. Rest(front \o body, Len(front)) = body
      BY <1>1, <2>4, RestAfter
    <2> HIDE DEF end
    <2>7. Body(text) = Rest(text, end + 4)
      BY <1>12, Zenon DEF Body, d, EmptyLine
    <2>. QED
      BY <2>3, <2>5, <2>6, <2>7
  <1>. QED
    BY <1>12, <1>14, <1>15 DEF text, all, t, p, cr

LEMMA AnswerIsRead ==
  ASSUME NEW code \in Codes, NEW b \in Seq(ReplyHeaders), NEW x \in ReplyHeaders, NEW body \in Symbols
  PROVE  LET parsed == ParseResponse(AnswerText(code, Append(b, x), body))
         IN parsed.form = "parsed" /\ Relayed(parsed.response, code, b, x, body)
  <1> DEFINE text == AnswerText(code, Append(b, x), body)
             all == AllHeaders(text)
             fl == <<x[1], x[2] \o <<"\r">>>>
             ext == Append(b, fl)
             headers == Added(Fields(all))
             answer == [code |-> code, headers |-> headers, body |-> body]
  <1>1. CodeText(text) = Spelled(code) /\ all = FieldsText(b) \o (Pair(x) \o <<"\r">>) /\ Body(text) = body
    BY AnswerParts
  <1>2. ~CodeThrows(Spelled(code)) /\ CodeNumber(Spelled(code)) = code
    BY SpelledCode
  <1> HIDE DEF text, all
  <1>3. PICK more \in Entries : Fields(all) = ext \o more /\ (b # <<>> => more = <<>>)
    <2>1. FieldsFrom(b, x, all)
      BY <1>1, FieldsRead
    <2>. QED
      BY <2>1, Zenon DEF FieldsFrom
  <1>4. ext \in Seq(NonEmpty \X NonEmpty)
    <2>1. b \in Seq(NonEmpty \X NonEmpty) /\ x \in NonEmpty \X NonEmpty
      BY ReplyHeadersAre, SeqMonotonic
    <2>2. fl \in NonEmpty \X NonEmpty
      <3> DEFINE cr == <<"\r">>
                 v == x[2] \o cr
      <3>1. "\r" \in Characters
        BY TextAssumption DEF Written
      <3>2. cr \in Seq(Characters) /\ Len(cr) = 1
        BY <3>1, OneIs
      <3>3. x[2] \in Seq(Characters) /\ x[1] \in NonEmpty
        BY <2>1 DEF NonEmpty, Symbols
      <3> HIDE DEF cr
      <3>4. v \in Seq(Characters) /\ Len(v) = Len(x[2]) + Len(cr) /\ Len(x[2]) \in Nat
        BY <3>2, <3>3, ConcatAt
      <3> HIDE DEF v
      <3>5. Len(v) # 0
        BY <3>2, <3>4
      <3>6. v \in NonEmpty
        BY <3>4, <3>5, EmptySeq DEF NonEmpty, Symbols
      <3>. QED
        BY <3>3, <3>6 DEF v, cr
    <2> HIDE DEF fl
    <2>. QED
      BY <2>1, <2>2, AppendProperties
  <1> HIDE DEF ext
  <1>5. headers = ext \o Added(more) /\ Added(more) \in Entries /\ (b # <<>> => Added(more) = <<>>)
    <2>1. ext \in Entries /\ Added(ext) = ext
      BY <1>4, AddedWhole
    <2>2. Added(ext \o more) = Added(ext) \o Added(more)
      BY <1>3, <2>1, AddedConcat
    <2>3. Added(more) \in Entries
      BY <1>3, AddedIs
    <2>4. Added(<<>>) = <<>>
      <3>1. <<>> \in Seq(NonEmpty \X NonEmpty)
        BY EmptySeq
      <3>. QED
        BY <3>1, AddedWhole
    <2>. QED
      BY <1>3, <2>1, <2>2, <2>3, <2>4
  <1>6. ParseResponse(text) =
          IF CodeThrows(CodeText(text)) THEN [form |-> "throws"]
          ELSE IF CodeNumber(CodeText(text)) \notin Codes THEN [form |-> "nullptr"]
          ELSE [form |-> "parsed", response |-> [code |-> CodeNumber(CodeText(text)),
                  headers |-> headers, body |-> Body(text)]]
    BY Zenon DEF ParseResponse, all
  <1> HIDE DEF headers
  <1>7. ParseResponse(text) = [form |-> "parsed", response |-> answer]
    BY <1>1, <1>2, <1>6
  <1>8. ParseResponse(text).form = "parsed" /\ ParseResponse(text).response = answer
    BY <1>7
  <1>9. answer.code = code /\ answer.body = body /\ answer.headers = headers
    OBVIOUS
  <1> HIDE DEF answer
  <1>10. Relayed(answer, code, b, x, body)
    BY <1>5, <1>9 DEF Relayed, ext, fl
  <1>. QED
    BY <1>8, <1>10 DEF text

-----------------------------------------------------------------------------
(***************************************************************************)
(* What a call has returned is the answer it has read last.                *)
(***************************************************************************)
RelayInv ==
  pc = "done" /\ status = "OK" => Parsed.form = "parsed" /\ response = Parsed.response

LEMMA RelayInit == Init => RelayInv
BY DEF Init, RelayInv

LEMMA RelayStep == RelayInv /\ [Next]_vars => RelayInv'
  <1> SUFFICES ASSUME RelayInv, [Next]_vars PROVE RelayInv'
    OBVIOUS
  <1> USE DEF RelayInv, Goto
  <1>1. ASSUME NEW text \in Requests, HandleRequest(text) PROVE RelayInv'
    BY <1>1 DEF HandleRequest
  <1>2. CASE Connect \/ Write \/ WriteThrows \/ ParseThrows
    BY <1>2 DEF Connect, Write, WriteThrows, ParseThrows
  <1>3. CASE Unreachable \/ Unrecognized
    BY <1>3 DEF Unreachable, Unrecognized
  <1>4. ASSUME NEW text \in Texts, Read(text) PROVE RelayInv'
    BY <1>4 DEF Read
  <1>5. CASE Relay \/ Redirect
    <2>1. /\ Parsed.form = "parsed" /\ response' = Parsed.response /\ raw_response' = raw_response
      BY <1>5 DEF Relay, Redirect
    <2>2. Parsed' = Parsed
      BY <2>1 DEF Parsed
    <2>. QED
      BY <2>1, <2>2
  <1>6. CASE RedirectNowhere
    BY <1>6 DEF RedirectNowhere
  <1>7. CASE Return
    BY <1>7 DEF Return
  <1>8. CASE UNCHANGED vars
    <2>1. pc' = pc /\ status' = status /\ response' = response /\ raw_response' = raw_response
      BY <1>8 DEF vars, call
    <2>2. Parsed' = Parsed
      BY <2>1 DEF Parsed
    <2>. QED
      BY <2>1, <2>2
  <1>. QED
    BY <1>1, <1>2, <1>3, <1>4, <1>5, <1>6, <1>7, <1>8 DEF Next, Loop, ForwardRequest, Peer

LEMMA RepliesAre ==
  ASSUME NEW r \in Replies
  PROVE  r.code \in Codes /\ r.body \in Symbols /\ r.headers \in Seq(ReplyHeaders)
  <1>1. /\ r.code \in Codes /\ r.body \in Symbols /\ r.headers \in Seq(NonEmpty \X NonEmpty)
        /\ \A k \in DOMAIN r.headers :
             /\ {"\r", ":"} \cap Range(r.headers[k][1]) = {}
             /\ "\r" \notin Range(r.headers[k][2])
    BY ReplyAssumption, Zenon DEF NonEmpty
  <1> DEFINE hs == r.headers
             n == Len(hs)
  <1>2. n \in Nat /\ DOMAIN hs = 1 .. n /\ \A k \in 1 .. n : hs[k] \in NonEmpty \X NonEmpty
    BY <1>1, LenProperties, ElementOfSeq
  <1>3. ASSUME NEW s \in Symbols, NEW c, c \notin Range(s) PROVE Lacks(s, c)
    <2>1. DOMAIN s = 1 .. Len(s)
      BY LenProperties DEF Symbols
    <2>2. \A j \in DOMAIN s : s[j] # c
      BY <1>3 DEF Range
    <2>. QED
      BY <2>1, <2>2 DEF Lacks
  <1>4. ASSUME NEW k \in 1 .. n PROVE hs[k] \in ReplyHeaders
    <2> DEFINE name == hs[k][1]
               value == hs[k][2]
    <2>1. name \in NonEmpty /\ value \in NonEmpty /\ hs[k] = <<name, value>>
      BY <1>2
    <2>2. {"\r", ":"} \cap Range(name) = {} /\ "\r" \notin Range(value)
      BY <1>1, <1>2
    <2> HIDE DEF name, value, hs
    <2>3. "\r" \notin Range(name) /\ ":" \notin Range(name)
      BY <2>2
    <2>4. Lacks(name, "\r") /\ Lacks(name, ":") /\ Lacks(value, "\r")
      BY <1>3, <2>1, <2>2, <2>3 DEF NonEmpty
    <2>5. name \in Seq(Quiet) /\ value \in Seq(Quiet) /\ name # <<>> /\ value # <<>>
      BY <2>1, <2>4, LacksWithout DEF NonEmpty, Symbols, Quiet
    <2>. QED
      BY <2>1, <2>4, <2>5 DEF ReplyHeaders, Named
  <1>5. hs \in Seq(ReplyHeaders)
    <2>1. hs \in Seq(NonEmpty \X NonEmpty)
      BY <1>1
    <2> HIDE DEF hs
    <2>. QED
      BY <1>2, <1>4, <2>1
  <1>. QED
    BY <1>1, <1>5

LEMMA PrefixOfConcat ==
  ASSUME NEW A, NEW a \in Seq(A), NEW b \in Seq(A)
  PROVE  IsPrefix(a, a \o b)
  BY DEF IsPrefix

LEMMA HeadersRelayed ==
  ASSUME NEW b \in Entries, NEW x \in Symbols \X Symbols, NEW y \in Symbols \X Symbols, NEW more \in Entries,
         NEW sent, sent = Append(b, x), NEW got, got = Append(b, y) \o more
  PROVE  LET n == Len(sent)
         IN /\ n = Len(b) + 1 /\ sent[n] = x /\ got[n] = y
            /\ SubSeq(got, 1, n - 1) = SubSeq(sent, 1, n - 1)
            /\ more = <<>> => Len(got) = n
  <1> DEFINE S == Symbols \X Symbols
             m == Len(b)
             ext == Append(b, y)
  <1>1. b \in Seq(S) /\ more \in Seq(S) /\ x \in S /\ y \in S
    BY DEF Entries
  <1> HIDE DEF S
  <1>2. /\ ext \in Seq(S) /\ Len(ext) = m + 1 /\ ext[m + 1] = y /\ m \in Nat
        /\ \A k \in 1 .. m : ext[k] = b[k]
    BY <1>1, AppendProperties, LenProperties
  <1>3. /\ sent \in Seq(S) /\ Len(sent) = m + 1 /\ sent[m + 1] = x
        /\ \A k \in 1 .. m : sent[k] = b[k]
    BY <1>1, AppendProperties
  <1>x. got = ext \o more
    OBVIOUS
  <1> HIDE DEF ext
  <1>4. /\ got \in Seq(S) /\ Len(got) = Len(ext) + Len(more) /\ Len(more) \in Nat
        /\ \A k \in 1 .. Len(ext) : got[k] = ext[k]
    <2>1. ext \in Seq(S)
      BY <1>2
    <2>. QED
      BY <1>1, <1>x, <2>1, ConcatNamed
  <1> HIDE DEF m
  <1>5. got[m + 1] = y /\ \A k \in 1 .. m : got[k] = b[k]
    <2>1. m + 1 \in 1 .. Len(ext) /\ \A k \in 1 .. m : k \in 1 .. Len(ext)
      BY <1>2
    <2>. QED
      BY <1>2, <1>4, <2>1
  <1>6. SubSeq(sent, 1, m) = SubSeq(got, 1, m)
    <2> DEFINE a == SubSeq(sent, 1, m)
               d == SubSeq(got, 1, m)
    <2>1. a \in Seq(S) /\ Len(a) = m /\ \A k \in 1 .. m : a[k] = sent[k]
      BY <1>2, <1>3
    <2>2. d \in Seq(S) /\ Len(d) = m /\ \A k \in 1 .. m : d[k] = got[k]
      <3> DEFINE g == Len(got)
      <3>1. g = m + 1 + Len(more)
        BY <1>2, <1>4
      <3> HIDE DEF g
      <3>2. m <= g
        BY <1>2, <1>4, <3>1
      <3>. QED
        BY <1>2, <1>4, <3>2 DEF g
    <2> HIDE DEF a, d
    <2>3. \A k \in 1 .. m : a[k] = d[k]
      BY <1>3, <1>5, <2>1, <2>2
    <2>4. a = d
      BY <2>1, <2>2, <2>3, SeqEqual
    <2>. QED
      BY <2>4 DEF a, d
  <1>7. more = <<>> => Len(got) = m + 1
    BY <1>2, <1>4, EmptySeq
  <1>8. (m + 1) - 1 = m
    BY <1>2
  <1>. QED
    BY <1>3, <1>5, <1>6, <1>7, <1>8 DEF m

LEMMA RelaysIs == RelayInv => RelaysAnswer
  <1> SUFFICES ASSUME RelayInv, pc = "done", status = "OK", NEW r \in Replies, Len(r.headers) > 0,
                      raw_response = ResponseText(r)
               PROVE  LET n == Len(r.headers)
                      IN /\ response.code = r.code /\ response.body = r.body
                         /\ SubSeq(response.headers, 1, n - 1) = SubSeq(r.headers, 1, n - 1)
                         /\ response.headers[n][1] = r.headers[n][1]
                         /\ IsPrefix(r.headers[n][2], response.headers[n][2])
                         /\ n > 1 => Len(response.headers) = n
    BY Zenon DEF RelaysAnswer
  <1>1. r.code \in Codes /\ r.body \in Symbols /\ r.headers \in Seq(ReplyHeaders)
    BY RepliesAre
  <1>2. response = ParseResponse(AnswerText(r.code, r.headers, r.body)).response
    BY <1>1, AnswerTextIs DEF RelayInv, Parsed
  <1> DEFINE sent == r.headers
             got == response.headers
  <1>3. PICK b \in Seq(ReplyHeaders), x \in ReplyHeaders : sent = Append(b, x)
    <2>1. sent # <<>>
      BY EmptySeq
    <2> HIDE DEF sent
    <2>. QED
      BY <1>1, <2>1, SequenceEmptyOrAppend DEF sent
  <1>4. Relayed(response, r.code, b, x, r.body)
    BY <1>1, <1>2, <1>3, AnswerIsRead
  <1> DEFINE cr == <<"\r">>
             y == <<x[1], x[2] \o cr>>
  <1>5. PICK more \in Entries : got = Append(b, y) \o more /\ (b # <<>> => more = <<>>)
    BY <1>4, Zenon DEF Relayed
  <1>6. b \in Entries /\ x \in Symbols \X Symbols /\ y \in Symbols \X Symbols /\ IsPrefix(x[2], x[2] \o cr)
    <2>1. "\r" \in Characters
      BY TextAssumption DEF Written
    <2>2. cr \in Seq(Characters)
      BY <2>1, OneIs
    <2>3. b \in Entries /\ x \in Symbols \X Symbols
      BY ReplyHeadersAre
    <2>4. x[1] \in Symbols /\ x[2] \in Seq(Characters)
      BY <2>3 DEF Symbols
    <2> HIDE DEF cr
    <2>5. x[2] \o cr \in Seq(Characters) /\ IsPrefix(x[2], x[2] \o cr)
      BY <2>2, <2>4, ConcatQuiet, PrefixOfConcat
    <2>. QED
      BY <2>3, <2>4, <2>5 DEF Symbols
  <1>7. y[1] = x[1] /\ y[2] = x[2] \o cr
    OBVIOUS
  <1> DEFINE n == Len(sent)
  <1> HIDE DEF sent, got, y, cr
  <1>8. /\ n = Len(b) + 1 /\ sent[n] = x /\ got[n] = y
        /\ SubSeq(got, 1, n - 1) = SubSeq(sent, 1, n - 1)
        /\ more = <<>> => Len(got) = n
    BY <1>3, <1>5, <1>6, HeadersRelayed
  <1>9. n > 1 => b # <<>>
    <2>1. Len(<<>>) = 0
      BY EmptySeq
    <2> HIDE DEF n
    <2>2. b = <<>> => n = 1
      BY <1>8, <2>1
    <2>. QED
      BY <2>2
  <1> HIDE DEF n
  <1>10. /\ SubSeq(got, 1, n - 1) = SubSeq(sent, 1, n - 1)
         /\ got[n][1] = sent[n][1] /\ IsPrefix(sent[n][2], got[n][2]) /\ (n > 1 => Len(got) = n)
    BY <1>5, <1>6, <1>7, <1>8, <1>9
  <1>. QED
    BY <1>4, <1>10, Zenon DEF Relayed, n, sent, got

-----------------------------------------------------------------------------
(* The theorems about what is asked and what is answered. *)

IInv == LoopInv /\ CallInv

LEMMA CallInvariant == Spec => []IInv
  <1>1. Init => IInv
    BY LoopInit, CallInit DEF IInv
  <1>2. IInv /\ [Next]_vars => IInv'
    <2>1. LoopInv => i \in Nat
      BY ProxyAssumption DEF LoopInv
    <2>. QED
      BY <2>1, LoopStep, CallStep DEF IInv
  <1>. QED
    BY <1>1, <1>2, PTL DEF Spec

(***************************************************************************)
(* Whatever is received, every local of a call has its type, and a header  *)
(* of a response has a name and a value.                                   *)
(***************************************************************************)
THEOREM TypeCorrect == Spec => []TypeOK
  <1>1. IInv => TypeOK
    BY TypeIs DEF IInv, LoopInv
  <1>. QED
    BY <1>1, CallInvariant, PTL

(***************************************************************************)
(* Whatever a client has sent that parses, each host that is asked         *)
(* receives a request that parses, names that host, asks it to close the   *)
(* connection, and has the client's other headers and its body.            *)
(***************************************************************************)
THEOREM AskedProperly == Spec => []AsksProperly
  <1>1. IInv => AsksProperly
    BY AsksProperlyIs DEF IInv
  <1>. QED
    BY <1>1, CallInvariant, PTL

(***************************************************************************)
(* The configured host is asked for the client's URI with its own path for *)
(* the prefix, and the host of a redirection for the path of its URL.      *)
(***************************************************************************)
THEOREM AskedForTheRightThing == Spec => []AsksForTheRightThing
  <1>1. IInv => AsksForTheRightThing
    BY AsksRight DEF IInv
  <1>. QED
    BY <1>1, CallInvariant, PTL

(***************************************************************************)
(* What a host writes in the form of a response is what the client gets:   *)
(* code, body and headers, but for what ParseResponse does to the last     *)
(* header, whatever the host's headers and the length of its answer.       *)
(***************************************************************************)
THEOREM AnswerRelayed == Spec => []RelaysAnswer
BY RelayInit, RelayStep, RelaysIs, PTL DEF Spec
=============================================================================
