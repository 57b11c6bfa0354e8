---------------------------- MODULE RoutingProofs ----------------------------
(***************************************************************************)
(* Proofs about Routing for every configuration, every URI and every order *)
(* in which find_prefix visits the routing table.                          *)
(***************************************************************************)
EXTENDS Routing, InductionLemmas, FiniteSetTheorems, TLAPS

USE DEF table, lookup, Mapped, Stmt

-----------------------------------------------------------------------------
(***************************************************************************)
(* A URI with a "/" has a last one.                                        *)
(***************************************************************************)
LEMMA LastSlashExists ==
  ASSUME NEW u \in Paths, Slashes(u) # {}
  PROVE  /\ LastSlash(u) \in Slashes(u)
         /\ \A j \in Slashes(u) : j <= LastSlash(u)
  <1>1. Slashes(u) \in SUBSET (1 .. Len(u)) /\ Len(u) \in Nat
    BY DEF Slashes, Paths
  <1>2. \E k \in Slashes(u) : \A j \in Slashes(u) : j <= k
    BY <1>1, MaxOfPositions
  <1>. QED
    BY <1>2 DEF LastSlash

(***************************************************************************)
(* A prefix of a path is given by its length, and so are its characters.   *)
(***************************************************************************)
LEMMA PrefixFacts ==
  ASSUME NEW m \in Paths, NEW p \in Paths
  PROVE  IsPrefix(m, p) <=> Len(m) <= Len(p) /\ \A i \in 1 .. Len(m) : m[i] = p[i]
  <1> USE DEF Paths
  <1>1. SubSeq(m, 1, Len(m)) = m
    BY SubSeqFull
  <1>2. ASSUME Len(m) <= Len(p)
        PROVE  /\ SubSeq(p, 1, Len(m)) \in Paths
               /\ Len(SubSeq(p, 1, Len(m))) = Len(m)
               /\ \A i \in 1 .. Len(m) : SubSeq(p, 1, Len(m))[i] = p[i]
    BY <1>2
  <1>3. ASSUME Len(m) <= Len(p), \A i \in 1 .. Len(m) : m[i] = p[i]
        PROVE  SubSeq(p, 1, Len(m)) = m
    BY <1>2, <1>3, SeqEqual
  <1>. QED
    BY <1>1, <1>2, <1>3 DEF IsPrefix

LEMMA PrefixUnique ==
  ASSUME NEW m \in Paths, NEW n \in Paths, NEW p \in Paths,
         IsPrefix(m, p), IsPrefix(n, p), Len(m) = Len(n)
  PROVE  m = n
  BY PrefixFacts, SeqEqual DEF Paths

LEMMA ParentFacts ==
  ASSUME NEW u \in Paths, Slashes(u) # {}
  PROVE  /\ Parent(u) \in Paths
         /\ Len(Parent(u)) = LastSlash(u) - 1
         /\ \A i \in 1 .. LastSlash(u) - 1 : Parent(u)[i] = u[i]
         /\ LastSlash(u) \in 1 .. Len(u)
  <1>1. LastSlash(u) \in 1 .. Len(u)
    BY LastSlashExists DEF Slashes, Paths
  <1>2. Parent(u) = SubSeq(u, 1, LastSlash(u) - 1)
    BY DEF Parent
  <1>. QED
    BY <1>1, <1>2 DEF Paths

(***************************************************************************)
(* The test of find_prefix on the parent directory of a URI accepts, of    *)
(* the prefixes other than the URI itself, those that cover the URI.       *)
(***************************************************************************)
LEMMA MatchesIffCovers ==
  ASSUME NEW u \in Paths, NEW m \in Paths \ {<<>>}, m # u
  PROVE  Matches(m, Parent(u)) <=> Covers(m, u)
  <1>0. Len(m) \in Nat \ {0} /\ Len(u) \in Nat /\ DOMAIN u = 1 .. Len(u)
    BY DEF Paths
  <1>1. CASE Slashes(u) = {}
    <2>1. Parent(u) = u
      BY <1>1 DEF Parent
    <2>2. ASSUME Matches(m, u) PROVE Covers(m, u)
      <3>1. Len(m) <= Len(u) /\ \A i \in 1 .. Len(m) : m[i] = u[i]
        BY <2>2, PrefixFacts DEF Matches
      <3>2. Len(m) # Len(u) \/ Len(m) = 1
        BY <3>1, SeqEqual DEF Paths
      <3>3. Len(m) < Len(u) => u[Len(m) + 1] # Slash
        BY <1>0, <1>1 DEF Slashes
      <3>4. Len(m) = 1
        <4>1. Len(m) \in {1, Len(u)} \/ u[Len(m) + 1] = Slash
          BY <2>2 DEF Matches
        <4>2. Len(m) \in Int /\ Len(u) \in Int
          BY <1>0
        <4>3. Len(m) = Len(u) \/ Len(m) < Len(u)
          BY <3>1, <4>2 DEF Paths
        <4>. QED
          BY <3>2, <3>3, <4>1, <4>3 DEF Paths
      <3>5. m = <<u[1]>>
        BY <3>1, <3>4 DEF Paths
      <3>. QED
        BY <1>0, <1>1, <3>1, <3>4, <3>5 DEF Covers
    <2>3. ASSUME Covers(m, u) PROVE Matches(m, u)
      <3>1. m = <<u[1]>> /\ Len(u) > 0
        BY <1>0, <1>1, <2>3 DEF Covers
      <3>2. Len(m) = 1 /\ m[1] = u[1] /\ Len(u) \in Nat
        BY <1>0, <3>1
      <3>3. Len(m) <= Len(u) /\ \A i \in 1 .. Len(m) : m[i] = u[i]
        BY <3>1, <3>2
      <3>4. IsPrefix(m, u)
        BY <3>3, PrefixFacts
      <3>. QED
        BY <3>2, <3>4 DEF Matches
    <2>. QED
      BY <2>1, <2>2, <2>3
  <1>2. CASE Slashes(u) # {}
    <2> DEFINE P == Parent(u)
               L == LastSlash(u)
    <2>1. /\ P \in Paths /\ L \in 1 .. Len(u) /\ Len(P) = L - 1
          /\ \A i \in 1 .. L - 1 : P[i] = u[i]
      BY <1>2, ParentFacts
    <2>2. L \in Slashes(u) /\ \A j \in Slashes(u) : j \in 1 .. L
      BY <1>0, <1>2, LastSlashExists DEF Slashes
    <2>3. \A k \in 1 .. L : /\ SubSeq(u, 1, k - 1) \in Paths
                            /\ Len(SubSeq(u, 1, k - 1)) = k - 1
                            /\ \A i \in 1 .. k - 1 : SubSeq(u, 1, k - 1)[i] = P[i]
      BY <2>1 DEF Paths
    <2> HIDE DEF P, L
    <2>4. ASSUME Matches(m, P) PROVE Covers(m, u)
      <3>1. Len(m) <= L - 1 /\ \A i \in 1 .. Len(m) : m[i] = P[i]
        BY <2>1, <2>4, PrefixFacts DEF Matches
      <3>2. CASE Len(m) = 1
        <4>1. m = <<u[1]>>
          BY <1>0, <2>1, <3>1, <3>2 DEF Paths
        <4>. QED
          BY <1>0, <2>1, <2>2, <3>1, <3>2, <4>1 DEF Covers
      <3>3. CASE Len(m) = L - 1
        <4>1. m = SubSeq(u, 1, L - 1)
          BY <2>1, <2>3, <3>1, <3>3, SeqEqual DEF Paths
        <4>. QED
          BY <2>2, <4>1 DEF Covers
      <3>4. CASE Len(m) < L - 1 /\ P[Len(m) + 1] = Slash
        <4>1. Len(m) + 1 \in Slashes(u)
          BY <1>0, <2>1, <3>4 DEF Slashes
        <4>2. m = SubSeq(u, 1, (Len(m) + 1) - 1)
          BY <1>0, <2>1, <2>3, <3>1, <3>4, SeqEqual DEF Paths
        <4>. QED
          BY <4>1, <4>2 DEF Covers
      <3>. QED
        BY <1>0, <2>1, <2>4, <3>1, <3>2, <3>3, <3>4 DEF Matches
    <2>5. ASSUME Covers(m, u) PROVE Matches(m, P)
      <3>1. ASSUME NEW k \in Slashes(u), m = SubSeq(u, 1, k - 1) PROVE Matches(m, P)
        <4>0. k \in 1 .. L /\ Len(m) = k - 1 /\ \A i \in 1 .. k - 1 : m[i] = P[i]
          BY <2>2, <2>3, <3>1
        <4>1. Len(m) = k - 1 /\ IsPrefix(m, P)
          BY <2>1, <4>0, PrefixFacts
        <4>2. k < L => P[k] = Slash
          BY <1>0, <2>1, <2>2 DEF Slashes
        <4>. QED
          BY <2>1, <2>2, <4>1, <4>2 DEF Matches
      <3>2. ASSUME NEW k \in Slashes(u) \ {1}, m = <<u[1]>> PROVE Matches(m, P)
        <4>1. L > 1 /\ Len(m) = 1 /\ m[1] = P[1]
          BY <2>1, <2>2, <3>2
        <4>2. Len(m) <= Len(P) /\ \A i \in 1 .. Len(m) : m[i] = P[i]
          BY <2>1, <2>2, <4>1
        <4>3. IsPrefix(m, P)
          BY <2>1, <4>2, PrefixFacts
        <4>. QED
          BY <4>1, <4>3 DEF Matches
      <3>. QED
        BY <1>2, <2>5, <3>1, <3>2 DEF Covers
    <2>. QED
      BY <2>4, <2>5 DEF P
  <1>. QED
    BY <1>1, <1>2

-----------------------------------------------------------------------------
LEMMA TypeInit == Init => TypeOK
  BY RoutingAssumption DEF Init, TypeOK, Paths

LEMMA TypeStep == TypeOK /\ [Next]_vars => TypeOK'
  <1> SUFFICES ASSUME TypeOK, [Next]_vars PROVE TypeOK'
    OBVIOUS
  <1> USE RoutingAssumption DEF TypeOK
  <1>1. CASE LoadPort
    <2>1. Stmt \in Statements /\ Stmt.kind = "port"
      BY <1>1 DEF LoadPort, Loading, GoodPort
    <2>2. Stmt.number \in Nat
      BY <2>1 DEF Statements
    <2>. QED
      BY <1>1, <2>2 DEF LoadPort
  <1>2. CASE AddHandler
    <2>1. Stmt \in Statements /\ Stmt.kind \in {"path", "default"} /\ Stmt.handler \in Handlers
      BY <1>2 DEF AddHandler, Loading, GoodHandler
    <2>2. Prefix(Stmt) \in Paths \ {<<>>}
      BY <2>1 DEF Statements, Prefix
    <2>3. /\ DOMAIN handler_map' = Mapped \cup {Prefix(Stmt)}
          /\ handler_map' \in [DOMAIN handler_map' -> Handlers]
      BY <1>2, <2>1 DEF AddHandler
    <2>4. handlers_' \in Seq(Mapped' \X Handlers)
      <3> DEFINE P == Prefix(Stmt)
                 entry == <<P, Stmt.handler>>
                 D == Mapped \cup {P}
      <3>1. entry \in D \X Handlers /\ Mapped \X Handlers \subseteq D \X Handlers
        BY <2>1
      <3>2. handlers_' = Append(handlers_, entry) /\ Mapped' = D
        BY <1>2, <2>3 DEF AddHandler
      <3>3. handlers_ \in Seq(Mapped \X Handlers)
        BY DEF TypeOK
      <3> HIDE DEF entry, D
      <3>4. handlers_ \in Seq(D \X Handlers)
        <4> DEFINE A == Mapped \X Handlers
                   B == D \X Handlers
        <4>1. A \subseteq B /\ handlers_ \in Seq(A)
          BY <3>1, <3>3
        <4> HIDE DEF A, B
        <4>2. handlers_ \in Seq(B)
          BY <4>1
        <4>. QED
          BY <4>2 DEF B
      <3>5. handlers_' \in Seq(D \X Handlers)
        BY <3>1, <3>2, <3>4, AppendProperties
      <3>. QED
        BY <3>2, <3>5
    <2>. QED
      BY <1>2, <2>2, <2>3, <2>4 DEF AddHandler
  <1>3. CASE LoadFails
    BY <1>3 DEF LoadFails
  <1>4. CASE LoadEnds
    BY <1>4 DEF LoadEnds
  <1>5. ASSUME NEW u \in Lookups, GetHandler(u) PROVE TypeOK'
    <2>1. u \in Paths /\ <<>> \in Paths
      BY DEF Paths
    <2>2. CASE u \in Mapped
      BY <1>5, <2>1, <2>2 DEF GetHandler
    <2>3. CASE u \notin Mapped
      BY <1>5, <2>1, <2>3 DEF GetHandler
    <2>. QED
      BY <2>2, <2>3
  <1>6. ASSUME NEW m \in todo, FindPrefix(m) PROVE TypeOK'
    BY <1>6 DEF FindPrefix
  <1>7. CASE FindEnds
    BY <1>7 DEF FindEnds
  <1>8. CASE Dispatch
    BY <1>8 DEF Dispatch, Paths
  <1>9. CASE UNCHANGED vars
    BY <1>9 DEF vars
  <1>. QED
    BY <1>1, <1>2, <1>3, <1>4, <1>5, <1>6, <1>7, <1>8, <1>9 DEF Next

(***************************************************************************)
(* The members of Webserver and the locals of its lookup keep their types. *)
(***************************************************************************)
THEOREM TypeCorrect == Spec => []TypeOK
  BY TypeInit, TypeStep, PTL DEF Spec

-----------------------------------------------------------------------------
(***************************************************************************)
(* The invariant of the loop, and what it leaves behind.                   *)
(***************************************************************************)
LookupInv ==
  /\ pc = "find" => uri \notin Mapped /\ BestSoFar(Mapped \ todo)
  /\ pc = "found" =>
       \/ uri \in Mapped /\ handler = handler_map[uri]
       \/ /\ uri \notin Mapped /\ BestSoFar(Mapped)
          /\ handler = IF longest \in Mapped THEN handler_map[longest]
                       ELSE IF Default \in Mapped THEN handler_map[Default]
                       ELSE NoHandler

LEMMA LookupStep == TypeOK /\ LookupInv /\ [Next]_vars => LookupInv'
  <1> SUFFICES ASSUME TypeOK, LookupInv, [Next]_vars PROVE LookupInv'
    OBVIOUS
  <1> USE DEF TypeOK, LookupInv
  <1>1. CASE LoadPort \/ AddHandler \/ LoadFails \/ LoadEnds \/ Dispatch
    BY <1>1 DEF LoadPort, AddHandler, LoadFails, LoadEnds, Dispatch, Loading
  <1>2. ASSUME NEW u \in Lookups, GetHandler(u) PROVE LookupInv'
    BY <1>2 DEF GetHandler, BestSoFar
  <1>3. ASSUME NEW m \in todo, FindPrefix(m) PROVE LookupInv'
    <2>1. \A n \in Mapped \cup {<<>>} : Len(n) \in Nat
      BY DEF Paths
    <2>2. longest \in Mapped \cup {<<>>} /\ m \in Mapped
      BY <1>3 DEF FindPrefix, BestSoFar
    <2>3. (Mapped \ todo)' = (Mapped \ todo) \cup {m} /\ pc' = "find" /\ uri' = uri
      BY <1>3 DEF FindPrefix
    <2>4. CASE Matches(m, Parent(uri)) /\ Len(m) > Len(longest)
      BY <1>3, <2>1, <2>2, <2>3, <2>4 DEF FindPrefix, BestSoFar
    <2>5. CASE ~(Matches(m, Parent(uri)) /\ Len(m) > Len(longest))
      BY <1>3, <2>1, <2>2, <2>3, <2>5 DEF FindPrefix, BestSoFar
    <2>. QED
      BY <2>4, <2>5
  <1>4. CASE FindEnds
    BY <1>4 DEF FindEnds, BestSoFar
  <1>5. CASE UNCHANGED vars
    BY <1>5 DEF vars, BestSoFar
  <1>. QED
    BY <1>1, <1>2, <1>3, <1>4, <1>5 DEF Next

(***************************************************************************)
(* At every step of find_prefix, longest is the longest match among the    *)
(* entries visited, in whatever order the unordered_map yields them.       *)
(***************************************************************************)
THEOREM FindsLongestMatch == Spec => []LongestMatch
  <1>1. Init => LookupInv
    BY DEF Init, LookupInv
  <1>2. LookupInv => LongestMatch
    BY DEF LookupInv, LongestMatch
  <1>. QED
    BY <1>1, <1>2, TypeInit, TypeStep, LookupStep, PTL DEF Spec

(***************************************************************************)
(* get_handler returns the handler of the URI's own entry, or else of the  *)
(* innermost mapped directory around it, or else the default handler.      *)
(***************************************************************************)
THEOREM RoutesCorrectly == Spec => []RoutesToInnermost
  <1>1. Init => LookupInv
    BY DEF Init, LookupInv
  <1>2. TypeOK /\ LookupInv => RoutesToInnermost
    <2> SUFFICES ASSUME TypeOK, LookupInv, pc = "found", uri \notin Mapped
                 PROVE  RoutesToInnermost
      BY DEF LookupInv, RoutesToInnermost
    <2> DEFINE around == {m \in Mapped : Covers(m, uri)}
               innermost == {m \in around : \A n \in around : Len(n) <= Len(m)}
    <2>0. BestSoFar(Mapped)
      BY DEF LookupInv
    <2>1. \A m \in Mapped : /\ m \in Paths \ {<<>>} /\ Len(m) \in Nat \ {0}
                            /\ Matches(m, Parent(uri)) <=> Covers(m, uri)
      BY MatchesIffCovers DEF TypeOK, Paths
    <2>2. CASE around = {}
      <3>1. longest = <<>> /\ longest \notin Mapped
        BY <2>0, <2>1, <2>2 DEF BestSoFar, TypeOK
      <3>. QED
        BY <2>2, <3>1 DEF LookupInv, RoutesToInnermost
    <2>3. CASE around # {}
      <3>1. longest \in around
        BY <2>0, <2>1, <2>3 DEF BestSoFar
      <3>2. ASSUME NEW m \in innermost PROVE m = longest
        <4>1. Len(m) = Len(longest)
          <5>1. Len(m) <= Len(longest) /\ Len(longest) <= Len(m)
            BY <2>0, <2>1, <3>1 DEF BestSoFar
          <5>2. Len(m) \in Int /\ Len(longest) \in Int
            BY <2>1, <3>1
          <5> DEFINE a == Len(m)
                     b == Len(longest)
          <5>3. a <= b /\ b <= a /\ a \in Int /\ b \in Int
            BY <5>1, <5>2
          <5> HIDE DEF a, b
          <5>4. a = b
            BY <5>3
          <5>. QED
            BY <5>4, Zenon DEF a, b
        <4>2. Parent(uri) \in Paths
          BY ParentFacts DEF Parent, TypeOK
        <4>3. IsPrefix(m, Parent(uri)) /\ IsPrefix(longest, Parent(uri))
          BY <2>1, <3>1 DEF Matches
        <4>. QED
          BY <2>1, <3>1, <4>1, <4>2, <4>3, PrefixUnique
      <3>. QED
        BY <2>3, <3>1, <3>2 DEF LookupInv, RoutesToInnermost
    <2>. QED
      BY <2>2, <2>3
  <1>. QED
    BY <1>1, <1>2, TypeInit, TypeStep, LookupStep, PTL DEF Spec

-----------------------------------------------------------------------------
(***************************************************************************)
(* What load_configs has made of the statements before the next one.       *)
(***************************************************************************)
MapKinds == {"path", "default"}
Entry(s) == <<Prefix(s), s.handler>>

LoadInv ==
  /\ next <= Len(config) + 1
  /\ pc \notin {"load", "exit"} => next = Len(config) + 1
  /\ LET done == Chosen(MapKinds, next - 1)
         ports == Chosen({"port"}, next - 1)
     IN /\ handlers_ = [i \in DOMAIN done |-> Entry(done[i])]
        /\ ports # <<>> => port = ports[Len(ports)].number % PortRange
  /\ \A i, j \in DOMAIN handlers_ : handlers_[i][1] = handlers_[j][1] => i = j
  /\ Mapped = {handlers_[i][1] : i \in DOMAIN handlers_}
  /\ \A i \in DOMAIN handlers_ : handler_map[handlers_[i][1]] = handlers_[i][2]

LEMMA ChosenStep ==
  ASSUME NEW kinds, config \in Seq(Statements), NEW n \in Nat, n < Len(config)
  PROVE  /\ Chosen(kinds, n) \in Seq(Statements)
         /\ Chosen(kinds, n + 1) = IF config[n + 1].kind \in kinds
                                   THEN Append(Chosen(kinds, n), config[n + 1])
                                   ELSE Chosen(kinds, n)
  <1> DEFINE One(i) == IF config[i].kind \in kinds THEN <<config[i]>> ELSE <<>>
             All(k) == [i \in 1 .. k |-> One(i)]
  <1>1. \A i \in 1 .. n + 1 : config[i] \in Statements /\ One(i) \in Seq(Statements)
    <2> SUFFICES ASSUME NEW i \in 1 .. n + 1
                 PROVE  config[i] \in Statements /\ One(i) \in Seq(Statements)
      OBVIOUS
    <2>1. i \in 1 .. Len(config)
      OBVIOUS
    <2>2. config[i] \in Statements
      BY <2>1, ElementOfSeq
    <2> HIDE DEF Statements
    <2>. QED
      BY <2>2, EmptySeq
  <1> HIDE DEF One
  <1>2. /\ All(n) \in Seq(Seq(Statements)) /\ All(n + 1) \in Seq(Seq(Statements))
        /\ Len(All(n)) = n /\ Len(All(n + 1)) = n + 1
    BY <1>1, IsASeq
  <1>3. All(n + 1) = Append(All(n), One(n + 1))
    <2>1. Len(Append(All(n), One(n + 1))) = n + 1
      BY <1>2
    <2>2. \A i \in 1 .. n + 1 : All(n + 1)[i] = Append(All(n), One(n + 1))[i]
      BY <1>2
    <2>3. Append(All(n), One(n + 1)) \in Seq(Seq(Statements))
      BY <1>1, <1>2, AppendProperties
    <2> HIDE DEF All
    <2>. QED
      BY <1>2, <2>1, <2>2, <2>3, SeqEqual
  <1>4. Chosen(kinds, n) = FlattenSeq(All(n)) /\ Chosen(kinds, n + 1) = FlattenSeq(All(n + 1))
    BY DEF Chosen, One
  <1>5. /\ FlattenSeq(All(n)) \in Seq(Statements)
        /\ FlattenSeq(Append(All(n), One(n + 1))) = FlattenSeq(All(n)) \o One(n + 1)
    <2>1. One(n + 1) \in Seq(Statements)
      BY <1>1
    <2> HIDE DEF All
    <2>. QED
      BY <1>2, <2>1, FlattenAppend
  <1> HIDE DEF All
  <1>6. CASE config[n + 1].kind \in kinds
    <2>1. One(n + 1) = <<config[n + 1]>>
      BY <1>6 DEF One
    <2>2. config[n + 1] \in Statements
      BY <1>1
    <2>. QED
      BY <1>3, <1>4, <1>5, <1>6, <2>1, <2>2, AppendIsConcat
  <1>7. CASE config[n + 1].kind \notin kinds
    <2>1. One(n + 1) = <<>>
      BY <1>7 DEF One
    <2>. QED
      BY <1>3, <1>4, <1>5, <1>7, <2>1, ConcatEmptySeq
  <1>. QED
    BY <1>6, <1>7

LEMMA ChosenNone == ASSUME NEW kinds PROVE Chosen(kinds, 0) = <<>>
  <1>1. [i \in 1 .. 0 |-> IF config[i].kind \in kinds THEN <<config[i]>> ELSE <<>>] = <<>>
    OBVIOUS
  <1>. QED
    BY <1>1, FlattenEmpty DEF Chosen

LEMMA LoadInit == Init => LoadInv
  <1> SUFFICES ASSUME Init PROVE LoadInv
    OBVIOUS
  <1>1. config \in Seq(Statements) /\ Len(config) \in Nat
    BY RoutingAssumption DEF Init
  <1>2. next - 1 = 0
    BY DEF Init
  <1>. QED
    BY <1>1, <1>2, ChosenNone DEF Init, LoadInv, MapKinds

(* The list of the tracker grows with the routing table. *)
LEMMA AddHandlerLoads == TypeOK /\ LoadInv /\ AddHandler => LoadInv'
  <1> SUFFICES ASSUME TypeOK, LoadInv, AddHandler PROVE LoadInv'
    OBVIOUS
  <1> DEFINE done == Chosen(MapKinds, next - 1)
             ports == Chosen({"port"}, next - 1)
             n == Len(handlers_)
  <1>1. config \in Seq(Statements) /\ next \in 1 .. Len(config) /\ Len(config) \in Nat
    BY RoutingAssumption DEF TypeOK, AddHandler, Loading
  <1>2. Stmt.kind \in MapKinds /\ Prefix(Stmt) \notin Mapped
    BY DEF AddHandler, GoodHandler, MapKinds
  <1>3. done \in Seq(Statements) /\ Chosen(MapKinds, next) = Append(done, Stmt)
    <2>1. next - 1 \in Nat /\ next - 1 < Len(config) /\ (next - 1) + 1 = next
      BY <1>1
    <2>. QED
      BY <1>1, <1>2, <2>1, ChosenStep
  <1>4. Chosen({"port"}, next) = ports
    <2>1. next - 1 \in Nat /\ next - 1 < Len(config) /\ (next - 1) + 1 = next
      BY <1>1
    <2>2. Stmt.kind \notin {"port"}
      BY <1>2 DEF MapKinds
    <2>. QED
      BY <1>1, <2>1, <2>2, ChosenStep
  <1>5. /\ config' = config /\ port' = port /\ pc' = pc /\ pc = "load"
        /\ next' = next + 1 /\ next' - 1 = next
        /\ handlers_' = Append(handlers_, Entry(Stmt))
    BY <1>1 DEF AddHandler, Entry, Loading
  <1>6. (Chosen(MapKinds, next - 1))' = Append(done, Stmt) /\ (Chosen({"port"}, next - 1))' = ports
    BY <1>3, <1>4, <1>5 DEF Chosen
  <1>7. handlers_ = [i \in DOMAIN done |-> Entry(done[i])]
    BY DEF LoadInv
  <1>8. n = Len(done) /\ n \in Nat /\ DOMAIN handlers_ = 1 .. n /\ handlers_ \in Seq({Entry(s) : s \in Statements})
    <2> HIDE DEF done
    <2>1. DOMAIN done = 1 .. Len(done) /\ Len(done) \in Nat
      BY <1>3, LenProperties
    <2>2. \A i \in 1 .. Len(done) : done[i] \in Statements
      BY <1>3, ElementOfSeq
    <2>3. handlers_ = [i \in 1 .. Len(done) |-> Entry(done[i])]
      BY <1>7, <2>1
    <2>4. \A i \in 1 .. Len(done) : Entry(done[i]) \in {Entry(s) : s \in Statements}
      BY <2>2
    <2> HIDE DEF Statements, Entry
    <2>5. handlers_ \in Seq({Entry(s) : s \in Statements})
      BY <2>1, <2>3, <2>4, IsASeq
    <2>. QED
      BY <2>1, <2>3, <2>5
  <1>9. /\ DOMAIN handlers_' = 1 .. n + 1 /\ handlers_'[n + 1] = Entry(Stmt)
        /\ \A i \in 1 .. n : handlers_'[i] = handlers_[i]
    <2>1. Stmt \in Statements
      BY <1>1, ElementOfSeq
    <2> HIDE DEF Statements, Entry
    <2>2. Entry(Stmt) \in {Entry(s) : s \in Statements}
      BY <2>1
    <2>3. LET new == Append(handlers_, Entry(Stmt))
          IN  /\ Len(new) = n + 1 /\ new[n + 1] = Entry(Stmt) /\ DOMAIN new = 1 .. n + 1
              /\ \A i \in 1 .. n : new[i] = handlers_[i]
      BY <1>8, <2>2, AppendProperties, LenProperties
    <2>. QED
      BY <1>5, <2>3
  <1>10. handlers_' = [i \in DOMAIN Append(done, Stmt) |-> Entry(Append(done, Stmt)[i])]
    <2> DEFINE new == Append(done, Stmt)
    <2>1. /\ DOMAIN new = 1 .. n + 1 /\ new[n + 1] = Stmt
          /\ \A i \in 1 .. n : new[i] = done[i]
      <3>1. Stmt \in Statements
        BY <1>1, ElementOfSeq
      <3> HIDE DEF done, Statements
      <3>. QED
        BY <1>3, <1>8, <3>1, AppendProperties, LenProperties
    <2>2. \A i \in 1 .. n : handlers_[i] = Entry(done[i])
      BY <1>7, <1>8
    <2>3. handlers_' = [i \in 1 .. n + 1 |-> handlers_'[i]]
      BY <1>5, <1>9
    <2>4. \A i \in 1 .. n + 1 : handlers_'[i] = Entry(new[i])
      <3> HIDE DEF new, done, n
      <3>. QED
        BY <1>8, <1>9, <2>1, <2>2
    <2>5. handlers_' = [i \in DOMAIN new |-> Entry(new[i])]
      <3> HIDE DEF new, done, n
      <3>. QED
        BY <2>1, <2>3, <2>4, Zenon
    <2>. QED
      BY <2>5
  <1>11. /\ Mapped' = Mapped \cup {Prefix(Stmt)} /\ handler_map'[Prefix(Stmt)] = Stmt.handler
         /\ \A p \in Mapped : handler_map'[p] = handler_map[p]
    BY <1>2 DEF AddHandler
  <1>12. /\ \A i, j \in DOMAIN handlers_ : handlers_[i][1] = handlers_[j][1] => i = j
         /\ Mapped = {handlers_[i][1] : i \in DOMAIN handlers_}
         /\ \A i \in DOMAIN handlers_ : handler_map[handlers_[i][1]] = handlers_[i][2]
    BY DEF LoadInv
  <1>13. Entry(Stmt)[1] = Prefix(Stmt) /\ Entry(Stmt)[2] = Stmt.handler
    BY DEF Entry
  <1>14. \A i, j \in DOMAIN handlers_' : handlers_'[i][1] = handlers_'[j][1] => i = j
    <2> HIDE DEF n
    <2>. QED
      BY <1>2, <1>8, <1>9, <1>12, <1>13
  <1>15. Mapped' = {handlers_'[i][1] : i \in DOMAIN handlers_'}
    <2> HIDE DEF n
    <2>. QED
      BY <1>8, <1>9, <1>11, <1>12, <1>13
  <1>16. \A i \in DOMAIN handlers_' : handler_map'[handlers_'[i][1]] = handlers_'[i][2]
    <2> HIDE DEF n
    <2>. QED
      BY <1>8, <1>9, <1>11, <1>12, <1>13
  <1>17. ports # <<>> => port' = ports[Len(ports)].number % PortRange
    BY <1>5 DEF LoadInv
  <1>18. next' <= Len(config') + 1 /\ pc' = "load"
    BY <1>1, <1>5
  <1> HIDE DEF done, ports, n
  <1>. QED
    BY <1>6, <1>10, <1>14, <1>15, <1>16, <1>17, <1>18 DEF LoadInv

LEMMA LoadPortLoads == TypeOK /\ LoadInv /\ LoadPort => LoadInv'
  <1> SUFFICES ASSUME TypeOK, LoadInv, LoadPort PROVE LoadInv'
    OBVIOUS
  <1> DEFINE done == Chosen(MapKinds, next - 1)
             ports == Chosen({"port"}, next - 1)
  <1>1. config \in Seq(Statements) /\ next \in 1 .. Len(config) /\ Len(config) \in Nat
    BY RoutingAssumption DEF TypeOK, LoadPort, Loading
  <1>2. Stmt.kind = "port" /\ Stmt \in Statements
    BY <1>1, ElementOfSeq DEF LoadPort, GoodPort
  <1>3. next - 1 \in Nat /\ next - 1 < Len(config) /\ (next - 1) + 1 = next
    BY <1>1
  <1>4. Chosen(MapKinds, next) = done
    <2>1. Stmt.kind \notin MapKinds
      BY <1>2 DEF MapKinds
    <2>. QED
      BY <1>1, <1>3, <2>1, ChosenStep
  <1>5. ports \in Seq(Statements) /\ Chosen({"port"}, next) = Append(ports, Stmt)
    <2>1. Stmt.kind \in {"port"}
      BY <1>2
    <2>. QED
      BY <1>1, <1>3, <2>1, ChosenStep
  <1>6. /\ config' = config /\ port' = Stmt.number % PortRange /\ pc' = pc /\ pc = "load"
        /\ next' = next + 1 /\ next' - 1 = next
        /\ handlers_' = handlers_ /\ handler_map' = handler_map
    BY <1>1 DEF LoadPort, Loading
  <1>7. (Chosen(MapKinds, next - 1))' = done /\ (Chosen({"port"}, next - 1))' = Append(ports, Stmt)
    BY <1>4, <1>5, <1>6 DEF Chosen
  <1>8. Append(ports, Stmt)[Len(Append(ports, Stmt))] = Stmt
    <2> HIDE DEF ports, Statements
    <2>. QED
      BY <1>2, <1>5, AppendProperties
  <1>9. next' <= Len(config') + 1
    BY <1>1, <1>6
  <1> HIDE DEF done, ports
  <1>. QED
    BY <1>6, <1>7, <1>8, <1>9 DEF LoadInv, done, ports

LEMMA LoadStep == TypeOK /\ LoadInv /\ [Next]_vars => LoadInv'
  <1> SUFFICES ASSUME TypeOK, LoadInv, [Next]_vars PROVE LoadInv'
    OBVIOUS
  <1>1. ASSUME UNCHANGED table, pc' \in {pc, "load", "exit"} \/ next = Len(config) + 1
        PROVE  LoadInv'
    <2>1. /\ config' = config /\ next' = next /\ port' = port
          /\ handler_map' = handler_map /\ handlers_' = handlers_
      BY <1>1
    <2>2. /\ (Chosen(MapKinds, next - 1))' = Chosen(MapKinds, next - 1)
          /\ (Chosen({"port"}, next - 1))' = Chosen({"port"}, next - 1)
      BY <2>1 DEF Chosen
    <2>3. pc' \notin {"load", "exit"} => next = Len(config) + 1
      BY <1>1 DEF LoadInv
    <2>. QED
      BY <2>1, <2>2, <2>3 DEF LoadInv
  <1>2. CASE LoadEnds
    <2>1. next = Len(config) + 1
      <3>1. next \in Nat /\ Len(config) \in Nat
        BY RoutingAssumption DEF TypeOK
      <3>. QED
        BY <1>2, <3>1 DEF LoadEnds, LoadInv
    <2>. QED
      BY <1>1, <1>2, <2>1 DEF LoadEnds
  <1>3. ASSUME NEW u \in Lookups, GetHandler(u) PROVE LoadInv'
    BY <1>1, <1>3 DEF GetHandler, LoadInv
  <1>4. ASSUME NEW m \in todo, FindPrefix(m) PROVE LoadInv'
    BY <1>1, <1>4 DEF FindPrefix
  <1>5. CASE FindEnds
    BY <1>1, <1>5 DEF FindEnds, LoadInv
  <1>6. CASE Dispatch
    BY <1>1, <1>6 DEF Dispatch, LoadInv
  <1>7. CASE LoadFails
    BY <1>1, <1>7 DEF LoadFails
  <1>8. CASE UNCHANGED vars
    BY <1>1, <1>8 DEF vars
  <1>. QED
    BY AddHandlerLoads, LoadPortLoads, <1>2, <1>3, <1>4, <1>5, <1>6, <1>7, <1>8 DEF Next

(***************************************************************************)
(* A server that listens has loaded its configuration whole: one entry for *)
(* each path and default statement, the same list on its status page, and  *)
(* the last of the ports.                                                  *)
(***************************************************************************)
THEOREM LoadsWhole == Spec => []ConfigLoaded
  <1>1. TypeOK /\ LoadInv => ConfigLoaded
    <2> SUFFICES ASSUME TypeOK, LoadInv, pc \notin {"load", "exit"} PROVE ConfigLoaded
      BY DEF ConfigLoaded
    <2>1. next - 1 = Len(config)
      BY RoutingAssumption DEF LoadInv, TypeOK
    <2>2. Chosen(MapKinds, next - 1) = Mappings /\ Chosen({"port"}, next - 1) = Ports
      BY <2>1 DEF Mappings, Ports, MapKinds
    <2>3. /\ handlers_ = [i \in DOMAIN Mappings |-> <<Prefix(Mappings[i]), Mappings[i].handler>>]
          /\ Ports # <<>> => port = Ports[Len(Ports)].number % PortRange
      BY <2>2 DEF LoadInv, Entry
    <2>4. \A i, j \in DOMAIN handlers_ : handlers_[i][1] = handlers_[j][1] => i = j
      BY DEF LoadInv
    <2> DEFINE heads == {handlers_[i][1] : i \in DOMAIN handlers_}
               new == [p \in heads |-> (CHOOSE h \in Range(handlers_) : h[1] = p)[2]]
    <2>5. handler_map = [p \in heads |-> handler_map[p]]
      BY DEF TypeOK, LoadInv
    <2>6. \A i \in DOMAIN handlers_ : (CHOOSE h \in Range(handlers_) : h[1] = handlers_[i][1]) = handlers_[i]
      <3> SUFFICES ASSUME NEW i \in DOMAIN handlers_
                   PROVE (CHOOSE h \in Range(handlers_) : h[1] = handlers_[i][1]) = handlers_[i]
        OBVIOUS
      <3>1. \A h \in Range(handlers_) : h[1] = handlers_[i][1] => h = handlers_[i]
        BY <2>4 DEF Range
      <3>2. handlers_[i] \in Range(handlers_)
        BY DEF Range
      <3>. QED
        BY <3>1, <3>2
    <2>7. \A p \in heads : handler_map[p] = (CHOOSE h \in Range(handlers_) : h[1] = p)[2]
      <3> SUFFICES ASSUME NEW i \in DOMAIN handlers_
                   PROVE  handler_map[handlers_[i][1]]
                            = (CHOOSE h \in Range(handlers_) : h[1] = handlers_[i][1])[2]
        OBVIOUS
      <3>1. handler_map[handlers_[i][1]] = handlers_[i][2]
        BY DEF LoadInv
      <3>. QED
        BY <2>6, <3>1
    <2>8. handler_map = new
      BY <2>5, <2>7
    <2>. QED
      BY <2>3, <2>4, <2>8 DEF ConfigLoaded
  <1>. QED
    BY <1>1, LoadInit, LoadStep, TypeInit, TypeStep, PTL DEF Spec

-----------------------------------------------------------------------------
(***************************************************************************)
(* The block of a StaticFileHandler, statement by statement.               *)
(***************************************************************************)
LEMMA ValueIsNat == \A d \in Digits : Value(d) \in Nat
  <1> SUFFICES ASSUME NEW d \in Digits PROVE Value(d) \in Nat
    OBVIOUS
  <1>1. DOMAIN Digit = 1 .. 10
    BY DEF Digit
  <1>2. \E k \in DOMAIN Digit : Digit[k] = d
    BY DEF Digits, Range
  <1> DEFINE K == CHOOSE k \in DOMAIN Digit : Digit[k] = d
  <1>3. K \in 1 .. 10
    BY <1>1, <1>2
  <1>4. Value(d) = K - 1
    BY DEF Value
  <1> HIDE DEF K
  <1>. QED
    BY <1>3, <1>4

LEMMA NumberIsNat ==
  ASSUME NEW text \in Seq(Digits)
  PROVE  Number(text) \in Nat
  <1> DEFINE n == Len(text)
             Folds(it) == it = [s \in SUBSET (1 .. n) |->
                 IF s = {} THEN 0 ELSE LET x == Max(s) IN 10 * it[s \ {x}] + Value(text[x])]
             it == CHOOSE it : Folds(it)
             G == [x \in 1 .. n |-> [v \in Nat |-> 10 * v + Value(text[x])]]
  <1>1. n \in Nat /\ DOMAIN text = 1 .. n /\ \A x \in 1 .. n : Value(text[x]) \in Nat
    BY ValueIsNat
  <1>2. G \in [1 .. n -> [Nat -> Nat]]
    <2> HIDE DEF n
    <2>. QED
      BY <1>1
  <1>3. Folds(it)
    <2>0. PICK f : IsFold(f, n, Nat, 0, G)
      <3>1. Folding(n, Nat, 0, G)
        BY <1>1, <1>2 DEF Folding
      <3> HIDE DEF n, G
      <3>. QED
        BY <3>1, FoldExists
    <2>1. /\ f \in [SUBSET (1 .. n) -> Nat]
          /\ \A s \in SUBSET (1 .. n) :
               f[s] = IF s = {} THEN 0 ELSE G[Max(s)][f[s \ {Max(s)}]]
      <3> HIDE DEF n, G
      <3>. QED
        BY <2>0 DEF IsFold
    <2>2. ASSUME NEW s \in SUBSET (1 .. n), s # {}
          PROVE  f[s] = 10 * f[s \ {Max(s)}] + Value(text[Max(s)])
      <3>1. Max(s) \in 1 .. n
        BY <1>1, <2>2, MaxOfPositions
      <3>2. f[s \ {Max(s)}] \in Nat
        BY <2>1
      <3>3. f[s] = G[Max(s)][f[s \ {Max(s)}]]
        BY <2>1, <2>2
      <3> HIDE DEF n
      <3>. QED
        BY <3>1, <3>2, <3>3
    <2>3. \A s \in SUBSET (1 .. n) : f[s] =
            IF s = {} THEN 0 ELSE LET x == Max(s) IN 10 * f[s \ {x}] + Value(text[x])
      BY <2>1, <2>2
    <2>4. Folds(f)
      <3>1. f \in [SUBSET (1 .. n) -> Nat]
        BY <2>1
      <3> HIDE DEF n, G
      <3>. QED
        BY <2>3, <3>1
    <2> HIDE DEF Folds
    <2>. QED
      BY <2>4
  <1>4. Number(text) = it[1 .. n]
    BY <1>1 DEF Number, FoldLeft, MapThenFoldSet
  <1> HIDE DEF it, n
  <1> DEFINE P == {k \in Nat : k <= n => it[1 .. k] \in Nat}
  <1>5. 0 \in P
    <2>1. 1 .. 0 = {} /\ {} \in SUBSET (1 .. n)
      OBVIOUS
    <2>2. it[{}] = 0
      BY <1>3, <2>1, Zenon
    <2>. QED
      BY <2>1, <2>2
  <1>6. ASSUME NEW k \in Nat, k \in P PROVE k + 1 \in P
    <2> SUFFICES ASSUME k + 1 <= n PROVE it[1 .. k + 1] \in Nat
      OBVIOUS
    <2>1. k + 1 \in 1 .. n /\ (k + 1) - 1 = k
      BY <1>1
    <2>2. /\ (1 .. k + 1) \in SUBSET (1 .. n) /\ 1 .. k + 1 # {}
          /\ Max(1 .. k + 1) = k + 1 /\ (1 .. k + 1) \ {k + 1} = 1 .. k
      BY <1>1, <2>1, Positions
    <2>3. it[1 .. k + 1] = 10 * it[1 .. k] + Value(text[k + 1])
      BY <1>3, <2>2, Zenon
    <2>4. it[1 .. k] \in Nat
      BY <1>1, <1>6
    <2>. QED
      BY <1>1, <2>1, <2>3, <2>4
  <1>7. Nat \subseteq P
    <2> HIDE DEF P
    <2>. QED
      BY <1>5, <1>6, NatInductive
  <1>. QED
    BY <1>1, <1>4, <1>7

(***************************************************************************)
(* What a StaticFileHandler can be while its block is read.                *)
(***************************************************************************)
Texts == Seq(Chars \cup Digits)
UserMaps == UNION {[D -> Texts] : D \in SUBSET Texts}
Results == {"OK", "INVALID_CONFIG", "out_of_range"}
StaticHandlers == [status : Results, root : Texts, user_map : UserMaps, timeout : Nat]

LEMMA TrimmedFacts ==
  ASSUME NEW path \in Tokens
  PROVE  Trimmed(path) \in Texts /\ (Trimmed(path) = <<>> <=> path = <<Slash>>)
  <1>1. path \in Texts /\ path # <<>> /\ Len(path) \in Nat \ {0}
    BY EmptySeq, LenProperties DEF Tokens, Texts
  <1>2. /\ Front(path) \in Texts /\ Len(Front(path)) = Len(path) - 1
        /\ \A i \in 1 .. Len(path) - 1 : Front(path)[i] = path[i]
    <2> DEFINE n == Len(path) - 1
    <2>1. n \in Int /\ 1 \in Int /\ \A i \in 1 .. n : path[i] \in Chars \cup Digits
      BY <1>1 DEF Texts
    <2>2. /\ SubSeq(path, 1, n) \in Seq(Chars \cup Digits)
          /\ Len(SubSeq(path, 1, n)) = IF 1 <= n THEN n - 1 + 1 ELSE 0
          /\ \A i \in 1 .. n - 1 + 1 : SubSeq(path, 1, n)[i] = path[1 + i - 1]
      <3> HIDE DEF n
      <3>. QED
        BY <2>1, SubSeqProperties
    <2>3. SubSeq(path, 1, n) = Front(path)
      BY Zenon DEF Front
    <2>5. n \in Nat /\ n - 1 + 1 = n /\ (~(1 <= n) => n = 0)
      <3>1. \A m \in Nat \ {0} : m - 1 \in Nat /\ m - 1 - 1 + 1 = m - 1 /\ (~(1 <= m - 1) => m - 1 = 0)
        OBVIOUS
      <3>. QED
        BY <1>1, <3>1
    <2>4. \A i \in 1 .. n : Front(path)[i] = path[i]
      <3> HIDE DEF n
      <3>. QED
        BY <2>2, <2>3, <2>5
    <2>6. Front(path) \in Texts /\ Len(Front(path)) = n
      <3> HIDE DEF n
      <3>. QED
        BY <2>2, <2>3, <2>5 DEF Texts
    <2>. QED
      BY <2>4, <2>6
  <1>3. path = <<Slash>> <=> Len(path) = 1 /\ Last(path) = Slash
    BY <1>1 DEF Texts, Last
  <1>4. Front(path) = <<>> <=> Len(path) = 1
    BY <1>1, <1>2, EmptySeq DEF Texts
  <1>. QED
    BY <1>1, <1>2, <1>3, <1>4 DEF Trimmed

LEMMA ReadStaticType ==
  ASSUME NEW h \in StaticHandlers, NEW s \in BlockStatements
  PROVE  ReadStatic(h, s) \in StaticHandlers
  <1>1. /\ Reject(h, "INVALID_CONFIG") \in StaticHandlers
        /\ Reject(h, "out_of_range") \in StaticHandlers
    BY DEF Reject, StaticHandlers, Results
  <1>2. \A i \in 1 .. Len(s.args) : s.args[i] \in Tokens /\ s.args[i] \in Texts
    BY DEF BlockStatements, Tokens, Texts
  <1>3. ASSUME NEW path \in Tokens PROVE ReadRoot(h, path) \in StaticHandlers
    <2>1. [h EXCEPT !.root = Trimmed(path)] \in StaticHandlers
      BY TrimmedFacts DEF StaticHandlers
    <2>. QED
      BY <1>1, <2>1 DEF ReadRoot
  <1>4. ASSUME NEW user \in Texts, NEW pass \in Texts PROVE ReadUser(h, user, pass) \in StaticHandlers
    <2> DEFINE D == DOMAIN h.user_map
               new == [u \in D \cup {user} |-> IF u = user THEN pass ELSE h.user_map[u]]
    <2>1. D \in SUBSET Texts /\ h.user_map \in [D -> Texts]
      BY DEF StaticHandlers, UserMaps
    <2>2. new \in [D \cup {user} -> Texts] /\ D \cup {user} \in SUBSET Texts
      BY <2>1
    <2>3. new \in UserMaps
      BY <2>2 DEF UserMaps
    <2>4. [h EXCEPT !.user_map = new] \in StaticHandlers
      <3> HIDE DEF new
      <3>. QED
        BY <2>3 DEF StaticHandlers
    <2>5. ReadUser(h, user, pass) = IF user \in D THEN Reject(h, "INVALID_CONFIG")
                                    ELSE [h EXCEPT !.user_map = new]
      BY DEF ReadUser
    <2>. QED
      BY <1>1, <2>4, <2>5
  <1>5. ASSUME NEW token \in Texts PROVE ReadTimeout(h, token) \in StaticHandlers
    <2>1. IsNumber(token) => Number(token) \in Nat
      <3> SUFFICES ASSUME IsNumber(token) PROVE Number(token) \in Nat
        OBVIOUS
      <3>1. token \in Seq(Digits)
        <4>1. Len(token) \in Nat /\ DOMAIN token = 1 .. Len(token) /\ token = [i \in 1 .. Len(token) |-> token[i]]
          BY DEF Texts
        <4>2. \A i \in 1 .. Len(token) : token[i] \in Digits
          BY <4>1 DEF IsNumber
        <4>. QED
          BY <4>1, <4>2, IsASeq
      <3>. QED
        BY <3>1, NumberIsNat
    <2>2. Number(token) \in Nat => [h EXCEPT !.timeout = Number(token)] \in StaticHandlers
      BY DEF StaticHandlers
    <2>. QED
      BY <1>1, <2>1, <2>2 DEF ReadTimeout
  <1>6. Len(s.args) \in Nat
    BY DEF BlockStatements
  <1>7. Len(s.args) \in {1, 2} => s.args[1] \in Tokens /\ s.args[1] \in Texts
    <2> DEFINE n == Len(s.args)
    <2>1. \A k \in 1 .. n : s.args[k] \in Tokens /\ s.args[k] \in Texts
      BY <1>2
    <2> HIDE DEF n
    <2>2. n \in {1, 2} => s.args[1] \in Tokens /\ s.args[1] \in Texts
      BY <2>1
    <2>. QED
      BY <2>2 DEF n
  <1>8. Len(s.args) = 2 => s.args[2] \in Texts
    BY <1>2
  <1> HIDE DEF StaticHandlers, Texts, Tokens
  <1>. QED
    BY <1>1, <1>3, <1>4, <1>5, <1>6, <1>7, <1>8 DEF ReadStatic

(***************************************************************************)
(* StaticFileHandler::Init reads its block from the first statement to the *)
(* last: h[k] is the handler after k of them.                              *)
(***************************************************************************)
Reads(h, block) ==
  /\ h[0] = NewStatic /\ \A k \in 0 .. Len(block) : h[k] \in StaticHandlers
  /\ \A k \in 1 .. Len(block) : h[k] = ReadStatic(h[k - 1], block[k])
  /\ h[Len(block)] = FoldLeft(ReadStatic, NewStatic, block)

LEMMA NewStaticType == NewStatic \in StaticHandlers
  <1>1. [u \in {} |-> <<>>] \in UserMaps
    <2>1. [u \in {} |-> <<>>] \in [{} -> Texts] /\ {} \in SUBSET Texts
      OBVIOUS
    <2>. QED
      BY <2>1 DEF UserMaps
  <1>2. <<>> \in Texts
    BY EmptySeq DEF Texts
  <1> DEFINE none == [u \in {} |-> <<>>]
             empty == <<>>
  <1>3. NewStatic = [status |-> "OK", root |-> empty, user_map |-> none, timeout |-> 0]
    BY DEF NewStatic
  <1> HIDE DEF none, empty
  <1>4. none \in UserMaps /\ empty \in Texts
    BY <1>1, <1>2 DEF none, empty
  <1>. QED
    BY <1>3, <1>4 DEF StaticHandlers, Results

LEMMA StaticFold ==
  ASSUME NEW block \in Seq(BlockStatements)
  PROVE  \E h : Reads(h, block)
  <1> DEFINE n == Len(block)
             V == StaticHandlers
             Folds(it) == it = [s \in SUBSET (1 .. n) |->
                 IF s = {} THEN NewStatic
                           ELSE LET x == Max(s) IN ReadStatic(it[s \ {x}], block[x])]
             it == CHOOSE it : Folds(it)
             G == [x \in 1 .. n |-> [v \in V |-> ReadStatic(v, block[x])]]
  <1>1. n \in Nat /\ DOMAIN block = 1 .. n /\ \A x \in 1 .. n : block[x] \in BlockStatements
    OBVIOUS
  <1>2. G \in [1 .. n -> [V -> V]] /\ NewStatic \in V
    <2>1. \A x \in 1 .. n, v \in V : ReadStatic(v, block[x]) \in V
      <3> HIDE DEF n
      <3>. QED
        BY <1>1, ReadStaticType
    <2>2. NewStatic \in V
      BY NewStaticType
    <2> HIDE DEF n, V
    <2>. QED
      BY <2>1, <2>2
  <1>3. Folds(it)
    <2>1. PICK f : IsFold(f, n, V, NewStatic, G)
      <3>1. Folding(n, V, NewStatic, G)
        BY <1>1, <1>2 DEF Folding
      <3> HIDE DEF n, V, G
      <3>. QED
        BY <3>1, FoldExists
    <2>2. f \in [SUBSET (1 .. n) -> V]
      <3> HIDE DEF n, V, G
      <3>. QED
        BY <2>1 DEF IsFold
    <2>3. \A s \in SUBSET (1 .. n) :
            f[s] = IF s = {} THEN NewStatic ELSE G[Max(s)][f[s \ {Max(s)}]]
      <3> HIDE DEF n, V, G
      <3>. QED
        BY <2>1 DEF IsFold
    <2>4. ASSUME NEW s \in SUBSET (1 .. n), s # {}
          PROVE  f[s] = ReadStatic(f[s \ {Max(s)}], block[Max(s)])
      <3>1. Max(s) \in 1 .. n
        BY <1>1, <2>4, MaxOfPositions
      <3>2. s \ {Max(s)} \in SUBSET (1 .. n)
        OBVIOUS
      <3>3. f[s] = G[Max(s)][f[s \ {Max(s)}]]
        BY <2>3, <2>4
      <3> HIDE DEF n, V
      <3>4. f[s \ {Max(s)}] \in V
        BY <2>2, <3>2
      <3>. QED
        BY <3>1, <3>3, <3>4
    <2>5. \A s \in SUBSET (1 .. n) : f[s] =
            IF s = {} THEN NewStatic ELSE LET x == Max(s) IN ReadStatic(f[s \ {x}], block[x])
      BY <2>3, <2>4
    <2>6. Folds(f)
      <3> HIDE DEF n, V, G
      <3>. QED
        BY <2>2, <2>5
    <2> HIDE DEF Folds
    <2>. QED
      BY <2>6
  <1>4. FoldLeft(ReadStatic, NewStatic, block) = it[1 .. n]
    BY <1>1 DEF FoldLeft, MapThenFoldSet
  <1> HIDE DEF it, n, V
  <1>5. it[1 .. 0] = NewStatic
    <2>1. 1 .. 0 = {} /\ {} \in SUBSET (1 .. n)
      OBVIOUS
    <2>. QED
      BY <1>3, <2>1, Zenon
  <1>6. ASSUME NEW k \in 1 .. n PROVE it[1 .. k] = ReadStatic(it[1 .. k - 1], block[k])
    <2>1. /\ (1 .. k) \in SUBSET (1 .. n) /\ 1 .. k # {}
          /\ Max(1 .. k) = k /\ (1 .. k) \ {k} = 1 .. (k - 1)
      BY <1>1, Positions
    <2>. QED
      BY <1>3, <2>1, Zenon
  <1> DEFINE P == {k \in Nat : k <= n => it[1 .. k] \in V}
  <1>7. Nat \subseteq P
    <2>1. 0 \in P
      BY <1>2, <1>5
    <2>2. ASSUME NEW k \in Nat, k \in P PROVE k + 1 \in P
      <3> SUFFICES ASSUME k + 1 <= n PROVE it[1 .. k + 1] \in V
        OBVIOUS
      <3>1. k + 1 \in 1 .. n /\ k + 1 - 1 = k /\ it[1 .. k] \in V
        BY <1>1, <2>2
      <3>2. it[1 .. k + 1] = ReadStatic(it[1 .. k], block[k + 1])
        BY <1>6, <3>1
      <3>. QED
        BY <1>1, <3>1, <3>2, ReadStaticType DEF V
    <2> HIDE DEF P
    <2>. QED
      BY <2>1, <2>2, NatInductive
  <1> DEFINE h == [k \in 0 .. n |-> it[1 .. k]]
  <1>8. \A k \in 0 .. n : h[k] = it[1 .. k] /\ h[k] \in V
    BY <1>1, <1>7
  <1>9. \A k \in 1 .. n : k \in 0 .. n /\ k - 1 \in 0 .. n
    BY <1>1
  <1>10. 0 \in 0 .. n /\ n \in 0 .. n
    BY <1>1
  <1> HIDE DEF h
  <1>. QED
    BY <1>4, <1>5, <1>6, <1>8, <1>9, <1>10 DEF Reads, n, V

(***************************************************************************)
(* What a handler that has rejected nothing so far knows of the first k    *)
(* statements of its block.                                                *)
(***************************************************************************)
Is(s, word, n) == s.word = word /\ Len(s.args) = n
Users(block, k) == {i \in 1 .. k : Is(block[i], "user", 2)}
Timeouts(block, k) ==
  {i \in 1 .. k : Is(block[i], "timeout", 1) /\ Number(block[i].args[1]) > 0}
Roots(block, k) ==
  {i \in 1 .. k : Is(block[i], "root", 1) /\ block[i].args[1] # <<Slash>>}

Knows(h, block, k) ==
  /\ DOMAIN h.user_map = {block[i].args[1] : i \in Users(block, k)}
  /\ \A i, j \in Users(block, k) : block[i].args[1] = block[j].args[1] => i = j
  /\ IF h.timeout = 0 THEN Timeouts(block, k) = {} ELSE \E t : Timeouts(block, k) = {t}
  /\ IF h.root = <<>> THEN Roots(block, k) = {} ELSE \E r : Roots(block, k) = {r}

(* The three sets grow by the statement read, when it belongs to one. *)
LEMMA StatementRead ==
  ASSUME NEW block, NEW k \in Nat \ {0}
  PROVE  LET s == block[k]
             One(cond) == IF cond THEN {k} ELSE {}
         IN  /\ Users(block, k) = Users(block, k - 1) \cup One(Is(s, "user", 2))
             /\ Timeouts(block, k) = Timeouts(block, k - 1)
                  \cup One(Is(s, "timeout", 1) /\ Number(s.args[1]) > 0)
             /\ Roots(block, k) = Roots(block, k - 1)
                  \cup One(Is(s, "root", 1) /\ s.args[1] # <<Slash>>)
  <1>1. 1 .. k = (1 .. k - 1) \cup {k}
    OBVIOUS
  <1>2. Users(block, k) = Users(block, k - 1) \cup IF Is(block[k], "user", 2) THEN {k} ELSE {}
    BY <1>1 DEF Users
  <1>3. Timeouts(block, k) = Timeouts(block, k - 1)
          \cup IF Is(block[k], "timeout", 1) /\ Number(block[k].args[1]) > 0 THEN {k} ELSE {}
    BY <1>1 DEF Timeouts
  <1>4. Roots(block, k) = Roots(block, k - 1)
          \cup IF Is(block[k], "root", 1) /\ block[k].args[1] # <<Slash>> THEN {k} ELSE {}
    BY <1>1 DEF Roots
  <1>. QED
    BY <1>2, <1>3, <1>4

LEMMA KnowsStep ==
  ASSUME NEW block \in Seq(BlockStatements), NEW k \in 1 .. Len(block),
         NEW h \in StaticHandlers, h.status = "OK", Knows(h, block, k - 1),
         NEW g, g = ReadStatic(h, block[k]), g.status = "OK"
  PROVE  Knows(g, block, k)
  <1> DEFINE s == block[k]
  <1>0. k \in Nat \ {0}
    OBVIOUS
  <1>1. s \in BlockStatements
    BY ElementOfSeq
  <1>2. /\ Users(block, k) = Users(block, k - 1) \cup IF Is(s, "user", 2) THEN {k} ELSE {}
        /\ Timeouts(block, k) = Timeouts(block, k - 1)
             \cup IF Is(s, "timeout", 1) /\ Number(s.args[1]) > 0 THEN {k} ELSE {}
        /\ Roots(block, k) = Roots(block, k - 1)
             \cup IF Is(s, "root", 1) /\ s.args[1] # <<Slash>> THEN {k} ELSE {}
    BY <1>0, StatementRead
  <1>3. Len(s.args) \in {1, 2} /\ Len(s.args) \in Nat /\ s.args \in Seq(Tokens)
    <2>1. s.args \in Seq(Tokens)
      BY <1>1 DEF BlockStatements
    <2>2. ASSUME Len(s.args) \notin {1, 2} PROVE FALSE
      <3>1. g = Reject(h, "INVALID_CONFIG")
        BY <2>2 DEF ReadStatic
      <3>2. g.status = "INVALID_CONFIG"
        BY <3>1 DEF Reject, StaticHandlers
      <3>. QED
        BY <3>2
    <2>. QED
      BY <2>1, <2>2, LenProperties
  <1>4. \A r \in {"INVALID_CONFIG", "out_of_range"} : g # Reject(h, r)
    BY DEF Reject, StaticHandlers
  <1>5. s.args[1] \in Tokens
    BY <1>3, ElementOfSeq
  <1>6. Users(block, k - 1) \subseteq 1 .. k - 1
    BY DEF Users
  <1> HIDE DEF s
  <1>7. CASE Is(s, "root", 1)
    <2>1. g = ReadRoot(h, s.args[1])
      BY <1>3, <1>7 DEF ReadStatic, Is, s
    <2>2. h.root = <<>> /\ g = [h EXCEPT !.root = Trimmed(s.args[1])]
      BY <1>4, <2>1 DEF ReadRoot
    <2>3. /\ g.root = Trimmed(s.args[1]) /\ g.user_map = h.user_map /\ g.timeout = h.timeout
      BY <2>2 DEF StaticHandlers
    <2>4. ~Is(s, "user", 2) /\ ~Is(s, "timeout", 1)
      BY <1>7 DEF Is
    <2>5. Users(block, k) = Users(block, k - 1) /\ Timeouts(block, k) = Timeouts(block, k - 1)
      BY <1>2, <2>4
    <2>6. Roots(block, k) = IF g.root = <<>> THEN {} ELSE {k}
      <3>1. Roots(block, k - 1) = {}
        BY <2>2 DEF Knows
      <3>2. g.root = <<>> <=> s.args[1] = <<Slash>>
        BY <1>5, <2>3, TrimmedFacts
      <3>. QED
        BY <1>2, <1>7, <3>1, <3>2
    <2>. QED
      BY <2>3, <2>5, <2>6 DEF Knows
  <1>8. CASE Is(s, "user", 2)
    <2> DEFINE u == s.args[1]
    <2>1. g = ReadUser(h, s.args[1], s.args[2])
      BY <1>3, <1>8 DEF ReadStatic, Is, s
    <2>2. u \notin DOMAIN h.user_map
      BY <1>4, <2>1 DEF ReadUser
    <2>3. /\ g.root = h.root /\ g.timeout = h.timeout
          /\ DOMAIN g.user_map = DOMAIN h.user_map \cup {u}
      BY <2>1, <2>2 DEF ReadUser, StaticHandlers
    <2>4. ~Is(s, "root", 1) /\ ~Is(s, "timeout", 1)
      BY <1>8 DEF Is
    <2>5. /\ Roots(block, k) = Roots(block, k - 1) /\ Timeouts(block, k) = Timeouts(block, k - 1)
          /\ Users(block, k) = Users(block, k - 1) \cup {k}
      BY <1>2, <1>8, <2>4
    <2>6. /\ DOMAIN h.user_map = {block[i].args[1] : i \in Users(block, k - 1)}
          /\ \A i, j \in Users(block, k - 1) : block[i].args[1] = block[j].args[1] => i = j
      BY DEF Knows
    <2>7. DOMAIN g.user_map = {block[i].args[1] : i \in Users(block, k)}
      BY <2>3, <2>5, <2>6 DEF s
    <2>8. \A i, j \in Users(block, k) : block[i].args[1] = block[j].args[1] => i = j
      BY <2>2, <2>5, <2>6 DEF s
    <2>. QED
      BY <2>3, <2>5, <2>7, <2>8 DEF Knows
  <1>9. CASE Is(s, "timeout", 1)
    <2>1. g = ReadTimeout(h, s.args[1])
      BY <1>3, <1>9 DEF ReadStatic, Is, s
    <2>2. h.timeout = 0 /\ IsNumber(s.args[1]) /\ g = [h EXCEPT !.timeout = Number(s.args[1])]
      BY <1>4, <2>1 DEF ReadTimeout
    <2>3. /\ g.root = h.root /\ g.user_map = h.user_map /\ g.timeout = Number(s.args[1])
      BY <2>2 DEF StaticHandlers
    <2>4. ~Is(s, "root", 1) /\ ~Is(s, "user", 2)
      BY <1>9 DEF Is
    <2>5. Roots(block, k) = Roots(block, k - 1) /\ Users(block, k) = Users(block, k - 1)
      BY <1>2, <2>4
    <2>6. g.timeout \in Nat
      BY <1>1, ReadStaticType DEF StaticHandlers, s
    <2>7. Timeouts(block, k) = IF g.timeout = 0 THEN {} ELSE {k}
      <3>1. Timeouts(block, k - 1) = {}
        BY <2>2 DEF Knows
      <3>2. Number(s.args[1]) > 0 <=> g.timeout # 0
        BY <2>3, <2>6
      <3>. QED
        BY <1>2, <1>9, <3>1, <3>2
    <2>. QED
      BY <2>3, <2>5, <2>7 DEF Knows
  <1>10. CASE ~Is(s, "root", 1) /\ ~Is(s, "user", 2) /\ ~Is(s, "timeout", 1)
    <2>1. g = h
      BY <1>3, <1>10 DEF ReadStatic, Is, s
    <2>2. /\ Roots(block, k) = Roots(block, k - 1) /\ Users(block, k) = Users(block, k - 1)
          /\ Timeouts(block, k) = Timeouts(block, k - 1)
      BY <1>2, <1>10
    <2>. QED
      BY <2>1, <2>2 DEF Knows
  <1>. QED
    BY <1>7, <1>8, <1>9, <1>10

(***************************************************************************)
(* StaticFileHandler::Init accepts only a block that protects wholly.      *)
(***************************************************************************)
LEMMA AcceptedIsWhole ==
  ASSUME NEW block \in Seq(BlockStatements), InitStatic(block).status = "OK"
  PROVE  WhollyProtected(block)
  <1> DEFINE n == Len(block)
  <1>0. n \in Nat /\ DOMAIN block = 1 .. n
    OBVIOUS
  <1>1. PICK h : Reads(h, block)
    BY StaticFold
  <1>2. /\ h[0] = NewStatic /\ \A k \in 0 .. n : h[k] \in StaticHandlers
        /\ \A k \in 1 .. n : h[k] = ReadStatic(h[k - 1], block[k])
        /\ h[n] = FoldLeft(ReadStatic, NewStatic, block)
    BY <1>1 DEF Reads
  <1> DEFINE P == {k \in Nat : k <= n /\ h[k].status = "OK" => Knows(h[k], block, k)}
  <1>3. 0 \in P
    <2>1. 1 .. 0 = {}
      OBVIOUS
    <2>2. Users(block, 0) = {} /\ Timeouts(block, 0) = {} /\ Roots(block, 0) = {}
      BY <2>1 DEF Users, Timeouts, Roots
    <2>3. /\ NewStatic.timeout = 0 /\ NewStatic.root = <<>>
          /\ DOMAIN NewStatic.user_map = {}
      BY DEF NewStatic
    <2>4. Knows(NewStatic, block, 0)
      BY <2>2, <2>3 DEF Knows
    <2>. QED
      BY <1>2, <2>4
  <1>4. ASSUME NEW k \in Nat, k \in P PROVE k + 1 \in P
    <2> SUFFICES ASSUME k + 1 <= n, h[k + 1].status = "OK" PROVE Knows(h[k + 1], block, k + 1)
      OBVIOUS
    <2>1. k + 1 \in 1 .. n /\ k \in 0 .. n /\ (k + 1) - 1 = k /\ k <= n
      BY <1>0
    <2>2. h[k + 1] = ReadStatic(h[k], block[k + 1]) /\ h[k] \in StaticHandlers
      <3>1. h[k + 1] = ReadStatic(h[(k + 1) - 1], block[k + 1])
        BY <1>2, <2>1
      <3>. QED
        BY <1>2, <2>1, <3>1
    <2>3. h[k].status = "OK"
      BY <2>2 DEF ReadStatic
    <2>4. Knows(h[k], block, (k + 1) - 1)
      BY <1>4, <2>1, <2>3
    <2> HIDE DEF n
    <2>. QED
      BY <2>1, <2>2, <2>3, <2>4, KnowsStep DEF n
  <1>5. n \in P
    <2> HIDE DEF P
    <2>1. Nat \subseteq P
      BY <1>3, <1>4, NatInductive
    <2>. QED
      BY <1>0, <2>1
  <1> DEFINE last == h[n]
  <1>6. /\ InitStatic(block) = IF last.status = "OK" /\ (last.root = <<>> \/
                                    (DOMAIN last.user_map = {}) # (last.timeout = 0))
                               THEN Reject(last, "INVALID_CONFIG") ELSE last
    BY <1>2 DEF InitStatic
  <1>7. last \in StaticHandlers
    BY <1>0, <1>2
  <1> HIDE DEF last, n
  <1>8. Reject(last, "INVALID_CONFIG").status = "INVALID_CONFIG"
    BY <1>7 DEF Reject, StaticHandlers
  <1>9. /\ last.status = "OK" /\ last.root # <<>>
        /\ DOMAIN last.user_map = {} <=> last.timeout = 0
    BY <1>6, <1>8
  <1>10. Knows(last, block, n)
    BY <1>0, <1>5, <1>9 DEF last
  <1>11. /\ Users(block, n) = Named(block, "user", 2)
         /\ Timeouts(block, n)
              = {i \in Named(block, "timeout", 1) : Number(block[i].args[1]) > 0}
         /\ Roots(block, n) = {i \in Named(block, "root", 1) : block[i].args[1] # <<Slash>>}
    BY <1>0 DEF Users, Timeouts, Roots, Named, Is
  <1>12. Users(block, n) = {} <=> Timeouts(block, n) = {}
    BY <1>9, <1>10 DEF Knows
  <1>13. Cardinality(Timeouts(block, n)) <= 1 /\ Cardinality(Roots(block, n)) = 1
    <2>1. Timeouts(block, n) = {} \/ \E t : Timeouts(block, n) = {t}
      BY <1>10 DEF Knows
    <2>2. \E r : Roots(block, n) = {r}
      BY <1>9, <1>10 DEF Knows
    <2>3. Cardinality({}) = 0 /\ \A x : Cardinality({x}) = 1
      BY FS_Singleton, FS_EmptySet
    <2>4. Cardinality(Timeouts(block, n)) \in {0, 1}
      BY <2>1, <2>3
    <2>5. Cardinality(Roots(block, n)) = 1
      BY <2>2, <2>3
    <2>. QED
      BY <2>4, <2>5
  <1>14. \A i, j \in Users(block, n) : block[i].args[1] = block[j].args[1] => i = j
    BY <1>10 DEF Knows
  <1>. QED
    BY <1>11, <1>12, <1>13, <1>14 DEF WhollyProtected

(***************************************************************************)
(* Every handler loaded so far has accepted its block.                     *)
(***************************************************************************)
AcceptedInv ==
  LET done == Chosen(MapKinds, next - 1)
  IN \A i \in DOMAIN done :
       done[i] \in Statements /\ done[i].kind \in MapKinds
         /\ InitHandler(done[i].handler, done[i].block) = "OK"

LEMMA AcceptedStep == TypeOK /\ LoadInv /\ AcceptedInv /\ [Next]_vars => AcceptedInv'
  <1> SUFFICES ASSUME TypeOK, LoadInv, AcceptedInv, [Next]_vars PROVE AcceptedInv'
    OBVIOUS
  <1>1. CASE UNCHANGED table
    <2>1. config' = config /\ next' = next
      BY <1>1
    <2>2. (Chosen(MapKinds, next - 1))' = Chosen(MapKinds, next - 1)
      BY <2>1 DEF Chosen
    <2>. QED
      BY <2>2 DEF AcceptedInv
  <1>2. ASSUME Loading, UNCHANGED config, next' = next + 1,
               Stmt.kind \in MapKinds => InitHandler(Stmt.handler, Stmt.block) = "OK"
        PROVE  AcceptedInv'
    <2> DEFINE done == Chosen(MapKinds, next - 1)
    <2>1. config \in Seq(Statements) /\ next \in 1 .. Len(config) /\ Len(config) \in Nat
      BY <1>2, RoutingAssumption DEF TypeOK, Loading
    <2>2. next - 1 \in Nat /\ next - 1 < Len(config) /\ (next - 1) + 1 = next
      BY <2>1
    <2>3. /\ done \in Seq(Statements)
          /\ Chosen(MapKinds, next) = IF Stmt.kind \in MapKinds THEN Append(done, Stmt) ELSE done
      BY <2>1, <2>2, ChosenStep
    <2>4. (Chosen(MapKinds, next - 1))' = Chosen(MapKinds, next)
      <3>1. next' - 1 = next
        BY <1>2, <2>1
      <3>. QED
        BY <1>2, <3>1 DEF Chosen
    <2>5. Stmt \in Statements
      BY <2>1, ElementOfSeq
    <2>6. \A i \in DOMAIN done :
            done[i] \in Statements /\ done[i].kind \in MapKinds
              /\ InitHandler(done[i].handler, done[i].block) = "OK"
      BY DEF AcceptedInv
    <2> HIDE DEF done, Statements, MapKinds
    <2>7. CASE Stmt.kind \in MapKinds
      <3> DEFINE new == Append(done, Stmt)
      <3>1. /\ DOMAIN new = 1 .. Len(done) + 1 /\ new[Len(done) + 1] = Stmt
            /\ \A i \in 1 .. Len(done) : new[i] = done[i]
            /\ DOMAIN done = 1 .. Len(done) /\ Len(done) \in Nat
        BY <2>3, <2>5, AppendProperties, LenProperties
      <3>2. (Chosen(MapKinds, next - 1))' = new
        BY <2>3, <2>4, <2>7
      <3> HIDE DEF new, Stmt
      <3>3. \A i \in DOMAIN new : i = Len(done) + 1 \/ i \in 1 .. Len(done)
        BY <3>1
      <3>4. \A i \in DOMAIN new :
              new[i] \in Statements /\ new[i].kind \in MapKinds
                /\ InitHandler(new[i].handler, new[i].block) = "OK"
        BY <1>2, <2>5, <2>6, <2>7, <3>1, <3>3
      <3>. QED
        BY <3>2, <3>4 DEF AcceptedInv, MapKinds
    <2>8. CASE Stmt.kind \notin MapKinds
      BY <2>3, <2>4, <2>6, <2>8 DEF AcceptedInv, MapKinds
    <2>. QED
      BY <2>7, <2>8
  <1>3. CASE AddHandler
    BY <1>2, <1>3 DEF AddHandler, GoodHandler, Accepted
  <1>4. CASE LoadPort
    BY <1>2, <1>4 DEF LoadPort, GoodPort, MapKinds
  <1>5. CASE LoadFails \/ LoadEnds \/ FindEnds \/ Dispatch
    BY <1>1, <1>5 DEF LoadFails, LoadEnds, FindEnds, Dispatch
  <1>6. ASSUME NEW u \in Lookups, GetHandler(u) PROVE AcceptedInv'
    BY <1>1, <1>6 DEF GetHandler
  <1>7. ASSUME NEW m \in todo, FindPrefix(m) PROVE AcceptedInv'
    BY <1>1, <1>7 DEF FindPrefix
  <1>8. CASE UNCHANGED vars
    BY <1>1, <1>8 DEF vars
  <1>. QED
    BY <1>3, <1>4, <1>5, <1>6, <1>7, <1>8 DEF Next

(***************************************************************************)
(* A server that listens protects each directory of its files wholly or    *)
(* not at all, whatever its configuration.                                 *)
(***************************************************************************)
THEOREM ProtectsWhole == Spec => []ProtectionIsWhole
  <1>1. Init => AcceptedInv
    <2> SUFFICES ASSUME Init PROVE AcceptedInv
      OBVIOUS
    <2>1. next - 1 = 0
      BY DEF Init
    <2>. QED
      BY <2>1, ChosenNone DEF AcceptedInv
  <1>2. TypeOK /\ LoadInv /\ AcceptedInv => ProtectionIsWhole
    <2> SUFFICES ASSUME TypeOK, LoadInv, AcceptedInv, pc \notin {"load", "exit"},
                        NEW i \in DOMAIN Mappings, Mappings[i].handler = "StaticFileHandler"
                 PROVE  WhollyProtected(Mappings[i].block)
      BY DEF ProtectionIsWhole
    <2> DEFINE s == Mappings[i]
    <2>1. next - 1 = Len(config)
      BY RoutingAssumption DEF LoadInv, TypeOK
    <2>2. Chosen(MapKinds, next - 1) = Mappings
      BY <2>1 DEF Mappings, MapKinds
    <2>3. /\ s \in Statements /\ s.kind \in MapKinds
          /\ InitHandler(s.handler, s.block) = "OK"
      BY <2>2 DEF AcceptedInv
    <2>4. s.block \in Seq(BlockStatements)
      BY <2>3 DEF Statements, MapKinds
    <2>5. InitStatic(s.block).status = "OK"
      BY <2>3 DEF InitHandler
    <2>. QED
      BY <2>4, <2>5, AcceptedIsWhole
  <1>. QED
    BY <1>1, <1>2, LoadInit, LoadStep, AcceptedStep, TypeInit, TypeStep, PTL DEF Spec
=============================================================================
