---------------------------- MODULE InductionLemmas ----------------------------
(***************************************************************************)
(* Induction and recursion over data, with sets and functions where the    *)
(* library's theorems take operators: what holds of the elements of a set  *)
(* that has a rank, and that a function defined by recursion on the rank   *)
(* exists.  The proofs of the components use them for the recursive        *)
(* functions and the folds of their modules.                               *)
(***************************************************************************)
EXTENDS Integers, SequencesExt, SequenceTheorems, WellFoundedInduction, TLAPS

(***************************************************************************)
(* A set of elements that contains each element of S all whose lower ones  *)
(* it contains, contains S: one of least rank would be missing.            *)
(***************************************************************************)
LEMMA RankInduction ==
  ASSUME NEW S, NEW rank \in [S -> Nat], NEW P,
         \A s \in S : (\A t \in S : rank[t] < rank[s] => t \in P) => s \in P
  PROVE  S \subseteq P
  <1> DEFINE R == {p \in Nat \X Nat : p[1] < p[2]}
             T == {rank[s] : s \in S \ P}
  <1>1. IsWellFoundedOn(R, Nat)
    BY NatLessThanWellFounded DEF OpToRel
  <1>2. SUFFICES ASSUME S \ P # {} PROVE FALSE
    OBVIOUS
  <1>3. T \subseteq Nat /\ T # {}
    BY <1>2
  <1>4. PICK x \in T : \A y \in T : <<y, x>> \notin R
    <2> HIDE DEF R, T
    <2>. QED
      BY <1>1, <1>3, WFMin
  <1>5. PICK s \in S \ P : x = rank[s]
    OBVIOUS
  <1>6. \A t \in S : rank[t] < rank[s] => t \in P
    <2> SUFFICES ASSUME NEW t \in S, rank[t] < rank[s], t \notin P PROVE FALSE
      OBVIOUS
    <2>1. rank[t] \in T /\ <<rank[t], x>> \in R
      BY <1>5
    <2>. QED
      BY <1>4, <2>1
  <1>. QED
    BY <1>5, <1>6

LEMMA NatInductive ==
  ASSUME NEW P, 0 \in P, \A n \in Nat : n \in P => n + 1 \in P
  PROVE  Nat \subseteq P
  <1> DEFINE rank == [n \in Nat |-> n]
  <1>1. ASSUME NEW n \in Nat, \A m \in Nat : rank[m] < rank[n] => m \in P
        PROVE  n \in P
    <2>1. CASE n = 0
      BY <2>1
    <2>2. CASE n # 0
      <3>1. n - 1 \in Nat /\ n - 1 < n /\ (n - 1) + 1 = n
        BY <2>2
      <3>2. n - 1 \in P
        BY <1>1, <3>1
      <3>. QED
        BY <3>1, <3>2
    <2>. QED
      BY <2>1, <2>2
  <1>2. rank \in [Nat -> Nat]
    OBVIOUS
  <1> HIDE DEF rank
  <1>. QED
    BY <1>1, <1>2, RankInduction

LEMMA Compared ==
  ASSUME NEW a \in Int, NEW b \in Int
  PROVE  /\ a < b \/ a = b \/ a > b
         /\ a <= b => (a < b \/ a = b) /\ (b > a \/ b = a)
OBVIOUS

LEMMA LeastNumber ==
  ASSUME NEW T \in SUBSET Nat, T # {}
  PROVE  \E m \in T : \A n \in T : m <= n
  <1> SUFFICES ASSUME \A m \in T : \E n \in T : n < m PROVE FALSE
    OBVIOUS
  <1> DEFINE rank == [n \in T |-> n]
             P == {n \in T : FALSE}
  <1>1. rank \in [T -> Nat]
    OBVIOUS
  <1>2. ASSUME NEW m \in T, \A n \in T : rank[n] < rank[m] => n \in P PROVE m \in P
    BY <1>2
  <1>3. T \subseteq P
    <2> HIDE DEF rank, P
    <2>. QED
      BY <1>1, <1>2, RankInduction
  <1>. QED
    BY <1>3

(***************************************************************************)
(* F gives the value of an element from those of the elements of lower     *)
(* rank; then there is a function with these values.  Each approximation   *)
(* is right one rank further than the one it is made from.                 *)
(***************************************************************************)
Recursion(S, V, rank, F) ==
  /\ rank \in [S -> Nat] /\ V # {} /\ F \in [S -> [[S -> V] -> V]]
  /\ \A s \in S, f \in [S -> V], g \in [S -> V] :
       (\A t \in S : rank[t] < rank[s] => f[t] = g[t]) => F[s][f] = F[s][g]

LEMMA RankRecursion ==
  ASSUME NEW S, NEW V, NEW rank, NEW F, Recursion(S, V, rank, F)
  PROVE  \E f \in [S -> V] : \A s \in S : f[s] = F[s][f]
  <1>0. /\ rank \in [S -> Nat] /\ V # {} /\ F \in [S -> [[S -> V] -> V]]
        /\ \A s \in S, f \in [S -> V], g \in [S -> V] :
             (\A t \in S : rank[t] < rank[s] => f[t] = g[t]) => F[s][f] = F[s][g]
    BY DEF Recursion
  <1> USE <1>0
  <1> DEFINE Right(g, n) == \A s \in S : rank[s] < n => g[s] = F[s][g]
             Better(g) == [s \in S |-> F[s][g]]
             P == {n \in Nat : \E g \in [S -> V] : Right(g, n)}
  <1>1. \A g \in [S -> V] : Better(g) \in [S -> V]
    OBVIOUS
  <1>2. ASSUME NEW n \in Nat, NEW g \in [S -> V], Right(g, n)
        PROVE  Right(Better(g), n + 1)
    <2> SUFFICES ASSUME NEW s \in S, rank[s] < n + 1
                 PROVE  Better(g)[s] = F[s][Better(g)]
      OBVIOUS
    <2>1. \A t \in S : rank[t] < rank[s] => Better(g)[t] = g[t]
      BY <1>2
    <2>2. F[s][Better(g)] = F[s][g]
      <3> HIDE DEF Better, Right, P
      <3>. QED
        BY <1>1, <2>1
    <2>. QED
      BY <2>2
  <1>3. Nat \subseteq P
    <2>1. 0 \in P
      <3>1. PICK v : v \in V
        OBVIOUS
      <3>2. [s \in S |-> v] \in [S -> V] /\ Right([s \in S |-> v], 0)
        BY <3>1
      <3>. QED
        BY <3>2
    <2>2. ASSUME NEW n \in Nat, n \in P PROVE n + 1 \in P
      <3>1. PICK g \in [S -> V] : Right(g, n)
        BY <2>2
      <3>2. Better(g) \in [S -> V] /\ Right(Better(g), n + 1)
        BY <1>1, <1>2, <3>1
      <3>3. n + 1 \in Nat
        OBVIOUS
      <3> HIDE DEF Better, Right
      <3>. QED
        BY <3>2, <3>3
    <2> HIDE DEF P
    <2>. QED
      BY <2>1, <2>2, NatInductive
  <1>4. ASSUME NEW g \in [S -> V], NEW h \in [S -> V], NEW n \in Nat, NEW m \in Nat,
               Right(g, n), Right(h, m)
        PROVE  \A s \in S : rank[s] < n /\ rank[s] < m => g[s] = h[s]
    <2> DEFINE Q == {s \in S : rank[s] < n /\ rank[s] < m => g[s] = h[s]}
    <2>1. ASSUME NEW s \in S, \A t \in S : rank[t] < rank[s] => t \in Q PROVE s \in Q
      <3> SUFFICES ASSUME rank[s] < n /\ rank[s] < m PROVE g[s] = h[s]
        OBVIOUS
      <3>1. \A t \in S : rank[t] < rank[s] => g[t] = h[t]
        BY <2>1
      <3>2. F[s][g] = F[s][h]
        BY <3>1
      <3>. QED
        BY <1>4, <3>2
    <2>2. S \subseteq Q
      <3> HIDE DEF Q
      <3>. QED
        BY <2>1, RankInduction
    <2>. QED
      BY <2>2
  <1> DEFINE At(s) == CHOOSE g \in [S -> V] : Right(g, rank[s] + 1)
             f == [s \in S |-> At(s)[s]]
  <1>5. \A s \in S : At(s) \in [S -> V] /\ Right(At(s), rank[s] + 1)
    <2> SUFFICES ASSUME NEW s \in S PROVE At(s) \in [S -> V] /\ Right(At(s), rank[s] + 1)
      OBVIOUS
    <2>1. rank[s] + 1 \in P
      <3>1. rank[s] + 1 \in Nat
        OBVIOUS
      <3> HIDE DEF P
      <3>. QED
        BY <1>3, <3>1
    <2>2. PICK g \in [S -> V] : Right(g, rank[s] + 1)
      <3> HIDE DEF Right
      <3>. QED
        BY <2>1
    <2> HIDE DEF Right
    <2>. QED
      BY <2>2
  <1>6. f \in [S -> V]
    BY <1>5
  <1>7. ASSUME NEW s \in S PROVE f[s] = F[s][f]
    <2>1. At(s)[s] = F[s][At(s)]
      <3> HIDE DEF At
      <3>1. Right(At(s), rank[s] + 1)
        <4> HIDE DEF Right
        <4>. QED
          BY <1>5
      <3>. QED
        BY <3>1
    <2>2. ASSUME NEW t \in S, rank[t] < rank[s] PROVE f[t] = At(s)[t]
      <3>1. rank[t] + 1 \in Nat /\ rank[s] + 1 \in Nat /\ rank[t] < rank[t] + 1 /\ rank[t] < rank[s] + 1
        BY <2>2
      <3>2. /\ At(t) \in [S -> V] /\ Right(At(t), rank[t] + 1)
            /\ At(s) \in [S -> V] /\ Right(At(s), rank[s] + 1)
        BY <1>5
      <3>3. At(t)[t] = At(s)[t]
        <4> HIDE <1>0 DEF At, Right
        <4>. QED
          BY <1>4, <3>1, <3>2
      <3>. QED
        BY <3>3
    <2>3. F[s][f] = F[s][At(s)]
      <3>1. At(s) \in [S -> V] /\ \A t \in S : rank[t] < rank[s] => f[t] = At(s)[t]
        BY <1>5, <2>2
      <3> HIDE DEF f, At
      <3>. QED
        BY <1>6, <3>1
    <2>. QED
      BY <2>1, <2>3
  <1>. QED
    BY <1>6, <1>7

-----------------------------------------------------------------------------
(***************************************************************************)
(* FlattenSeq concatenates a sequence of sequences one after the other.    *)
(***************************************************************************)
Flattens(f, seqs) ==
  f = [i \in 1 .. Len(seqs) |-> IF i = 1 THEN seqs[i] ELSE f[i-1] \o seqs[i]]

LEMMA FlattensExists ==
  ASSUME NEW A, NEW seqs \in Seq(Seq(A))
  PROVE  \E f \in [1 .. Len(seqs) -> Seq(A)] : Flattens(f, seqs)
  <1> DEFINE S == 1 .. Len(seqs)
             V == Seq(A)
             rank == [i \in S |-> i]
             F == [i \in S |-> [f \in [S -> V] |->
                     IF i = 1 THEN seqs[1] ELSE f[i - 1] \o seqs[i]]]
  <1>0. Len(seqs) \in Nat
    OBVIOUS
  <1>1. rank \in [S -> Nat] /\ V # {}
    <2>1. rank \in [S -> Nat]
      BY <1>0
    <2>2. V # {}
      BY EmptySeq
    <2>. QED
      BY <2>1, <2>2
  <1>2. \A i \in S : seqs[i] \in V
    OBVIOUS
  <1>3. \A i \in S : i # 1 => i - 1 \in S /\ rank[i - 1] < rank[i]
    BY <1>0
  <1>4. F \in [S -> [[S -> V] -> V]]
    <2> SUFFICES ASSUME NEW i \in S, NEW f \in [S -> V]
                 PROVE  (IF i = 1 THEN seqs[1] ELSE f[i - 1] \o seqs[i]) \in V
      OBVIOUS
    <2>1. CASE i = 1
      BY <1>2, <2>1
    <2>2. CASE i # 1
      <3>1. f[i - 1] \in V /\ seqs[i] \in V
        BY <1>2, <1>3, <2>2
      <3>. QED
        BY <2>2, <3>1, ConcatProperties
    <2>. QED
      BY <2>1, <2>2
  <1>5. ASSUME NEW i \in S, NEW f \in [S -> V], NEW g \in [S -> V],
               \A j \in S : rank[j] < rank[i] => f[j] = g[j]
        PROVE  F[i][f] = F[i][g]
    <2>1. F[i][f] = IF i = 1 THEN seqs[1] ELSE f[i - 1] \o seqs[i]
      OBVIOUS
    <2>2. F[i][g] = IF i = 1 THEN seqs[1] ELSE g[i - 1] \o seqs[i]
      OBVIOUS
    <2>. QED
      BY <1>3, <1>5, <2>1, <2>2
  <1>6. \E f \in [S -> V] : \A i \in S : f[i] = F[i][f]
    <2> HIDE DEF S, V, rank, F
    <2>1. Recursion(S, V, rank, F)
      BY <1>1, <1>4, <1>5 DEF Recursion
    <2>. QED
      BY <2>1, RankRecursion, SMT
  <1>7. PICK f \in [S -> V] : \A i \in S : f[i] = F[i][f]
    BY <1>6
  <1>8. \A i \in S : f[i] = IF i = 1 THEN seqs[i] ELSE f[i-1] \o seqs[i]
    BY <1>7
  <1>9. Flattens(f, seqs)
    BY <1>8 DEF Flattens
  <1>. QED
    BY <1>9

LEMMA FlattensAt ==
  ASSUME NEW seqs, NEW f, Flattens(f, seqs), NEW i \in 1 .. Len(seqs)
  PROVE  f[i] = IF i = 1 THEN seqs[i] ELSE f[i-1] \o seqs[i]
  BY Zenon DEF Flattens

Begins(seqs, more) == Len(seqs) <= Len(more) /\ \A i \in 1 .. Len(seqs) : more[i] = seqs[i]

LEMMA FlattensAlike ==
  ASSUME NEW A, NEW seqs \in Seq(Seq(A)), NEW more \in Seq(Seq(A)), Begins(seqs, more),
         NEW f, NEW g, Flattens(f, seqs), Flattens(g, more)
  PROVE  \A i \in 1 .. Len(seqs) : f[i] \in Seq(A) /\ f[i] = g[i]
  <1> USE DEF Begins
  <1> DEFINE P == {i \in Nat : i \in 1 .. Len(seqs) => f[i] \in Seq(A) /\ f[i] = g[i]}
  <1>0. Len(seqs) \in Nat /\ Len(more) \in Nat
    OBVIOUS
  <1>1. 0 \in P
    OBVIOUS
  <1>2. ASSUME NEW n \in Nat, n \in P PROVE n + 1 \in P
    <2> SUFFICES ASSUME n + 1 \in 1 .. Len(seqs) PROVE f[n+1] \in Seq(A) /\ f[n+1] = g[n+1]
      OBVIOUS
    <2>0. n + 1 \in 1 .. Len(more)
      BY <1>0
    <2>1. f[n+1] = IF n + 1 = 1 THEN seqs[n+1] ELSE f[n+1-1] \o seqs[n+1]
      BY FlattensAt
    <2>2. g[n+1] = IF n + 1 = 1 THEN more[n+1] ELSE g[n+1-1] \o more[n+1]
      BY <2>0, FlattensAt
    <2>3. seqs[n+1] \in Seq(A) /\ more[n+1] = seqs[n+1] /\ n + 1 - 1 = n
      OBVIOUS
    <2>4. CASE n = 0
      BY <2>1, <2>2, <2>3, <2>4
    <2>5. CASE n # 0
      <3>1. f[n] \in Seq(A) /\ f[n] = g[n]
        BY <1>2, <2>5
      <3>2. f[n] \o seqs[n+1] \in Seq(A)
        BY <2>3, <3>1, ConcatProperties
      <3>. QED
        BY <2>1, <2>2, <2>3, <2>5, <3>1, <3>2
    <2>. QED
      BY <2>4, <2>5
  <1>3. Nat \subseteq P
    <2> HIDE DEF P
    <2>. QED
      BY <1>1, <1>2, NatInductive
  <1>. QED
    BY <1>3

LEMMA FlattenEmpty == FlattenSeq(<<>>) = <<>>
  BY DEF FlattenSeq

LEMMA FlattenIs ==
  ASSUME NEW A, NEW seqs \in Seq(Seq(A)), seqs # <<>>
  PROVE  \E f : /\ Flattens(f, seqs) /\ FlattenSeq(seqs) = f[Len(seqs)]
                /\ FlattenSeq(seqs) \in Seq(A)
  <1> DEFINE f == CHOOSE f : Flattens(f, seqs)
  <1>1. PICK g \in [1 .. Len(seqs) -> Seq(A)] : Flattens(g, seqs)
    BY FlattensExists
  <1>2. Flattens(f, seqs)
    BY <1>1
  <1>3. \A i \in 1 .. Len(seqs) : f[i] = g[i]
    <2>1. Begins(seqs, seqs)
      BY DEF Begins
    <2> HIDE DEF f
    <2>. QED
      BY <1>1, <1>2, <2>1, FlattensAlike
  <1>4. Len(seqs) # 0 /\ Len(seqs) \in 1 .. Len(seqs)
    BY EmptySeq, LenProperties
  <1>5. FlattenSeq(seqs) = f[Len(seqs)]
    BY <1>4 DEF FlattenSeq, Flattens
  <1> HIDE DEF f
  <1>. QED
    BY <1>1, <1>3, <1>4, <1>5

LEMMA FlattenAppend ==
  ASSUME NEW A, NEW seqs \in Seq(Seq(A)), NEW s \in Seq(A)
  PROVE  FlattenSeq(seqs) \in Seq(A) /\ FlattenSeq(Append(seqs, s)) = FlattenSeq(seqs) \o s
  <1> DEFINE more == Append(seqs, s)
  <1>1. /\ more \in Seq(Seq(A)) /\ more # <<>> /\ Len(more) = Len(seqs) + 1
        /\ \A i \in 1 .. Len(seqs) : more[i] = seqs[i]
        /\ more[Len(seqs) + 1] = s /\ Len(seqs) \in Nat
    BY AppendProperties, LenProperties
  <1> HIDE DEF more
  <1>2. PICK g : Flattens(g, more) /\ FlattenSeq(more) = g[Len(more)]
    BY <1>1, FlattenIs
  <1>3. CASE seqs = <<>>
    <2>1. FlattenSeq(seqs) = <<>> /\ Len(seqs) = 0
      BY <1>3, FlattenEmpty
    <2>2. g[1] = s
      BY <1>1, <1>2, <2>1 DEF Flattens
    <2>. QED
      BY <1>1, <1>2, <2>1, <2>2, EmptySeq, ConcatEmptySeq DEF more
  <1>4. CASE seqs # <<>>
    <2>1. PICK f : /\ Flattens(f, seqs) /\ FlattenSeq(seqs) = f[Len(seqs)]
                  /\ FlattenSeq(seqs) \in Seq(A)
      BY <1>4, FlattenIs
    <2>2. Len(seqs) \in 1 .. Len(seqs)
      BY <1>1, <1>4, EmptySeq
    <2>3. g[Len(seqs)] = f[Len(seqs)]
      <3>1. Len(seqs) <= Len(more)
        BY <1>1
      <3>2. \A i \in 1 .. Len(seqs) : f[i] = g[i]
        <4>1. more \in Seq(Seq(A)) /\ Begins(seqs, more)
          BY <1>1, <3>1 DEF Begins
        <4>2. Flattens(f, seqs) /\ Flattens(g, more)
          BY <1>2, <2>1
        <4>. QED
          BY <4>1, <4>2, FlattensAlike
      <3>. QED
        BY <2>2, <3>2
    <2>4. g[Len(more)] = g[Len(more) - 1] \o more[Len(more)]
      <3>1. Len(more) \in 1 .. Len(more) /\ Len(more) # 1
        BY <1>1, <2>2
      <3>. QED
        BY <1>2, <3>1, FlattensAt
    <2>5. Len(more) - 1 = Len(seqs)
      BY <1>1
    <2>. QED
      BY <1>1, <1>2, <2>1, <2>2, <2>3, <2>4, <2>5 DEF more
  <1>. QED
    BY <1>3, <1>4

(***************************************************************************)
(* Where the sequences stand in the whole: s[i] is the length of the first *)
(* i of them.                                                              *)
(***************************************************************************)
PlacedAt(s, seqs, whole) ==
  /\ s \in [0 .. Len(seqs) -> Nat] /\ s[0] = 0 /\ Len(whole) = s[Len(seqs)]
  /\ \A i \in 1 .. Len(seqs) :
       /\ s[i] = s[i-1] + Len(seqs[i]) /\ s[i] <= Len(whole)
       /\ \A j \in 1 .. Len(seqs[i]) : whole[s[i-1] + j] = seqs[i][j]

LEMMA ConcatElements ==
  ASSUME NEW A, NEW a \in Seq(A), NEW b \in Seq(A)
  PROVE  /\ a \o b \in Seq(A) /\ Len(a \o b) = Len(a) + Len(b)
         /\ \A j \in 1 .. Len(a) : (a \o b)[j] = a[j]
         /\ \A j \in 1 .. Len(b) : (a \o b)[Len(a) + j] = b[j]
  OBVIOUS

LEMMA Sums ==
  \A k \in Nat, l \in Nat : \A j \in 1 .. l : /\ k + j \in 1 .. k + l /\ k <= k + l /\ k + l \in Nat
                                             /\ 1 .. k \subseteq 1 .. k + l
  OBVIOUS

LEMMA FlattenPlaces ==
  ASSUME NEW A, NEW seqs \in Seq(Seq(A))
  PROVE  FlattenSeq(seqs) \in Seq(A) /\ \E s : PlacedAt(s, seqs, FlattenSeq(seqs))
  <1> DEFINE n == Len(seqs)
  <1>0. n \in Nat /\ \A i \in 1 .. n : seqs[i] \in Seq(A)
    BY LenProperties, ElementOfSeq
  <1>1. CASE seqs = <<>>
    <2>1. FlattenSeq(seqs) = <<>> /\ n = 0 /\ 1 .. 0 = {}
      BY <1>1, FlattenEmpty
    <2> DEFINE s == [i \in 0 .. 0 |-> 0]
    <2>2. s \in [0 .. 0 -> Nat] /\ s[0] = 0
      OBVIOUS
    <2> HIDE DEF s
    <2>3. PlacedAt(s, seqs, FlattenSeq(seqs))
      BY <2>1, <2>2 DEF PlacedAt
    <2>. QED
      BY <2>1, <2>3
  <1>2. CASE seqs # <<>>
    <2>1. PICK f : /\ Flattens(f, seqs) /\ FlattenSeq(seqs) = f[n] /\ FlattenSeq(seqs) \in Seq(A)
      BY <1>2, FlattenIs
    <2>2. n \in 1 .. n
      BY <1>0, <1>2, EmptySeq
    <2> HIDE DEF n
    <2>3. \A i \in 1 .. n : f[i] \in Seq(A)
      <3>1. Begins(seqs, seqs)
        BY <1>0 DEF Begins, n
      <3>. QED
        BY <2>1, <3>1, FlattensAlike DEF n
    <2>4. \A i \in 1 .. n : f[i] = IF i = 1 THEN seqs[i] ELSE f[i-1] \o seqs[i]
      BY <2>1, FlattensAt DEF n
    <2> DEFINE s == [i \in 0 .. n |-> IF i = 0 THEN 0 ELSE Len(f[i])]
    <2>5. /\ s \in [0 .. n -> Nat] /\ s[0] = 0 /\ \A i \in 1 .. n : s[i] = Len(f[i])
      <3>1. \A i \in 0 .. n : i # 0 => i \in 1 .. n
        BY <1>0
      <3>2. \A i \in 0 .. n : (IF i = 0 THEN 0 ELSE Len(f[i])) \in Nat
        BY <2>3, <3>1, LenProperties
      <3>3. 0 \in 0 .. n /\ \A i \in 1 .. n : i \in 0 .. n /\ i # 0
        BY <1>0
      <3>. QED
        BY <3>2, <3>3
    <2> HIDE DEF s
    <2>6. ASSUME NEW i \in 1 .. n
          PROVE  /\ s[i] = s[i-1] + Len(seqs[i])
                 /\ i # 1 => \A j \in 1 .. s[i-1] : f[i][j] = f[i-1][j]
                 /\ \A j \in 1 .. Len(seqs[i]) : f[i][s[i-1] + j] = seqs[i][j]
      <3>1. seqs[i] \in Seq(A) /\ Len(seqs[i]) \in Nat
        BY <1>0, LenProperties
      <3>2. CASE i = 1
        <4>1. f[i] = seqs[i] /\ s[i-1] = 0 /\ s[i] = Len(f[i])
          <5>1. f[i] = seqs[i]
            BY <2>4, <3>2
          <5>2. i - 1 = 0 /\ s[0] = 0
            BY <2>5, <3>2
          <5>3. s[i] = Len(f[i])
            BY <2>5
          <5>. QED
            BY <5>1, <5>2, <5>3
        <4>2. \A j \in 1 .. Len(seqs[i]) : 0 + j = j
          OBVIOUS
        <4>3. 0 + Len(seqs[i]) = Len(seqs[i])
          BY <3>1
        <4>. QED
          BY <3>2, <4>1, <4>2, <4>3
      <3>3. CASE i # 1
        <4>1. i - 1 \in 1 .. n
          BY <1>0, <3>3
        <4>2. f[i] = f[i-1] \o seqs[i] /\ f[i-1] \in Seq(A) /\ s[i-1] = Len(f[i-1]) /\ s[i] = Len(f[i])
          BY <2>3, <2>4, <2>5, <3>3, <4>1
        <4> DEFINE a == f[i-1]
                   b == seqs[i]
                   c == f[i]
        <4>3. a \in Seq(A) /\ b \in Seq(A) /\ c = a \o b
          BY <3>1, <4>2
        <4> HIDE DEF a, b, c
        <4>4. /\ Len(c) = Len(a) + Len(b)
              /\ \A j \in 1 .. Len(a) : c[j] = a[j]
              /\ \A j \in 1 .. Len(b) : c[Len(a) + j] = b[j]
          BY <4>3, ConcatElements
        <4>. QED
          BY <4>2, <4>4 DEF a, b, c
      <3>. QED
        BY <3>2, <3>3
    (* What stands in f[i] stays there. *)
    <2> DEFINE P == {k \in Nat : k \in 1 .. n =>
                       \A i \in 1 .. k : s[i] <= s[k] /\ \A j \in 1 .. s[i] : f[k][j] = f[i][j]}
    <2>7. 0 \in P
      OBVIOUS
    <2>8. ASSUME NEW k \in Nat, k \in P PROVE k + 1 \in P
      <3> SUFFICES ASSUME k + 1 \in 1 .. n, NEW i \in 1 .. k + 1
                   PROVE  s[i] <= s[k+1] /\ \A j \in 1 .. s[i] : f[k+1][j] = f[i][j]
        OBVIOUS
      <3>1. s[k+1] \in Nat /\ s[i] \in Nat
        <4>1. k + 1 \in 0 .. n /\ i \in 0 .. n
          BY <1>0
        <4>. QED
          BY <2>5, <4>1
      <3>2. CASE i = k + 1
        BY <3>1, <3>2
      <3>3. CASE i # k + 1
        <4>1. i \in 1 .. k /\ k \in 1 .. n /\ k + 1 # 1 /\ (k + 1) - 1 = k /\ k \in 0 .. n
          BY <1>0, <3>3
        <4>2. s[i] <= s[k] /\ \A j \in 1 .. s[i] : f[k][j] = f[i][j]
          BY <2>8, <4>1
        <4>3. s[k+1] = s[k] + Len(seqs[k+1]) /\ \A j \in 1 .. s[k] : f[k+1][j] = f[k][j]
          BY <2>6, <4>1
        <4>4. s[k] \in Nat /\ Len(seqs[k+1]) \in Nat
          BY <1>0, <2>5, <4>1, LenProperties
        <4>5. s[i] <= s[k+1] /\ \A j \in 1 .. s[i] : j \in 1 .. s[k]
          BY <3>1, <4>2, <4>3, <4>4
        <4>. QED
          BY <4>2, <4>3, <4>5
      <3>. QED
        BY <3>2, <3>3
    <2>9. Nat \subseteq P
      <3> HIDE DEF P
      <3>. QED
        BY <2>7, <2>8, NatInductive
    <2>10. ASSUME NEW i \in 1 .. n
           PROVE  s[i] <= s[n] /\ \A j \in 1 .. s[i] : f[n][j] = f[i][j]
      BY <1>0, <2>2, <2>9
    <2>11. ASSUME NEW i \in 1 .. n, NEW j \in 1 .. Len(seqs[i])
           PROVE  f[n][s[i-1] + j] = seqs[i][j]
      <3>1. s[i-1] \in Nat /\ Len(seqs[i]) \in Nat
        <4>1. i - 1 \in 0 .. n
          BY <1>0
        <4>. QED
          BY <1>0, <2>5, <4>1, LenProperties
      <3>2. s[i-1] + j \in 1 .. s[i-1] + Len(seqs[i])
        BY <3>1, Sums
      <3>. QED
        BY <2>6, <2>10, <3>2
    <2>12. Len(f[n]) = s[n]
      BY <2>2, <2>5
    <2>13. PlacedAt(s, seqs, f[n])
      BY <2>5, <2>6, <2>10, <2>11, <2>12 DEF PlacedAt, n
    <2>. QED
      BY <2>1, <2>13
  <1>. QED
    BY <1>1, <1>2

-----------------------------------------------------------------------------
(***************************************************************************)
(* FoldLeft takes the positions of a sequence away from its right end: the *)
(* value for the first k elements comes from the value for k - 1 of them.  *)
(***************************************************************************)
LEMMA MaxOfPositions ==
  ASSUME NEW n \in Nat, NEW s \in SUBSET (1 .. n), s # {}
  PROVE  Max(s) \in s /\ \A x \in s : x <= Max(s)
  <1> DEFINE rank == [x \in s |-> n - x]
             P == {x \in s : FALSE}
  <1>1. rank \in [s -> Nat]
    OBVIOUS
  <1>2. \E m \in s : \A x \in s : x <= m
    <2> SUFFICES ASSUME \A m \in s : \E x \in s : x > m PROVE FALSE
      OBVIOUS
    <2>1. ASSUME NEW m \in s, \A x \in s : rank[x] < rank[m] => x \in P PROVE m \in P
      BY <2>1
    <2>2. s \subseteq P
      <3> HIDE DEF rank, P
      <3>. QED
        BY <1>1, <2>1, RankInduction
    <2>. QED
      BY <2>2
  <1>. QED
    BY <1>2 DEF Max

LEMMA Positions ==
  ASSUME NEW n \in Nat, NEW k \in 1 .. n
  PROVE  /\ (1 .. k) \in SUBSET (1 .. n) /\ 1 .. k # {}
         /\ Max(1 .. k) = k /\ (1 .. k) \ {k} = 1 .. (k - 1)
  <1>1. (1 .. k) \in SUBSET (1 .. n) /\ 1 .. k # {}
    OBVIOUS
  <1>2. Max(1 .. k) \in 1 .. k /\ \A x \in 1 .. k : x <= Max(1 .. k)
    BY <1>1, MaxOfPositions
  <1>. QED
    BY <1>1, <1>2

Folding(n, V, base, G) == n \in Nat /\ base \in V /\ G \in [1 .. n -> [V -> V]]

IsFold(it, n, V, base, G) ==
  /\ it \in [SUBSET (1 .. n) -> V]
  /\ \A s \in SUBSET (1 .. n) :
       it[s] = IF s = {} THEN base ELSE G[Max(s)][it[s \ {Max(s)}]]

LEMMA FoldExists ==
  ASSUME NEW n, NEW V, NEW base, NEW G, Folding(n, V, base, G)
  PROVE  \E it : IsFold(it, n, V, base, G)
  <1> DEFINE S == SUBSET (1 .. n)
             rank == [s \in S |-> IF s = {} THEN 0 ELSE Max(s)]
             F == [s \in S |-> [it \in [S -> V] |->
                     IF s = {} THEN base ELSE G[Max(s)][it[s \ {Max(s)}]]]]
  <1>0. n \in Nat /\ base \in V /\ G \in [1 .. n -> [V -> V]]
    BY DEF Folding
  <1> USE <1>0
  <1>1. \A s \in S : s # {} => /\ Max(s) \in s /\ Max(s) \in 1 .. n
                               /\ s \ {Max(s)} \in S /\ rank[s \ {Max(s)}] < rank[s]
    <2> SUFFICES ASSUME NEW s \in S, s # {}
                 PROVE  /\ Max(s) \in s /\ Max(s) \in 1 .. n
                        /\ s \ {Max(s)} \in S /\ rank[s \ {Max(s)}] < rank[s]
      OBVIOUS
    <2> DEFINE t == s \ {Max(s)}
    <2>1. Max(s) \in s /\ Max(s) \in 1 .. n /\ \A x \in s : x <= Max(s)
      BY MaxOfPositions
    <2>2. t \in S /\ rank[t] = (IF t = {} THEN 0 ELSE Max(t)) /\ rank[s] = Max(s)
      OBVIOUS
    <2>3. t # {} => Max(t) \in t /\ Max(t) \in s /\ Max(t) # Max(s)
      BY <2>2, MaxOfPositions
    <2>4. rank[t] < rank[s]
      BY <2>1, <2>2, <2>3
    <2>. QED
      BY <2>1, <2>2, <2>4
  <1>2. rank \in [S -> Nat]
    <2>1. \A s \in S : (IF s = {} THEN 0 ELSE Max(s)) \in Nat
      <3>1. ASSUME NEW s \in S, s # {} PROVE Max(s) \in 1 .. n
        BY <1>1, <3>1
      <3>2. \A s \in S : s # {} => Max(s) \in Nat
        BY <3>1
      <3> HIDE DEF S
      <3>. QED
        BY <3>2
    <2> HIDE DEF S
    <2>. QED
      BY <2>1
  <1>3. F \in [S -> [[S -> V] -> V]]
    <2>1. ASSUME NEW s \in S, NEW it \in [S -> V]
          PROVE  (IF s = {} THEN base ELSE G[Max(s)][it[s \ {Max(s)}]]) \in V
      <3> HIDE DEF S, rank
      <3>. QED
        BY <1>1
    <2> HIDE DEF S
    <2>. QED
      BY <2>1
  <1>4. ASSUME NEW s \in S, NEW f \in [S -> V], NEW g \in [S -> V],
               \A t \in S : rank[t] < rank[s] => f[t] = g[t]
        PROVE  F[s][f] = F[s][g]
    <2>1. F[s][f] = IF s = {} THEN base ELSE G[Max(s)][f[s \ {Max(s)}]]
      OBVIOUS
    <2>2. F[s][g] = IF s = {} THEN base ELSE G[Max(s)][g[s \ {Max(s)}]]
      OBVIOUS
    <2> HIDE DEF F, S, rank
    <2>. QED
      BY <1>1, <1>4, <2>1, <2>2
  <1>5. \E f \in [S -> V] : \A s \in S : f[s] = F[s][f]
    <2> HIDE DEF S, rank, F
    <2>1. Recursion(S, V, rank, F)
      BY <1>2, <1>3, <1>4 DEF Recursion
    <2>. QED
      BY <2>1, RankRecursion, SMT
  <1>. QED
    BY <1>5 DEF IsFold

-----------------------------------------------------------------------------
(***************************************************************************)
(* What holds of the empty sequence and of a sequence with one more        *)
(* element when it holds of the sequence holds of all.                     *)
(***************************************************************************)
LEMMA SeqInductive ==
  ASSUME NEW A, NEW P, <<>> \in P, \A s \in Seq(A) : s \in P => \A x \in A : Append(s, x) \in P
  PROVE  Seq(A) \subseteq P
  <1> DEFINE rank == [s \in Seq(A) |-> Len(s)]
  <1>1. rank \in [Seq(A) -> Nat]
    BY LenProperties
  <1>2. ASSUME NEW s \in Seq(A), \A t \in Seq(A) : rank[t] < rank[s] => t \in P
        PROVE  s \in P
    <2>1. CASE s = <<>>
      BY <2>1
    <2>2. CASE s # <<>>
      <3>1. PICK t \in Seq(A), x \in A : s = Append(t, x)
        BY <2>2, SequenceEmptyOrAppend
      <3>2. Len(t) \in Nat /\ Len(s) = Len(t) + 1
        BY <3>1, LenProperties, AppendProperties
      <3>3. t \in P
        BY <1>2, <3>2
      <3>. QED
        BY <3>1, <3>3
    <2>. QED
      BY <2>1, <2>2
  <1> DEFINE S == Seq(A)
  <1>3. rank \in [S -> Nat] /\ \A s \in S : (\A t \in S : rank[t] < rank[s] => t \in P) => s \in P
    BY <1>1, <1>2
  <1> HIDE DEF rank, S
  <1>4. S \subseteq P
    BY <1>3, RankInduction, SMT
  <1>. QED
    BY <1>4 DEF S

(***************************************************************************)
(* A text made of what a function gives for each element.                  *)
(***************************************************************************)
Maps(m, S, V) == m \in [S -> V]
Applied(s, m) == [k \in DOMAIN s |-> m[s[k]]]

LEMMA AppliedAppend ==
  ASSUME NEW S, NEW V, NEW m, Maps(m, S, V), NEW s \in Seq(S), NEW x \in S
  PROVE  /\ Applied(s, m) \in Seq(V) /\ Len(Applied(s, m)) = Len(s)
         /\ Applied(Append(s, x), m) = Append(Applied(s, m), m[x])
  <1> DEFINE a == Applied(s, m)
             t == Append(s, x)
             b == Applied(t, m)
  <1>1. DOMAIN s = 1 .. Len(s) /\ Len(s) \in Nat /\ \A k \in 1 .. Len(s) : s[k] \in S
    BY LenProperties, ElementOfSeq
  <1>2. a \in Seq(V) /\ Len(a) = Len(s) /\ \A k \in 1 .. Len(s) : a[k] = m[s[k]]
    BY <1>1 DEF Applied, Maps
  <1>3. /\ t \in Seq(S) /\ Len(t) = Len(s) + 1 /\ DOMAIN t = 1 .. Len(s) + 1
        /\ t[Len(s) + 1] = x /\ \A k \in 1 .. Len(s) : t[k] = s[k]
    BY <1>1
  <1> HIDE DEF a, t
  <1>4. \A k \in 1 .. Len(s) + 1 : t[k] \in S
    BY <1>3, ElementOfSeq
  <1>5. b \in Seq(V) /\ Len(b) = Len(s) + 1 /\ \A k \in 1 .. Len(s) + 1 : b[k] = m[t[k]]
    BY <1>1, <1>3, <1>4 DEF Applied, Maps
  <1> HIDE DEF b
  <1> DEFINE c == Append(a, m[x])
  <1>6. /\ c \in Seq(V) /\ Len(c) = Len(s) + 1 /\ c[Len(s) + 1] = m[x]
        /\ \A k \in 1 .. Len(s) : c[k] = a[k]
    <2>1. m[x] \in V
      BY DEF Maps
    <2>. QED
      BY <1>1, <1>2, <2>1, AppendProperties
  <1> HIDE DEF c
  <1>7. ASSUME NEW k \in 1 .. Len(b) PROVE b[k] = c[k]
    <2>1. CASE k = Len(s) + 1
      BY <1>3, <1>5, <1>6, <2>1
    <2>2. CASE k # Len(s) + 1
      <3>1. k \in 1 .. Len(s) /\ k \in 1 .. Len(s) + 1
        BY <1>1, <1>5, <2>2
      <3>. QED
        BY <1>2, <1>3, <1>5, <1>6, <3>1
    <2>. QED
      BY <2>1, <2>2
  <1>8. b = c
    BY <1>5, <1>6, <1>7, SeqEqual
  <1>. QED
    BY <1>2, <1>8 DEF a, b, c, t

LEMMA AppliedEmpty ==
  ASSUME NEW m
  PROVE  FlattenSeq(Applied(<<>>, m)) = <<>>
  <1>1. Applied(<<>>, m) = <<>>
    BY DEF Applied
  <1>. QED
    BY <1>1, FlattenEmpty

LEMMA FlattenApplied ==
  ASSUME NEW S, NEW A, NEW m, Maps(m, S, Seq(A)), NEW s \in Seq(S), NEW x \in S
  PROVE  /\ FlattenSeq(Applied(s, m)) \in Seq(A)
         /\ FlattenSeq(Applied(Append(s, x), m)) = FlattenSeq(Applied(s, m)) \o m[x]
  <1>1. Applied(s, m) \in Seq(Seq(A)) /\ Applied(Append(s, x), m) = Append(Applied(s, m), m[x])
    BY AppliedAppend
  <1>2. m[x] \in Seq(A)
    BY DEF Maps
  <1>. QED
    BY <1>1, <1>2, FlattenAppend

LEMMA FlattenAppliedType ==
  ASSUME NEW S, NEW A, NEW m, Maps(m, S, Seq(A)), NEW s \in Seq(S)
  PROVE  FlattenSeq(Applied(s, m)) \in Seq(A)
  <1>1. CASE s = <<>>
    BY <1>1, AppliedEmpty, EmptySeq
  <1>2. CASE s # <<>>
    <2>1. PICK t \in Seq(S), x \in S : s = Append(t, x)
      BY <1>2, SequenceEmptyOrAppend
    <2>. QED
      BY <2>1, FlattenApplied
  <1>. QED
    BY <1>1, <1>2

LEMMA AppendConcat ==
  ASSUME NEW S, NEW s \in Seq(S), NEW t \in Seq(S), NEW x \in S
  PROVE  s \o t \in Seq(S) /\ s \o Append(t, x) = Append(s \o t, x)
  <1>1. s \o t \in Seq(S) /\ <<x>> \in Seq(S)
    BY ConcatProperties
  <1>2. Append(t, x) = t \o <<x>> /\ Append(s \o t, x) = (s \o t) \o <<x>>
    BY <1>1, AppendIsConcat
  <1>3. (s \o t) \o <<x>> = s \o (t \o <<x>>)
    BY <1>1, ConcatAssociative
  <1>. QED
    BY <1>1, <1>2, <1>3

LEMMA FlattenAppliedConcat ==
  ASSUME NEW S, NEW A, NEW m, Maps(m, S, Seq(A)), NEW s \in Seq(S), NEW t \in Seq(S)
  PROVE  FlattenSeq(Applied(s \o t, m)) = FlattenSeq(Applied(s, m)) \o FlattenSeq(Applied(t, m))
  <1> DEFINE F(u) == FlattenSeq(Applied(u, m))
             P == {u \in Seq(S) : F(s \o u) = F(s) \o F(u)}
  <1>0. F(s) \in Seq(A)
    BY FlattenAppliedType
  <1>1. <<>> \in P
    <2>1. F(<<>>) = <<>>
      BY AppliedEmpty
    <2> HIDE DEF F
    <2>2. s \o <<>> = s /\ F(s) \o <<>> = F(s) /\ <<>> \in Seq(S)
      BY <1>0, ConcatEmptySeq, EmptySeq
    <2>. QED
      BY <2>1, <2>2
  <1>2. ASSUME NEW u \in Seq(S), u \in P, NEW x \in S PROVE Append(u, x) \in P
    <2>1. s \o u \in Seq(S) /\ s \o Append(u, x) = Append(s \o u, x)
      BY AppendConcat
    <2>2. F(Append(s \o u, x)) = F(s \o u) \o m[x] /\ F(Append(u, x)) = F(u) \o m[x]
      <3>1. F(Append(s \o u, x)) = F(s \o u) \o m[x]
        <4> DEFINE v == s \o u
        <4>1. v \in Seq(S)
          BY <2>1
        <4> HIDE DEF v
        <4>2. F(Append(v, x)) = F(v) \o m[x]
          BY <4>1, FlattenApplied
        <4>. QED
          BY <4>2 DEF v
      <3>2. F(Append(u, x)) = F(u) \o m[x]
        BY FlattenApplied
      <3>. QED
        BY <3>1, <3>2
    <2>3. F(u) \in Seq(A) /\ m[x] \in Seq(A)
      BY FlattenAppliedType DEF Maps
    <2>4. Append(u, x) \in Seq(S)
      BY AppendProperties
    <2> HIDE DEF F
    <2>5. F(s \o u) = F(s) \o F(u)
      BY <1>2
    <2>6. (F(s) \o F(u)) \o m[x] = F(s) \o (F(u) \o m[x])
      <3> DEFINE a == F(s)
                 b == F(u)
                 c == m[x]
      <3>1. a \in Seq(A) /\ b \in Seq(A) /\ c \in Seq(A)
        BY <1>0, <2>3
      <3> HIDE DEF a, b, c
      <3>2. (a \o b) \o c = a \o (b \o c)
        BY <3>1, ConcatAssociative
      <3>. QED
        BY <3>2 DEF a, b, c
    <2>7. F(s \o Append(u, x)) = F(s) \o F(Append(u, x))
      BY <2>1, <2>2, <2>5, <2>6
    <2>. QED
      BY <2>4, <2>7
  <1>3. Seq(S) \subseteq P
    <2> HIDE DEF P
    <2>. QED
      BY <1>1, <1>2, SeqInductive
  <1>. QED
    BY <1>3
=============================================================================
