------------------------- MODULE ConfigParserProofs -------------------------
(***************************************************************************)
(* Proofs about ConfigParser, for files of any length and blocks of any    *)
(* depth: the types, what the stack of Parse holds, that Parse accepts the *)
(* grammar, and that ToString writes what Parse has accepted.              *)
(***************************************************************************)
EXTENDS ConfigParser, InductionLemmas

(***************************************************************************)
(* The path on the stack is kept because a block is made after the one it  *)
(* is in: numbers grow along the stack, so that a change of the block on   *)
(* top leaves the others on it alone.                                      *)
(***************************************************************************)
Grows ==
  /\ \A i \in DOMAIN config_stack : config_stack[i] \in DOMAIN blocks
  /\ \A i, j \in DOMAIN config_stack : i < j => config_stack[i] < config_stack[j]

Path ==
  /\ Len(config_stack) = depth + 1
  /\ \A i \in DOMAIN config_stack :
       IF i = 1 THEN config_stack[i] = 1
       ELSE /\ blocks[config_stack[i - 1]] # <<>>
            /\ LastStatement(config_stack[i - 1]).child = config_stack[i]

Pending ==
  last_token_type = "NORMAL" =>
    /\ config_stack # <<>> /\ blocks[Top] # <<>>
    /\ LastStatement(Top).tokens # <<>> /\ LastStatement(Top).child = 0

ParseTypeOK ==
  /\ last_token_type \in {"START", "NORMAL"} \cup BlockEnds
  /\ depth \in Int
  /\ blocks \in Seq(Seq(Records))
  /\ config_stack \in Seq(Nat)
  /\ result \in {"none", "true", "false"}
  /\ ub \in BOOLEAN

Shape == Grows /\ Path /\ Pending
ParseInv == ParseTypeOK /\ (result = "none" /\ ~ub => Shape)
IInv == TypeOK /\ ParseInv
-----------------------------------------------------------------------------
(* Changing the last of the statements of a block. *)
LEMMA LastChanged ==
  ASSUME NEW list \in Seq(Records), list # <<>>, NEW stmt \in Records
  PROVE  LET new == [list EXCEPT ![Len(list)] = stmt]
         IN  /\ new \in Seq(Records) /\ new # <<>>
             /\ Len(new) = Len(list) /\ new[Len(new)] = stmt
  <1>1. Len(list) \in Nat /\ Len(list) > 0 /\ DOMAIN list = 1 .. Len(list)
    BY EmptySeq, LenProperties
  <1>. QED
    BY <1>1

(* Top is the number of a block, above all others on the stack. *)
LEMMA TopProperties ==
  ASSUME ParseTypeOK, Grows, config_stack # <<>>
  PROVE  /\ Len(config_stack) \in Nat \ {0}
         /\ DOMAIN config_stack = 1 .. Len(config_stack)
         /\ Top \in DOMAIN blocks
         /\ blocks[Top] \in Seq(Records)
         /\ \A i \in DOMAIN config_stack : i < Len(config_stack) => config_stack[i] < Top
  <1>1. Len(config_stack) \in Nat \ {0} /\ DOMAIN config_stack = 1 .. Len(config_stack)
    BY LenProperties DEF ParseTypeOK
  <1>2. Len(config_stack) \in DOMAIN config_stack
    BY <1>1
  <1>3. Top \in DOMAIN blocks
    BY <1>2 DEF Grows, Top
  <1>4. blocks[Top] \in Seq(Records)
    BY <1>3, ElementOfSeq DEF ParseTypeOK
  <1>. QED
    BY <1>1, <1>2, <1>3, <1>4 DEF Grows, Top

LEMMA NormalStep ==
  ASSUME ParseInv, result = "none", ~ub, Normal, Len(file) \in Nat
  PROVE  ParseInv'
  <1>1. CASE config_stack = <<>> /\ Undefined /\ UNCHANGED depth
    BY <1>1 DEF ParseInv, ParseTypeOK, Undefined
  <1>2. CASE config_stack # <<>> /\ ~(config_stack = <<>> /\ Undefined /\ UNCHANGED depth)
    <2> DEFINE list == IF last_token_type = "NORMAL" THEN blocks[Top]
                                                     ELSE Append(blocks[Top], NewStatement)
               stmt == [list[Len(list)] EXCEPT !.tokens = Append(@, Len(file) + 1)]
               new == [list EXCEPT ![Len(list)] = stmt]
    <2>1. ParseTypeOK /\ Shape
      BY DEF ParseInv
    <2>2. /\ Len(config_stack) \in Nat \ {0}
          /\ DOMAIN config_stack = 1 .. Len(config_stack)
          /\ Top \in DOMAIN blocks
          /\ blocks[Top] \in Seq(Records)
          /\ \A i \in DOMAIN config_stack : i < Len(config_stack) => config_stack[i] < Top
      BY <1>2, <2>1, TopProperties DEF Shape
    <2>3. /\ blocks' = [blocks EXCEPT ![Top] = new]
          /\ last_token_type' = "NORMAL"
          /\ UNCHANGED <<depth, config_stack, result, ub>>
      BY <1>2 DEF Normal
    <2>4. list \in Seq(Records) /\ list # <<>> /\ list[Len(list)] \in Records /\ list[Len(list)].child = 0
      <3>1. NewStatement \in Records /\ NewStatement.child = 0
        BY DEF NewStatement, Records
      <3>2. CASE last_token_type = "NORMAL"
        <4>1. blocks[Top] # <<>> /\ LastStatement(Top).child = 0
          BY <2>1, <3>2 DEF Shape, Pending
        <4>2. Len(blocks[Top]) \in DOMAIN blocks[Top]
          BY <2>2, <4>1, EmptySeq, LenProperties
        <4>3. blocks[Top][Len(blocks[Top])] \in Records
          BY <2>2, <4>2, ElementOfSeq
        <4>. QED
          BY <2>2, <3>2, <4>1, <4>3 DEF LastStatement
      <3>3. CASE last_token_type # "NORMAL"
        <4>1. list = Append(blocks[Top], NewStatement)
          BY <3>3
        <4>2. /\ list \in Seq(Records) /\ list # <<>>
              /\ Len(list) = Len(blocks[Top]) + 1
              /\ list[Len(list)] = NewStatement
          BY <2>2, <3>1, <4>1, AppendProperties, LenProperties
        <4>. QED
          BY <3>1, <4>2
      <3>. QED
        BY <3>2, <3>3
    <2>5. stmt \in Records /\ stmt.child = 0 /\ stmt.tokens # <<>>
      <3> DEFINE r == list[Len(list)]
                 n == Len(file) + 1
      <3>1. r \in Records /\ r.child = 0
        BY <2>4
      <3>2. n \in Nat
        OBVIOUS
      <3>3. stmt = [r EXCEPT !.tokens = Append(r.tokens, n)]
        OBVIOUS
      <3> HIDE DEF r, n, stmt
      <3>4. r.tokens \in Seq(Nat)
        BY <3>1 DEF Records
      <3>5. Append(r.tokens, n) \in Seq(Nat) /\ Append(r.tokens, n) # <<>>
        BY <3>2, <3>4, AppendProperties, ZenonT(40)
      <3>. QED
        BY <3>1, <3>3, <3>5 DEF Records
    <2> HIDE DEF list, stmt
    <2>6. new \in Seq(Records) /\ new # <<>> /\ new[Len(new)] = stmt
      BY <2>4, <2>5, LastChanged
    <2> HIDE DEF new
    <2>7. /\ blocks' \in Seq(Seq(Records)) /\ DOMAIN blocks' = DOMAIN blocks
          /\ blocks'[Top] = new
          /\ \A b \in DOMAIN blocks : b # Top => blocks'[b] = blocks[b]
      BY <2>1, <2>2, <2>3, <2>6 DEF ParseTypeOK
    <2>8. ParseTypeOK'
      BY <2>1, <2>3, <2>7 DEF ParseTypeOK
    <2>9. Grows'
      BY <2>1, <2>3, <2>7 DEF Shape, Grows
    <2>10. Path'
      <3>1. ASSUME NEW i \in DOMAIN config_stack, i # 1
            PROVE  /\ blocks'[config_stack[i - 1]] # <<>>
                   /\ LastStatement(config_stack[i - 1])'.child = config_stack[i]
        <4>1. i - 1 \in DOMAIN config_stack /\ i - 1 < Len(config_stack)
          BY <2>2, <3>1
        <4>2. config_stack[i - 1] \in DOMAIN blocks /\ config_stack[i - 1] < Top
          BY <2>1, <2>2, <4>1 DEF Shape, Grows
        <4>3. blocks'[config_stack[i - 1]] = blocks[config_stack[i - 1]]
          BY <2>1, <2>2, <2>7, <4>1, <4>2 DEF ParseTypeOK
        <4>4. /\ blocks[config_stack[i - 1]] # <<>>
              /\ LastStatement(config_stack[i - 1]).child = config_stack[i]
          BY <2>1, <3>1 DEF Shape, Path
        <4>. QED
          BY <2>3, <4>3, <4>4 DEF LastStatement
      <3>. QED
        BY <2>1, <2>3, <3>1 DEF Shape, Path, LastStatement
    <2>11. Pending'
      BY <1>2, <2>3, <2>5, <2>6, <2>7 DEF Pending, LastStatement, Top
    <2>. QED
      BY <2>8, <2>9, <2>10, <2>11 DEF ParseInv, Shape
  <1>. QED
    BY <1>1, <1>2 DEF Normal

LEMMA StatementEndStep ==
  ASSUME ParseInv, result = "none", ~ub, StatementEnd
  PROVE  ParseInv'
  <1>1. CASE Fail
    BY <1>1 DEF StatementEnd, Fail, ParseInv, ParseTypeOK
  <1>2. CASE ~Fail
    <2>1. /\ last_token_type' = "STATEMENT_END"
          /\ UNCHANGED <<depth, config_stack, blocks, result, ub>>
      BY <1>2 DEF StatementEnd
    <2>2. ParseTypeOK /\ Shape
      BY DEF ParseInv
    <2>3. ParseTypeOK'
      BY <2>1, <2>2 DEF ParseTypeOK, BlockEnds
    <2>4. Shape'
      BY <2>1, <2>2 DEF Shape, Grows, Path, Pending, LastStatement
    <2>. QED
      BY <2>3, <2>4 DEF ParseInv
  <1>. QED
    BY <1>1, <1>2

LEMMA StartBlockStep ==
  ASSUME ParseInv, result = "none", ~ub, StartBlock
  PROVE  ParseInv'
  <1>1. CASE last_token_type # "NORMAL"
    BY <1>1 DEF StartBlock, Fail, ParseInv, ParseTypeOK
  <1>2. CASE last_token_type = "NORMAL"
    <2> DEFINE new_config == Len(blocks) + 1
               list == blocks[Top]
               stmt == [list[Len(list)] EXCEPT !.child = new_config]
               new == [list EXCEPT ![Len(list)] = stmt]
               filled == [blocks EXCEPT ![Top] = new]
    <2>1. /\ blocks' = Append(filled, <<>>)
          /\ config_stack' = Append(config_stack, new_config)
          /\ depth' = depth + 1
          /\ last_token_type' = "START_BLOCK"
          /\ UNCHANGED <<result, ub>>
      BY <1>2 DEF StartBlock
    <2>2. ParseTypeOK /\ Shape
      BY DEF ParseInv
    <2>3. config_stack # <<>> /\ list # <<>>
      BY <1>2, <2>2 DEF Shape, Pending
    <2>4. /\ Len(config_stack) \in Nat \ {0}
          /\ DOMAIN config_stack = 1 .. Len(config_stack)
          /\ Top \in DOMAIN blocks
          /\ list \in Seq(Records)
          /\ \A i \in DOMAIN config_stack : i < Len(config_stack) => config_stack[i] < Top
      BY <2>2, <2>3, TopProperties DEF Shape
    <2>5. DOMAIN blocks = 1 .. Len(blocks) /\ new_config \in Nat
      BY <2>2, LenProperties DEF ParseTypeOK
    <2>6. list[Len(list)] \in Records
      <3>1. Len(list) \in 1 .. Len(list)
        BY <2>3, <2>4, EmptySeq, LenProperties
      <3>. QED
        BY <2>4, <3>1, ElementOfSeq
    <2>7. stmt \in Records /\ stmt.child = new_config
      BY <2>5, <2>6 DEF Records
    <2> HIDE DEF list, stmt
    <2>8. new \in Seq(Records) /\ new # <<>> /\ new[Len(new)] = stmt
      BY <2>3, <2>4, <2>7, LastChanged
    <2> HIDE DEF new
    <2>9. /\ filled \in Seq(Seq(Records)) /\ Len(filled) = Len(blocks)
          /\ filled[Top] = new
          /\ \A b \in DOMAIN blocks : b # Top => filled[b] = blocks[b]
      BY <2>2, <2>4, <2>5, <2>8 DEF ParseTypeOK
    <2> HIDE DEF filled
    <2>10. /\ blocks' \in Seq(Seq(Records)) /\ DOMAIN blocks' = 1 .. new_config
           /\ blocks'[Top] = new
           /\ \A b \in DOMAIN blocks : b # Top => blocks'[b] = blocks[b]
      <3> DEFINE none == <<>>
      <3>1. none \in Seq(Records) /\ blocks' = Append(filled, none)
        BY <2>1, EmptySeq
      <3> HIDE DEF none
      <3>2. /\ blocks' \in Seq(Seq(Records)) /\ Len(blocks') = new_config
            /\ \A b \in 1 .. Len(filled) : blocks'[b] = filled[b]
        <4>1. filled \in Seq(Seq(Records)) /\ Len(filled) = Len(blocks)
          BY <2>9
        <4>2. /\ blocks' \in Seq(Seq(Records)) /\ Len(blocks') = Len(filled) + 1
              /\ \A b \in 1 .. Len(filled) : blocks'[b] = filled[b]
          BY <3>1, <4>1, AppendProperties
        <4>. QED
          BY <4>1, <4>2
      <3>3. DOMAIN blocks' = 1 .. new_config
        BY <3>2, LenProperties
      <3>. QED
        BY <2>4, <2>5, <2>9, <3>2, <3>3
    <2> DEFINE n == Len(config_stack)
    <2>11. /\ config_stack' \in Seq(Nat) /\ Len(config_stack') = n + 1
           /\ DOMAIN config_stack' = 1 .. n + 1
           /\ config_stack'[n + 1] = new_config
           /\ \A i \in 1 .. n : config_stack'[i] = config_stack[i]
      <3>1. config_stack \in Seq(Nat)
        BY <2>2 DEF ParseTypeOK
      <3>2. /\ config_stack' \in Seq(Nat) /\ Len(config_stack') = n + 1
            /\ config_stack'[n + 1] = new_config
            /\ \A i \in 1 .. n : config_stack'[i] = config_stack[i]
        BY <2>1, <2>5, <3>1, AppendProperties
      <3>. QED
        BY <3>2, LenProperties
    <2>12. ParseTypeOK'
      BY <2>1, <2>2, <2>10, <2>11 DEF ParseTypeOK, BlockEnds
    <2> HIDE DEF new_config
    <2>13. \A i \in 1 .. n : config_stack[i] \in 1 .. Len(blocks)
      BY <2>2, <2>4, <2>5 DEF Shape, Grows
    <2>14. new_config = Len(blocks) + 1 /\ Len(blocks) \in Nat
      BY <2>2, LenProperties DEF new_config, ParseTypeOK
    <2>15. Grows'
      <3>1. \A i \in 1 .. n + 1 : config_stack'[i] \in 1 .. new_config
        BY <2>4, <2>11, <2>13, <2>14
      <3>2. ASSUME NEW i \in 1 .. n + 1, NEW j \in 1 .. n + 1, i < j
            PROVE  config_stack'[i] < config_stack'[j]
        <4>1. i \in 1 .. n
          BY <2>4, <3>2
        <4>2. CASE j = n + 1
          BY <2>11, <2>13, <2>14, <4>1, <4>2
        <4>3. CASE j \in 1 .. n
          BY <2>2, <2>4, <2>11, <3>2, <4>1, <4>3 DEF Shape, Grows
        <4>. QED
          BY <2>4, <4>2, <4>3
      <3>. QED
        BY <2>10, <2>11, <3>1, <3>2 DEF Grows
    <2>16. ASSUME NEW i \in 1 .. n + 1, i # 1
           PROVE  /\ blocks'[config_stack'[i - 1]] # <<>>
                  /\ blocks'[config_stack'[i - 1]][Len(blocks'[config_stack'[i - 1]])].child
                       = config_stack'[i]
      <3>1. i - 1 \in 1 .. n /\ config_stack'[i - 1] = config_stack[i - 1]
        <4>1. n \in Nat
          BY <2>4
        <4> HIDE DEF n
        <4>2. i - 1 \in 1 .. n
          BY <2>16, <4>1
        <4>. QED
          BY <2>11, <4>2
      <3>2. CASE i = n + 1
        <4>1. config_stack'[i - 1] = Top
          BY <2>4, <3>1, <3>2 DEF Top
        <4>. QED
          BY <2>7, <2>8, <2>10, <2>11, <3>2, <4>1
      <3>3. CASE i \in 1 .. n
        <4>1. config_stack[i - 1] \in DOMAIN blocks /\ config_stack[i - 1] < Top
          BY <2>4, <2>5, <2>13, <3>1, <3>3
        <4>2. blocks'[config_stack[i - 1]] = blocks[config_stack[i - 1]]
          BY <2>4, <2>5, <2>10, <4>1
        <4>3. /\ blocks[config_stack[i - 1]] # <<>>
              /\ LastStatement(config_stack[i - 1]).child = config_stack[i]
          BY <2>2, <2>4, <2>16, <3>3 DEF Shape, Path
        <4>. QED
          BY <2>11, <3>1, <3>3, <4>2, <4>3 DEF LastStatement
      <3>. QED
        BY <2>4, <3>2, <3>3
    <2>17. Path'
      <3>1. Len(config_stack') = depth' + 1
        BY <2>1, <2>2, <2>11 DEF Shape, Path, ParseTypeOK
      <3>2. config_stack'[1] = 1
        <4>1. 1 \in 1 .. n /\ 1 \in DOMAIN config_stack
          BY <2>4
        <4>2. config_stack[1] = 1
          BY <2>2, <4>1 DEF Shape, Path
        <4>. QED
          BY <2>11, <4>1, <4>2
      <3>. QED
        BY <2>11, <2>16, <3>1, <3>2 DEF Path, LastStatement
    <2>18. Pending'
      BY <2>1 DEF Pending
    <2>. QED
      BY <2>12, <2>15, <2>17, <2>18 DEF ParseInv, Shape
  <1>. QED
    BY <1>1, <1>2

LEMMA EndBlockStep ==
  ASSUME ParseInv, result = "none", ~ub, EndBlock
  PROVE  ParseInv'
  <1>1. CASE Fail
    BY <1>1 DEF EndBlock, Fail, ParseInv, ParseTypeOK
  <1>2. CASE Undefined
    BY <1>2 DEF EndBlock, Undefined, ParseInv, ParseTypeOK
  <1>3. CASE ~Fail /\ ~Undefined
    <2>1. /\ config_stack # <<>> /\ config_stack' = Front(config_stack)
          /\ depth' = depth - 1
          /\ last_token_type' = "END_BLOCK"
          /\ UNCHANGED <<blocks, result, ub>>
      BY <1>3 DEF EndBlock
    <2>2. ParseTypeOK /\ Shape
      BY DEF ParseInv
    <2> DEFINE n == Len(config_stack)
    <2>3. n \in Nat \ {0} /\ DOMAIN config_stack = 1 .. n
      BY <2>1, <2>2, TopProperties DEF Shape
    <2>4. /\ config_stack' \in Seq(Nat) /\ Len(config_stack') = n - 1
          /\ DOMAIN config_stack' = 1 .. n - 1
          /\ \A i \in 1 .. n - 1 : config_stack'[i] = config_stack[i]
      <3>1. config_stack' = SubSeq(config_stack, 1, n - 1)
        BY <2>1 DEF Front
      <3>2. \A i \in 1 .. n - 1 : config_stack[i] \in Nat
        BY <2>2, <2>3, ElementOfSeq DEF ParseTypeOK
      <3>3. /\ config_stack' \in Seq(Nat)
            /\ Len(config_stack') = IF 1 <= n - 1 THEN n - 1 ELSE 0
            /\ \A i \in 1 .. n - 1 : config_stack'[i] = config_stack[1 + i - 1]
        BY <2>3, <3>1, <3>2, SubSeqProperties
      <3>4. Len(config_stack') = n - 1
        <4> DEFINE m == Len(config_stack')
        <4>1. n \in Nat \ {0} /\ m = IF 1 <= n - 1 THEN n - 1 ELSE 0
          BY <2>3, <3>3
        <4> HIDE DEF m, n
        <4>2. m = n - 1
          BY <4>1
        <4>. QED
          BY <4>2 DEF m
      <3>5. DOMAIN config_stack' = 1 .. n - 1
        BY <3>3, <3>4, LenProperties
      <3>. QED
        BY <3>3, <3>4, <3>5
    <2>5. ParseTypeOK'
      BY <2>1, <2>2, <2>4 DEF ParseTypeOK, BlockEnds
    <2>6. Grows'
      <3>1. \A i \in 1 .. n - 1 : i \in DOMAIN config_stack
        BY <2>3
      <3>2. \A i \in 1 .. n - 1 : config_stack'[i] \in DOMAIN blocks
        BY <2>2, <2>4, <3>1 DEF Shape, Grows
      <3>3. \A i, j \in 1 .. n - 1 : i < j => config_stack'[i] < config_stack'[j]
        BY <2>2, <2>4, <3>1 DEF Shape, Grows
      <3>. QED
        BY <2>1, <2>4, <3>2, <3>3 DEF Grows
    <2>7. Path'
      <3>1. Len(config_stack') = depth' + 1
        BY <2>1, <2>2, <2>3, <2>4 DEF Shape, Path, ParseTypeOK
      <3>2. ASSUME NEW i \in 1 .. n - 1
            PROVE  IF i = 1 THEN config_stack'[i] = 1
                   ELSE /\ blocks[config_stack'[i - 1]] # <<>>
                        /\ LastStatement(config_stack'[i - 1]).child = config_stack'[i]
        BY <2>2, <2>3, <2>4 DEF Shape, Path
      <3>. QED
        BY <2>1, <2>4, <3>1, <3>2 DEF Path, LastStatement
    <2>8. Pending'
      BY <2>1 DEF Pending
    <2>. QED
      BY <2>5, <2>6, <2>7, <2>8 DEF ParseInv, Shape
  <1>. QED
    BY <1>1, <1>2, <1>3

-----------------------------------------------------------------------------
(* A token that Parse handles keeps the invariant and is remembered. *)
LEMMA HandleStep ==
  ASSUME IInv, result = "none", ~ub,
         NEW type \in {"NORMAL", "ERROR"} \cup Symbols, Handle(type)
  PROVE  ParseInv' /\ file' \in Seq(Tokens)
  <1>1. ParseInv /\ file \in Seq(Tokens)
    BY DEF IInv, TypeOK
  <1>2. Len(file) \in Nat
    BY <1>1, LenProperties
  <1>3. file' \in Seq(Tokens)
    <2>1. Token(type) \in Tokens
      BY <1>2 DEF Token, Tokens, TokenTypes
    <2>. QED
      BY <1>1, <2>1, AppendProperties DEF Handle
  <1>4. CASE type = "NORMAL" /\ Normal
    BY <1>1, <1>2, <1>3, <1>4, NormalStep
  <1>5. CASE type = ";" /\ StatementEnd
    BY <1>1, <1>3, <1>5, StatementEndStep
  <1>6. CASE type = "{" /\ StartBlock
    BY <1>1, <1>3, <1>6, StartBlockStep
  <1>7. CASE type = "}" /\ EndBlock
    BY <1>1, <1>3, <1>7, EndBlockStep
  <1>8. CASE type = "ERROR" /\ Fail /\ UNCHANGED depth
    BY <1>1, <1>3, <1>8 DEF Fail, ParseInv, ParseTypeOK
  <1>. QED
    BY <1>3, <1>4, <1>5, <1>6, <1>7, <1>8 DEF Handle

(* A character that ends no token leaves Parse alone. *)
LEMMA ScanStep ==
  ASSUME IInv, NEW next, Scan(next)
  PROVE  ParseInv' /\ file' \in Seq(Tokens)
  BY DEF Scan, parse, IInv, TypeOK, ParseInv, ParseTypeOK, Shape, Grows, Path,
         Pending, LastStatement, Top

LEMMA CharStep ==
  ASSUME IInv, NEW c \in Chars,
         InitialWhitespace(c) \/ Quote(c) \/ Comment(c) \/ Unget(c) \/ Word(c)
  PROVE  IInv'
  <1>1. result = "none" /\ ~ub /\ read' \in Nat
    BY ParserAssumption DEF InitialWhitespace, Quote, Comment, Unget, Word, Getting, IInv, TypeOK
  <1>2. ASSUME NEW next \in {"initial", "normal", "comment"} \cup Quotes, Scan(next)
        PROVE  IInv'
    <2>1. ParseInv' /\ file' \in Seq(Tokens)
      BY <1>2, ScanStep
    <2>2. state' = next /\ peek' = NoChar
      BY <1>2 DEF Scan
    <2>. QED
      BY <1>1, <2>1, <2>2 DEF IInv, TypeOK, ParseInv, ParseTypeOK
  <1>3. ASSUME NEW type \in {"NORMAL", "ERROR"} \cup Symbols, Handle(type),
               state' = "initial", peek' \in Chars \cup {NoChar}
        PROVE  IInv'
    <2>1. ParseInv' /\ file' \in Seq(Tokens)
      BY <1>1, <1>3, HandleStep
    <2>. QED
      BY <1>1, <1>3, <2>1 DEF IInv, TypeOK, ParseInv, ParseTypeOK
  <1>4. CASE InitialWhitespace(c)
    BY <1>2, <1>3, <1>4 DEF InitialWhitespace, Emit
  <1>5. CASE Quote(c)
    BY <1>2, <1>3, <1>5 DEF Quote, Emit
  <1>6. CASE Comment(c)
    BY <1>2, <1>6 DEF Comment
  <1>7. CASE Unget(c)
    BY <1>3, <1>7 DEF Unget
  <1>8. CASE Word(c)
    BY <1>2, <1>8 DEF Word
  <1>. QED
    BY <1>4, <1>5, <1>6, <1>7, <1>8

LEMMA EndOfFileStep ==
  ASSUME IInv, EndOfFile
  PROVE  IInv'
  <1>1. CASE Handle("ERROR")
    <2>1. ParseInv' /\ file' \in Seq(Tokens)
      BY <1>1, HandleStep DEF EndOfFile
    <2>. QED
      BY <2>1 DEF EndOfFile, IInv, TypeOK, ParseInv, ParseTypeOK
  <1>2. CASE ~Handle("ERROR")
    <2>1. /\ result' \in {"true", "false"}
          /\ UNCHANGED <<last_token_type, depth, config_stack, blocks, file, ub, peek, state, read>>
      BY <1>2 DEF EndOfFile
    <2>. QED
      BY <2>1 DEF IInv, TypeOK, ParseInv, ParseTypeOK
  <1>. QED
    BY <1>1, <1>2

LEMMA Invariance == Spec => []IInv
  <1>1. Init => IInv
    <2> SUFFICES ASSUME Init PROVE IInv
      OBVIOUS
    <2>1. blocks = <<<<>>>> /\ config_stack = <<1>> /\ file = <<>>
      BY DEF Init
    <2>2. blocks \in Seq(Seq(Records)) /\ DOMAIN blocks = {1}
      BY <2>1
    <2>3. TypeOK
      <3>1. config_stack \in Seq(Nat) /\ file \in Seq(Tokens)
        BY <2>1
      <3>2. /\ peek = NoChar /\ state = "initial" /\ last_token_type = "START"
            /\ depth = 0 /\ result \in {"none", "true", "false"}
            /\ read = 0 /\ ub = FALSE
        BY DEF Init
      <3>3. /\ peek \in Chars \cup {NoChar}
            /\ state \in {"initial", "normal", "comment"} \cup Quotes
            /\ peek # NoChar => state = "initial"
            /\ last_token_type \in {"START", "NORMAL"} \cup BlockEnds
            /\ ub \in BOOLEAN
        BY <3>2, Zenon
      <3>4. depth \in Int /\ read \in Nat
        BY <3>2
      <3>. QED
        BY <2>2, <3>1, <3>2, <3>3, <3>4, Zenon DEF TypeOK
    <2>4. ParseTypeOK
      BY <2>3 DEF TypeOK, ParseTypeOK
    <2>5. Shape
      BY <2>1, <2>2 DEF Init, Shape, Grows, Path, Pending
    <2>. QED
      BY <2>3, <2>4, <2>5 DEF IInv, ParseInv
  <1>2. IInv /\ [Next]_vars => IInv'
    <2> SUFFICES ASSUME IInv, [Next]_vars PROVE IInv'
      OBVIOUS
    <2>1. CASE UNCHANGED vars
      BY <2>1 DEF vars, IInv, TypeOK, ParseInv, ParseTypeOK, Shape, Grows, Path, Pending,
                  LastStatement, Top
    <2>2. CASE Next
      BY <2>2, CharStep, EndOfFileStep DEF Next
    <2>. QED
      BY <2>1, <2>2
  <1>. QED
    BY <1>1, <1>2, PTL DEF Spec

(***************************************************************************)
(* Whatever the file, every variable of Parse and ParseToken has a value   *)
(* of its type.                                                            *)
(***************************************************************************)
THEOREM TypeCorrect == Spec => []TypeOK
  <1>1. IInv => TypeOK
    BY DEF IInv
  <1>. QED
    BY <1>1, Invariance, PTL

(***************************************************************************)
(* Whatever the file, and however deep its blocks, the stack is the path   *)
(* to the block being filled and statements_.back() exists when used; only *)
(* a brace too many can empty the stack.                                   *)
(***************************************************************************)
THEOREM StackHoldsPath == Spec => []StackIsPath
  <1>1. IInv => StackIsPath
    BY DEF IInv, ParseInv, Shape, Path, Pending, StackIsPath
  <1>. QED
    BY <1>1, Invariance, PTL
-----------------------------------------------------------------------------
(***************************************************************************)
(* The sequence of types without the statement from i to j.                *)
(***************************************************************************)
TypeSeqs == Seq(TokenTypes)
Cut(s, i, j) == SubSeq(s, 1, i - 1) \o SubSeq(s, j + 1, Len(s))

LEMMA OneElement ==
  ASSUME NEW S, NEW t \in Seq(S), NEW a \in S
  PROVE  t = <<a>> <=> Len(t) = 1 /\ t[1] = a
  OBVIOUS

LEMMA TwoElements ==
  ASSUME NEW S, NEW t \in Seq(S), NEW a \in S, NEW b \in S
  PROVE  t = <<a, b>> <=> Len(t) = 2 /\ t[1] = a /\ t[2] = b
  OBVIOUS

LEMMA CutFacts ==
  ASSUME NEW s \in TypeSeqs, NEW i \in 1 .. Len(s), NEW j \in i .. Len(s)
  PROVE  /\ Cut(s, i, j) \in TypeSeqs /\ Len(Cut(s, i, j)) = Len(s) - (j - i + 1)
         /\ \A k \in 1 .. Len(s) - (j - i + 1) :
              Cut(s, i, j)[k] = IF k < i THEN s[k] ELSE s[k + (j - i + 1)]
  <1> USE DEF TypeSeqs
  <1> DEFINE a == SubSeq(s, 1, i - 1)
             b == SubSeq(s, j + 1, Len(s))
  <1>0. Len(s) \in Nat /\ DOMAIN s = 1 .. Len(s) /\ \A k \in 1 .. Len(s) : s[k] \in TokenTypes
    BY LenProperties, ElementOfSeq
  <1>1. a \in Seq(TokenTypes) /\ Len(a) = i - 1 /\ \A k \in 1 .. i - 1 : a[k] = s[k]
    <2>1. /\ a \in Seq(TokenTypes) /\ Len(a) = (IF 1 <= i - 1 THEN (i - 1) - 1 + 1 ELSE 0)
          /\ \A k \in 1 .. (i - 1) - 1 + 1 : a[k] = s[1 + k - 1]
      BY <1>0, SubSeqProperties
    <2> HIDE DEF a
    <2>. QED
      BY <2>1
  <1>2. /\ b \in Seq(TokenTypes) /\ Len(b) = Len(s) - j
        /\ \A k \in 1 .. Len(s) - j : b[k] = s[j + k]
    <2>1. /\ b \in Seq(TokenTypes)
          /\ Len(b) = (IF j + 1 <= Len(s) THEN Len(s) - (j + 1) + 1 ELSE 0)
          /\ \A k \in 1 .. Len(s) - (j + 1) + 1 : b[k] = s[(j + 1) + k - 1]
      BY <1>0, SubSeqProperties
    <2>2. Len(s) - (j + 1) + 1 = Len(s) - j /\ j \in Int /\ (~(j + 1 <= Len(s)) => Len(s) - j = 0)
      <3>1. j \in Int /\ j <= Len(s)
        BY <1>0
      <3>2. \A x \in Int, y \in Nat :
              x <= y => y - (x + 1) + 1 = y - x /\ (~(x + 1 <= y) => y - x = 0)
        OBVIOUS
      <3>. QED
        BY <1>0, <3>1, <3>2
    <2>3. \A k \in 1 .. Len(s) - j : (j + 1) + k - 1 = j + k
      BY <1>0
    <2> HIDE DEF b
    <2>. QED
      BY <1>0, <2>1, <2>2, <2>3
  <1> HIDE DEF a, b
  <1>3. /\ a \o b \in Seq(TokenTypes) /\ Len(a \o b) = Len(a) + Len(b)
        /\ \A k \in 1 .. Len(a) + Len(b) : (a \o b)[k] = IF k <= Len(a) THEN a[k] ELSE b[k - Len(a)]
    BY <1>1, <1>2, ConcatProperties
  <1>4. Cut(s, i, j) = a \o b
    BY DEF Cut, a, b
  <1> DEFINE c == a \o b
  <1> HIDE DEF c
  <1>5. ASSUME NEW k \in 1 .. Len(s) - (j - i + 1)
        PROVE  c[k] = IF k < i THEN s[k] ELSE s[k + (j - i + 1)]
    <2>1. k \in 1 .. Len(a) + Len(b)
      BY <1>0, <1>1, <1>2
    <2>2. c[k] = IF k <= Len(a) THEN a[k] ELSE b[k - Len(a)]
      BY <1>3, <2>1 DEF c
    <2>3. CASE k < i
      BY <1>1, <2>2, <2>3
    <2>4. CASE k >= i
      <3>1. k - (i - 1) \in 1 .. Len(s) - j /\ j + (k - (i - 1)) = k + (j - i + 1) /\ ~(k <= i - 1)
        BY <1>0, <2>4
      <3>2. b[k - (i - 1)] = s[j + (k - (i - 1))]
        BY <1>2, <3>1
      <3>. QED
        BY <1>1, <2>2, <2>4, <3>1, <3>2
    <2>. QED
      BY <2>3, <2>4
  <1>6. c \in TypeSeqs /\ Len(c) = Len(s) - (j - i + 1)
    BY <1>0, <1>1, <1>2, <1>3 DEF c
  <1>. QED
    BY <1>4, <1>5, <1>6 DEF c

(***************************************************************************)
(* Where the words of a statement with no statements in it end.            *)
(***************************************************************************)
SimpleAt(s, i, m, j) ==
  /\ \A x \in i .. m : s[x] = "NORMAL"
  /\ \/ j = m + 1 /\ s[j] = ";"
     \/ j = m + 2 /\ s[m + 1] = "{" /\ s[j] = "}"

LEMMA SimpleFacts ==
  ASSUME NEW s \in TypeSeqs, NEW i \in 1 .. Len(s), NEW j \in i .. Len(s)
  PROVE  Simple(SubSeq(s, i, j)) <=> \E m \in i .. j - 1 : SimpleAt(s, i, m, j)
  <1> USE DEF TypeSeqs
  <1> DEFINE u == SubSeq(s, i, j)
             n == j - i + 1
  <1>0. /\ Len(s) \in Nat /\ DOMAIN s = 1 .. Len(s) /\ \A k \in 1 .. Len(s) : s[k] \in TokenTypes
        /\ n \in Nat \ {0}
    BY LenProperties, ElementOfSeq
  <1>1. u \in Seq(TokenTypes) /\ Len(u) = n /\ \A k \in 1 .. n : u[k] = s[i + k - 1]
    <2>1. /\ u \in Seq(TokenTypes) /\ Len(u) = (IF i <= j THEN j - i + 1 ELSE 0)
          /\ \A k \in 1 .. j - i + 1 : u[k] = s[i + k - 1]
      BY <1>0, SubSeqProperties
    <2> HIDE DEF u
    <2>. QED
      BY <2>1
  <1> HIDE DEF u, n
  <1>2. ASSUME NEW k \in 1 .. n - 1
        PROVE  LET t == SubSeq(u, k + 1, n)
               IN  /\ t = <<";">> <=> n = k + 1 /\ u[k + 1] = ";"
                   /\ t = <<"{", "}">> <=> n = k + 2 /\ u[k + 1] = "{" /\ u[k + 2] = "}"
    <2> DEFINE t == SubSeq(u, k + 1, n)
    <2>1. /\ t \in Seq(TokenTypes) /\ Len(t) = n - k
          /\ \A x \in 1 .. n - k : t[x] = u[k + x]
      <3>1. /\ t \in Seq(TokenTypes) /\ Len(t) = (IF k + 1 <= n THEN n - (k + 1) + 1 ELSE 0)
            /\ \A x \in 1 .. n - (k + 1) + 1 : t[x] = u[(k + 1) + x - 1]
        <4>1. k + 1 \in Int /\ n \in Int /\ \A x \in k + 1 .. n : u[x] \in TokenTypes
          BY <1>0, <1>1, ElementOfSeq
        <4>. QED
          BY <4>1, SubSeqProperties
      <3> HIDE DEF t
      <3>. QED
        BY <1>0, <3>1
    <2> HIDE DEF t
    <2>2. t = <<";">> <=> Len(t) = 1 /\ t[1] = ";"
      <3>1. ";" \in TokenTypes
        BY DEF TokenTypes, Symbols
      <3>. QED
        BY <2>1, <3>1, OneElement
    <2>3. t = <<"{", "}">> <=> Len(t) = 2 /\ t[1] = "{" /\ t[2] = "}"
      <3>1. "{" \in TokenTypes /\ "}" \in TokenTypes
        BY DEF TokenTypes, Symbols
      <3>2. t \in Seq(TokenTypes)
        BY <2>1
      <3>3. \A a, b \in TokenTypes : t = <<a, b>> <=> Len(t) = 2 /\ t[1] = a /\ t[2] = b
        BY <3>2, TwoElements
      <3>. QED
        BY <3>1, <3>3
    <2>4. n - k = 1 <=> n = k + 1
      BY <1>0
    <2>5. n - k = 2 <=> n = k + 2
      BY <1>0
    <2>6. t = <<";">> <=> n = k + 1 /\ u[k + 1] = ";"
      <3>1. Len(t) = 1 => 1 \in 1 .. n - k
        BY <1>0, <2>1
      <3>2. Len(t) = 1 => t[1] = u[k + 1]
        BY <2>1, <3>1
      <3>. QED
        BY <2>1, <2>2, <2>4, <3>2
    <2>7. t = <<"{", "}">> <=> n = k + 2 /\ u[k + 1] = "{" /\ u[k + 2] = "}"
      <3>1. Len(t) = 2 => 1 \in 1 .. n - k /\ 2 \in 1 .. n - k
        <4>1. n - k = 2 => 1 \in 1 .. n - k /\ 2 \in 1 .. n - k
          OBVIOUS
        <4>. QED
          BY <2>1, <4>1
      <3>2. Len(t) = 2 => t[1] = u[k + 1] /\ t[2] = u[k + 2]
        BY <2>1, <3>1
      <3>. QED
        BY <2>1, <2>3, <2>5, <3>2
    <2>. QED
      BY <2>6, <2>7 DEF t
  <1>3. ASSUME NEW k \in 1 .. n - 1
        PROVE  (/\ \A x \in 1 .. k : u[x] = "NORMAL"
                /\ SubSeq(u, k + 1, n) \in {<<";">>, <<"{", "}">>})
               <=> SimpleAt(s, i, i + k - 1, j)
    <2>1. (\A x \in 1 .. k : u[x] = "NORMAL") <=> \A x \in i .. i + k - 1 : s[x] = "NORMAL"
      <3>1. ASSUME \A x \in 1 .. k : u[x] = "NORMAL", NEW x \in i .. i + k - 1
            PROVE  s[x] = "NORMAL"
        <4>1. x - i + 1 \in 1 .. k /\ x - i + 1 \in 1 .. n /\ i + (x - i + 1) - 1 = x
          BY <1>0
        <4>. QED
          BY <1>1, <3>1, <4>1
      <3>2. ASSUME \A x \in i .. i + k - 1 : s[x] = "NORMAL", NEW x \in 1 .. k
            PROVE  u[x] = "NORMAL"
        <4>1. x \in 1 .. n /\ i + x - 1 \in i .. i + k - 1
          BY <1>0
        <4>. QED
          BY <1>1, <3>2, <4>1
      <3>. QED
        BY <3>1, <3>2
    <2>2. n = k + 1 /\ u[k + 1] = ";" <=> j = (i + k - 1) + 1 /\ s[j] = ";"
      <3>1. n = k + 1 <=> j = (i + k - 1) + 1
        BY DEF n
      <3>2. n = k + 1 => u[k + 1] = s[j]
        <4> SUFFICES ASSUME n = k + 1 PROVE u[k + 1] = s[j]
          OBVIOUS
        <4>1. k + 1 \in 1 .. n
          BY <1>0
        <4>2. i + (k + 1) - 1 = j
          BY <3>1
        <4>. QED
          BY <1>1, <4>1, <4>2
      <3>. QED
        BY <3>1, <3>2
    <2>3. n = k + 2 /\ u[k + 1] = "{" /\ u[k + 2] = "}"
            <=> j = (i + k - 1) + 2 /\ s[(i + k - 1) + 1] = "{" /\ s[j] = "}"
      <3>1. n = k + 2 <=> j = (i + k - 1) + 2
        BY DEF n
      <3>2. n = k + 2 => u[k + 2] = s[j] /\ u[k + 1] = s[(i + k - 1) + 1]
        <4> SUFFICES ASSUME n = k + 2 PROVE u[k + 2] = s[j] /\ u[k + 1] = s[(i + k - 1) + 1]
          OBVIOUS
        <4>1. k + 1 \in 1 .. n /\ k + 2 \in 1 .. n
          BY <1>0
        <4>2. i + (k + 1) - 1 = (i + k - 1) + 1 /\ i + (k + 2) - 1 = j
          BY <3>1
        <4>. QED
          BY <1>1, <4>1, <4>2
      <3>. QED
        BY <3>1, <3>2
    <2>4. /\ SubSeq(u, k + 1, n) = <<";">> <=> n = k + 1 /\ u[k + 1] = ";"
          /\ SubSeq(u, k + 1, n) = <<"{", "}">> <=> n = k + 2 /\ u[k + 1] = "{" /\ u[k + 2] = "}"
      BY <1>2
    <2>. QED
      BY <2>1, <2>2, <2>3, <2>4 DEF SimpleAt
  <1>4. Simple(u) <=> \E k \in 1 .. n - 1 : SimpleAt(s, i, i + k - 1, j)
    BY <1>1, <1>3 DEF Simple
  <1>5. ASSUME NEW m \in i .. j - 1 PROVE m - i + 1 \in 1 .. n - 1 /\ i + (m - i + 1) - 1 = m
    BY DEF n
  <1>6. ASSUME NEW k \in 1 .. n - 1 PROVE i + k - 1 \in i .. j - 1
    BY DEF n
  <1>. QED
    BY <1>4, <1>5, <1>6 DEF u
-----------------------------------------------------------------------------
(***************************************************************************)
(* What the grammar asks of a file, as Parse sees it: which type may come  *)
(* after which, and how deep in blocks each token leaves it.               *)
(***************************************************************************)
Follows(before, type) ==
  \/ type = "NORMAL"
  \/ type \in {";", "{"} /\ before = "NORMAL"
  \/ type = "}" /\ before \in Symbols

Before(s, k) == IF k = 1 THEN "START" ELSE s[k - 1]
Rise(type) == IF type = "{" THEN 1 ELSE IF type = "}" THEN -1 ELSE 0
Ordered(s) == \A k \in 1 .. Len(s) : Follows(Before(s, k), s[k])
Closed(s) == s # <<>> => s[Len(s)] \in {";", "}"}
Heights(d, s) == d[0] = 0 /\ \A k \in 1 .. Len(s) : d[k] = d[k - 1] + Rise(s[k])
Balanced(s) == \E d \in [0 .. Len(s) -> Nat] : Heights(d, s) /\ d[Len(s)] = 0
Shaped(s) == Ordered(s) /\ Closed(s) /\ Balanced(s)

(* A statement ends at the height where it begins. *)
LEMMA SimpleIsFlat ==
  ASSUME NEW s \in TypeSeqs, NEW i \in 1 .. Len(s), NEW j \in i .. Len(s),
         NEW m \in i .. j - 1, SimpleAt(s, i, m, j),
         NEW d \in [0 .. Len(s) -> Int], Heights(d, s)
  PROVE  d[j] = d[i - 1]
  <1> DEFINE P == {n \in Nat : i - 1 + n <= m => d[i - 1 + n] = d[i - 1]}
  <1>0. Len(s) \in Nat /\ m \in Int /\ i \in Nat /\ j \in Nat /\ i >= 1 /\ m < j /\ j <= Len(s) /\ i <= m
    BY DEF TypeSeqs
  <1>1. \A k \in 1 .. Len(s) : d[k] = d[k - 1] + Rise(s[k])
    BY DEF Heights
  <1>2. 0 \in P
    BY <1>0
  <1>3. ASSUME NEW n \in Nat, n \in P PROVE n + 1 \in P
    <2> SUFFICES ASSUME i - 1 + (n + 1) <= m PROVE d[i - 1 + (n + 1)] = d[i - 1]
      OBVIOUS
    <2> DEFINE k == i - 1 + (n + 1)
    <2>1. k \in 1 .. Len(s) /\ k - 1 = i - 1 + n /\ k \in i .. m /\ i - 1 + n <= m /\ k - 1 \in 0 .. Len(s)
      BY <1>0
    <2>2. d[k] = d[k - 1] + Rise(s[k]) /\ s[k] = "NORMAL"
      BY <1>1, <2>1 DEF SimpleAt
    <2>3. d[k - 1] = d[i - 1]
      BY <1>3, <2>1
    <2>4. d[i - 1] \in Int
      BY <1>0
    <2>. QED
      BY <2>2, <2>3, <2>4 DEF Rise
  <1>4. m - (i - 1) \in P
    <2>1. m - (i - 1) \in Nat
      BY <1>0
    <2>2. Nat \subseteq P
      <3> HIDE DEF P
      <3>. QED
        BY <1>2, <1>3, NatInductive
    <2>. QED
      BY <2>1, <2>2
  <1>5. d[m] = d[i - 1]
    <2>1. i - 1 + (m - (i - 1)) = m
      BY <1>0
    <2>. QED
      BY <1>4, <2>1
  <1>6. d[i - 1] \in Int /\ m + 1 \in 1 .. Len(s) /\ (m + 1) - 1 = m
    BY <1>0
  <1>7. d[m + 1] = d[m] + Rise(s[m + 1])
    BY <1>1, <1>6
  <1>8. CASE j = m + 1 /\ s[j] = ";"
    <2>1. Rise(s[m + 1]) = 0
      BY <1>8 DEF Rise
    <2>2. d[m + 1] = d[i - 1]
      BY <1>5, <1>6, <1>7, <2>1
    <2>. QED
      BY <1>8, <2>2
  <1>9. CASE j = m + 2 /\ s[m + 1] = "{" /\ s[j] = "}"
    <2>0. j = m + 2
      BY <1>9
    <2>1. m + 2 \in 1 .. Len(s) /\ (m + 2) - 1 = m + 1
      BY <1>0, <2>0
    <2>2. d[m + 2] = d[m + 1] + Rise(s[m + 2])
      BY <1>1, <2>1
    <2>3. Rise(s[m + 1]) = 1 /\ Rise(s[m + 2]) = -1
      BY <1>9 DEF Rise
    <2>4. d[m + 2] = d[i - 1]
      BY <1>5, <1>6, <1>7, <2>2, <2>3
    <2>. QED
      BY <1>9, <2>4
  <1>. QED
    BY <1>8, <1>9 DEF SimpleAt

(***************************************************************************)
(* Taking such a statement away keeps the shape, and so does putting it    *)
(* back.                                                                   *)
(***************************************************************************)
LEMMA CutOrdered ==
  ASSUME NEW s \in TypeSeqs, NEW i \in 1 .. Len(s), NEW j \in i .. Len(s),
         NEW m \in i .. j - 1, SimpleAt(s, i, m, j), Before(s, i) # "NORMAL",
         Ordered(Cut(s, i, j))
  PROVE  Ordered(s)
  <1> DEFINE c == Cut(s, i, j)
             w == j - i + 1
  <1>0. Len(s) \in Nat /\ m \in Int /\ i \in Nat /\ j \in Nat /\ i >= 1 /\ m < j /\ j <= Len(s) /\ i <= m
    BY DEF TypeSeqs
  <1>1. /\ c \in TypeSeqs /\ Len(c) = Len(s) - w /\ w \in Nat
        /\ \A k \in 1 .. Len(s) - w : c[k] = IF k < i THEN s[k] ELSE s[k + w]
    BY <1>0, CutFacts
  <1>2. \A k \in 1 .. Len(s) - w : Follows(Before(c, k), c[k])
    BY <1>1 DEF Ordered
  <1>3. w = j - i + 1
    OBVIOUS
  <1> HIDE DEF c, w
  <1> SUFFICES ASSUME NEW k \in 1 .. Len(s) PROVE Follows(Before(s, k), s[k])
    BY DEF Ordered
  <1>4. CASE k < i
    <2>1. k \in 1 .. Len(s) - w /\ c[k] = s[k] /\ (k # 1 => k - 1 \in 1 .. Len(s) - w)
      BY <1>0, <1>1, <1>3, <1>4
    <2>2. k # 1 => c[k - 1] = s[k - 1]
      BY <1>1, <1>4, <2>1
    <2>. QED
      BY <1>2, <2>1, <2>2 DEF Before
  <1>5. CASE k \in i .. m
    BY <1>5 DEF SimpleAt, Follows
  <1>6. CASE k = m + 1
    <2>1. s[k] \in {";", "{"}
      BY <1>6 DEF SimpleAt
    <2>2. Before(s, k) = "NORMAL"
      <3>1. k # 1 /\ k - 1 = m /\ m \in i .. m
        BY <1>0, <1>6
      <3>. QED
        BY <3>1 DEF SimpleAt, Before
    <2>. QED
      BY <2>1, <2>2 DEF Follows
  <1>7. CASE k = m + 2 /\ k = j
    <2>1. s[k] = "}" /\ s[m + 1] = "{"
      <3>1. j # m + 1
        BY <1>0, <1>7
      <3>. QED
        BY <1>7, <3>1 DEF SimpleAt
    <2>2. Before(s, k) = "{"
      <3>1. k # 1 /\ k - 1 = m + 1
        BY <1>0, <1>7
      <3>. QED
        BY <2>1, <3>1 DEF Before
    <2>. QED
      BY <2>1, <2>2 DEF Follows, Symbols
  <1>8. CASE k = j + 1
    <2>1. i \in 1 .. Len(s) - w /\ i + w = k
      BY <1>0, <1>1, <1>3, <1>8
    <2>2. c[i] = s[k] /\ Follows(Before(c, i), c[i])
      <3>1. ~(i < i)
        BY <1>0
      <3>2. c[i] = s[i + w]
        BY <1>1, <2>1, <3>1
      <3>. QED
        BY <1>2, <2>1, <3>2
    <2>3. Before(c, i) # "NORMAL"
      <3>1. i # 1 => i - 1 \in 1 .. Len(s) - w /\ i - 1 < i
        BY <1>0, <1>1, <2>1
      <3>2. i # 1 => c[i - 1] = s[i - 1]
        BY <1>1, <3>1
      <3>. QED
        BY <3>2 DEF Before
    <2>4. s[k] \in {"NORMAL", "}"}
      BY <2>2, <2>3 DEF Follows
    <2>5. Before(s, k) \in {";", "}"}
      <3>1. k # 1 /\ k - 1 = j
        BY <1>0, <1>8
      <3>. QED
        BY <3>1 DEF SimpleAt, Before
    <2>. QED
      BY <2>4, <2>5 DEF Follows, Symbols
  <1>9. CASE k > j + 1
    <2> DEFINE x == k - w
    <2>1. /\ x \in 1 .. Len(s) - w /\ x - 1 \in 1 .. Len(s) - w /\ ~(x < i) /\ ~(x - 1 < i)
          /\ x + w = k /\ x - 1 + w = k - 1 /\ x # 1 /\ k # 1
      BY <1>0, <1>1, <1>3, <1>9
    <2> HIDE DEF x
    <2>2. c[x] = s[k] /\ c[x - 1] = s[k - 1] /\ Follows(Before(c, x), c[x])
      BY <1>1, <1>2, <2>1
    <2>. QED
      BY <2>1, <2>2 DEF Before
  <1>10. k < i \/ k \in i .. m \/ k = m + 1 \/ (k = m + 2 /\ k = j) \/ k = j + 1 \/ k > j + 1
    <2>1. j = m + 1 \/ j = m + 2
      BY DEF SimpleAt
    <2>. QED
      BY <1>0, <2>1
  <1>. QED
    BY <1>4, <1>5, <1>6, <1>7, <1>8, <1>9, <1>10

LEMMA CutBalanced ==
  ASSUME NEW s \in TypeSeqs, NEW i \in 1 .. Len(s), NEW j \in i .. Len(s),
         NEW m \in i .. j - 1, SimpleAt(s, i, m, j), Balanced(Cut(s, i, j))
  PROVE  Balanced(s)
  <1> DEFINE c == Cut(s, i, j)
             w == j - i + 1
  <1>0. Len(s) \in Nat /\ m \in Int /\ i \in Nat /\ j \in Nat /\ i >= 1 /\ m < j /\ j <= Len(s) /\ i <= m
    BY DEF TypeSeqs
  <1>1. /\ c \in TypeSeqs /\ Len(c) = Len(s) - w /\ w \in Nat
        /\ \A k \in 1 .. Len(s) - w : c[k] = IF k < i THEN s[k] ELSE s[k + w]
    BY <1>0, CutFacts
  <1>2. PICK e \in [0 .. Len(c) -> Nat] : Heights(e, c) /\ e[Len(c)] = 0
    BY DEF Balanced
  <1>3. w = j - i + 1
    OBVIOUS
  <1> HIDE DEF c, w
  <1>4. /\ e \in [0 .. Len(s) - w -> Nat] /\ e[0] = 0 /\ e[Len(s) - w] = 0
        /\ \A k \in 1 .. Len(s) - w : e[k] = e[k - 1] + Rise(c[k])
    BY <1>1, <1>2 DEF Heights
  <1> DEFINE Deep(k) == IF k = m + 1 /\ s[k] = "{" THEN 1 ELSE 0
             d == [k \in 0 .. Len(s) |-> IF k < i THEN e[k]
                                         ELSE IF k <= j THEN e[i - 1] + Deep(k) ELSE e[k - w]]
  <1>5. ASSUME NEW k \in 0 .. Len(s)
        PROVE  /\ k < i => d[k] = e[k] /\ k \in 0 .. Len(s) - w
               /\ k \in i .. j => d[k] = e[i - 1] + Deep(k)
               /\ k > j => d[k] = e[k - w] /\ k - w \in 0 .. Len(s) - w
    <2>1. k < i => k \in 0 .. Len(s) - w
      BY <1>0, <1>1, <1>3
    <2>2. k > j => k - w \in 0 .. Len(s) - w /\ ~(k < i) /\ ~(k <= j)
      BY <1>0, <1>1, <1>3
    <2>3. k \in i .. j => ~(k < i) /\ k <= j
      BY <1>0
    <2>4. d[k] = IF k < i THEN e[k] ELSE IF k <= j THEN e[i - 1] + Deep(k) ELSE e[k - w]
      OBVIOUS
    <2> HIDE DEF d, Deep
    <2>. QED
      BY <2>1, <2>2, <2>3, <2>4
  <1>6. i - 1 \in 0 .. Len(s) - w /\ e[i - 1] \in Nat /\ \A k \in 0 .. Len(s) : Deep(k) \in {0, 1}
    <2>1. i - 1 \in 0 .. Len(s) - w
      BY <1>0, <1>1, <1>3
    <2>2. e[i - 1] \in Nat
      BY <1>4, <2>1
    <2>. QED
      BY <2>1, <2>2
  <1>7. d \in [0 .. Len(s) -> Nat]
    <2>1. \A k \in 0 .. Len(s) : (IF k < i THEN e[k]
             ELSE IF k <= j THEN e[i - 1] + Deep(k) ELSE e[k - w]) \in Nat
      <3> SUFFICES ASSUME NEW k \in 0 .. Len(s)
                   PROVE  (IF k < i THEN e[k]
                           ELSE IF k <= j THEN e[i - 1] + Deep(k) ELSE e[k - w]) \in Nat
        OBVIOUS
      <3>1. k < i => k \in 0 .. Len(s) - w
        BY <1>5
      <3>2. k > j => k - w \in 0 .. Len(s) - w
        BY <1>5
      <3>3. Deep(k) \in {0, 1}
        BY <1>6
      <3>4. e[i - 1] + Deep(k) \in Nat
        <4> HIDE DEF Deep
        <4>. QED
          BY <1>6, <3>3
      <3>5. (k < i => e[k] \in Nat) /\ (k > j => e[k - w] \in Nat)
        BY <1>4, <3>1, <3>2
      <3>6. k < i \/ k <= j \/ k > j
        BY <1>0
      <3> HIDE DEF Deep
      <3>. QED
        BY <3>4, <3>5, <3>6
    <2> HIDE DEF Deep
    <2>. QED
      BY <2>1
  <1>8. d[0] = 0
    <2>1. 0 \in 0 .. Len(s) /\ 0 < i
      BY <1>0
    <2> HIDE DEF d
    <2>. QED
      BY <1>4, <1>5, <2>1
  <1>9. d[Len(s)] = 0
    <2>1. Len(s) \in 0 .. Len(s)
      BY <1>0
    <2>2. CASE Len(s) > j
      <3> HIDE DEF d
      <3>. QED
        BY <1>4, <1>5, <2>1, <2>2
    <2>3. CASE Len(s) = j
      <3>1. Len(s) - w = i - 1 /\ Len(s) \in i .. j
        BY <1>0, <1>3, <2>3
      <3>2. Deep(j) = 0
        BY <1>0 DEF SimpleAt
      <3> HIDE DEF d, Deep
      <3>. QED
        BY <1>4, <1>5, <1>6, <2>1, <2>3, <3>1, <3>2
    <2>4. Len(s) > j \/ Len(s) = j
      BY <1>0, Compared DEF TypeSeqs
    <2> HIDE DEF d, Deep
    <2>. QED
      BY <2>2, <2>3, <2>4
  <1>10. ASSUME NEW k \in 1 .. Len(s) PROVE d[k] = d[k - 1] + Rise(s[k])
    <2>0. k \in 0 .. Len(s) /\ k - 1 \in 0 .. Len(s) /\ k \in Int
      BY <1>0
    <2>1. CASE k < i
      <3>1. k \in 1 .. Len(s) - w /\ k - 1 < i
        BY <1>0, <1>1, <1>3, <2>1
      <3>2. d[k] = e[k] /\ d[k - 1] = e[k - 1] /\ e[k] = e[k - 1] + Rise(c[k]) /\ c[k] = s[k]
        <4> HIDE DEF d
        <4>. QED
          BY <1>1, <1>4, <1>5, <2>0, <2>1, <3>1
      <3>. QED
        BY <3>2
    <2>2. CASE k \in i .. m
      <3>1. k \in i .. j /\ k # m + 1 /\ k - 1 # m + 1 /\ (k - 1 \in i .. j \/ k - 1 = i - 1)
        BY <1>0, <2>2
      <3>2. s[k] = "NORMAL" /\ Deep(k) = 0 /\ Deep(k - 1) = 0
        BY <2>2, <3>1 DEF SimpleAt
      <3>3. d[k] = e[i - 1] + 0 /\ d[k - 1] \in {e[i - 1], e[i - 1] + 0}
        <4>1. k - 1 = i - 1 => k - 1 < i
          BY <1>0
        <4> HIDE DEF d, Deep
        <4>. QED
          BY <1>5, <2>0, <3>1, <3>2, <4>1
      <3> HIDE DEF d, Deep
      <3>. QED
        BY <1>6, <3>2, <3>3 DEF Rise
    <2>3. CASE k = m + 1
      <3>1. k \in i .. j /\ k - 1 \in i .. j /\ k - 1 # m + 1
        BY <1>0, <2>3
      <3>2. s[k] \in {";", "{"} /\ Deep(k) = Rise(s[k]) /\ Deep(k - 1) = 0
        BY <2>3, <3>1 DEF SimpleAt, Rise
      <3>3. d[k] = e[i - 1] + Deep(k) /\ d[k - 1] = e[i - 1] + Deep(k - 1)
        <4> HIDE DEF d, Deep
        <4>. QED
          BY <1>5, <2>0, <3>1
      <3>4. Rise(s[k]) \in {0, 1}
        BY <3>2 DEF Rise
      <3> HIDE DEF d, Deep
      <3>5. d[k] = e[i - 1] + Rise(s[k]) /\ d[k - 1] = e[i - 1] + 0
        BY <3>2, <3>3
      <3>. QED
        BY <1>6, <3>4, <3>5
    <2>4. CASE k = m + 2 /\ k = j
      <3>0. k = m + 2 /\ k = j
        BY <2>4
      <3>1. k \in i .. j /\ k - 1 \in i .. j /\ k - 1 = m + 1 /\ k # m + 1 /\ j # m + 1
        BY <1>0, <3>0
      <3>2. s[k] = "}" /\ s[k - 1] = "{"
        BY <3>0, <3>1 DEF SimpleAt
      <3>3. Rise(s[k]) = -1 /\ Deep(k) = 0 /\ Deep(k - 1) = 1
        BY <3>1, <3>2 DEF Rise
      <3>4. d[k] = e[i - 1] + Deep(k) /\ d[k - 1] = e[i - 1] + Deep(k - 1)
        <4> HIDE DEF d, Deep
        <4>. QED
          BY <1>5, <2>0, <3>1
      <3> HIDE DEF d, Deep
      <3>. QED
        BY <1>6, <3>3, <3>4
    <2>5. CASE k = j + 1
      <3>1. k > j /\ k - w = i /\ i \in 1 .. Len(s) - w /\ k - 1 = j /\ k - 1 \in i .. j /\ ~(i < i)
        BY <1>0, <1>1, <1>3, <2>5
      <3>2. c[i] = s[i + w] /\ i + w = k
        BY <1>0, <1>1, <3>1
      <3>3. e[i] = e[i - 1] + Rise(c[i])
        BY <1>4, <3>1
      <3>4. Deep(k - 1) = 0
        BY <1>0, <3>1 DEF SimpleAt
      <3>5. d[k] = e[i] /\ d[k - 1] = e[i - 1] + Deep(k - 1)
        <4> HIDE DEF d, Deep
        <4>. QED
          BY <1>5, <2>0, <3>1
      <3> HIDE DEF d, Deep
      <3>. QED
        BY <1>6, <3>2, <3>3, <3>4, <3>5
    <2>6. CASE k > j + 1
      <3> DEFINE x == k - w
      <3>1. /\ k > j /\ k - 1 > j /\ x \in 1 .. Len(s) - w /\ x - 1 = k - 1 - w
            /\ ~(x < i) /\ x + w = k
        BY <1>0, <1>1, <1>3, <2>6
      <3>2. d[k] = e[x] /\ d[k - 1] = e[k - 1 - w]
        <4> HIDE DEF d
        <4>. QED
          BY <1>5, <2>0, <3>1
      <3> HIDE DEF x, d
      <3>3. c[x] = s[k] /\ e[x] = e[x - 1] + Rise(c[x])
        BY <1>1, <1>4, <3>1
      <3>. QED
        BY <3>1, <3>2, <3>3
    <2>7. k < i \/ k \in i .. m \/ k = m + 1 \/ (k = m + 2 /\ k = j) \/ k = j + 1 \/ k > j + 1
      <3>1. j = m + 1 \/ j = m + 2
        BY DEF SimpleAt
      <3>. QED
        BY <1>0, <3>1
    <2> HIDE DEF d
    <2>. QED
      BY <2>1, <2>2, <2>3, <2>4, <2>5, <2>6, <2>7
  <1> HIDE DEF d
  <1>. QED
    BY <1>7, <1>8, <1>9, <1>10 DEF Balanced, Heights
-----------------------------------------------------------------------------
LEMMA CutClosed ==
  ASSUME NEW s \in TypeSeqs, NEW i \in 1 .. Len(s), NEW j \in i .. Len(s),
         NEW m \in i .. j - 1, SimpleAt(s, i, m, j), Closed(Cut(s, i, j))
  PROVE  Closed(s)
  <1> DEFINE c == Cut(s, i, j)
             w == j - i + 1
  <1>0. Len(s) \in Nat /\ i \in Nat /\ j \in Nat /\ i >= 1 /\ i <= j /\ j <= Len(s)
    BY DEF TypeSeqs
  <1>1. /\ c \in TypeSeqs /\ Len(c) = Len(s) - w /\ w \in Nat
        /\ \A k \in 1 .. Len(s) - w : c[k] = IF k < i THEN s[k] ELSE s[k + w]
    BY <1>0, CutFacts
  <1>2. w = j - i + 1
    OBVIOUS
  <1>3. Closed(c)
    OBVIOUS
  <1> HIDE DEF c, w
  <1>4. CASE j = Len(s)
    BY <1>4 DEF SimpleAt, Closed
  <1>5. CASE j < Len(s)
    <2>1. Len(s) - w \in 1 .. Len(s) - w /\ ~(Len(s) - w < i) /\ (Len(s) - w) + w = Len(s)
      BY <1>0, <1>1, <1>2, <1>5
    <2>2. c # <<>> /\ c[Len(c)] = s[Len(s)]
      BY <1>1, <2>1, EmptySeq
    <2>. QED
      BY <1>3, <2>2 DEF Closed
  <1>6. j < Len(s) \/ j = Len(s)
    BY <1>0, Compared DEF TypeSeqs
  <1>. QED
    BY <1>4, <1>5, <1>6

(* The heights without the statement are the heights around it. *)
CutHeights(d, s, i, j) ==
  [k \in 0 .. Len(s) - (j - i + 1) |-> IF k < i THEN d[k] ELSE d[k + (j - i + 1)]]

LEMMA CutHasHeights ==
  ASSUME NEW s \in TypeSeqs, NEW i \in 1 .. Len(s), NEW j \in i .. Len(s),
         NEW m \in i .. j - 1, SimpleAt(s, i, m, j),
         NEW d \in [0 .. Len(s) -> Nat], Heights(d, s)
  PROVE  /\ CutHeights(d, s, i, j) \in [0 .. Len(Cut(s, i, j)) -> Nat]
         /\ Heights(CutHeights(d, s, i, j), Cut(s, i, j))
         /\ CutHeights(d, s, i, j)[Len(Cut(s, i, j))] = d[Len(s)]
  <1> DEFINE c == Cut(s, i, j)
             w == j - i + 1
             e == CutHeights(d, s, i, j)
  <1>0. Len(s) \in Nat /\ i \in Nat /\ j \in Nat /\ i >= 1 /\ i <= j /\ j <= Len(s)
    BY DEF TypeSeqs
  <1>1. /\ c \in TypeSeqs /\ Len(c) = Len(s) - w /\ w \in Nat
        /\ \A k \in 1 .. Len(s) - w : c[k] = IF k < i THEN s[k] ELSE s[k + w]
    BY <1>0, CutFacts
  <1>2. w = j - i + 1
    OBVIOUS
  <1>3. d[j] = d[i - 1]
    <2>1. d \in [0 .. Len(s) -> Int]
      OBVIOUS
    <2>. QED
      BY <2>1, SimpleIsFlat
  <1>4. e = [k \in 0 .. Len(s) - w |-> IF k < i THEN d[k] ELSE d[k + w]]
    BY DEF CutHeights
  <1>5. d[0] = 0 /\ \A k \in 1 .. Len(s) : d[k] = d[k - 1] + Rise(s[k])
    BY DEF Heights
  <1> HIDE DEF c, w, e
  <1>6. ASSUME NEW k \in 0 .. Len(s) - w
        PROVE  e[k] \in Nat /\ e[k] = IF k < i THEN d[k] ELSE d[k + w]
    <2>1. k \in 0 .. Len(s) /\ k + w \in 0 .. Len(s)
      BY <1>0, <1>1
    <2>2. d[k] \in Nat /\ d[k + w] \in Nat
      BY <2>1
    <2>. QED
      BY <1>4, <2>2
  <1>7. e \in [0 .. Len(s) - w -> Nat]
    BY <1>4, <1>6
  <1>8. e[0] = 0
    <2>1. 0 \in 0 .. Len(s) - w /\ 0 < i
      BY <1>0, <1>1, <1>2
    <2>. QED
      BY <1>5, <1>6, <2>1
  <1>9. ASSUME NEW k \in 1 .. Len(s) - w
        PROVE  e[k] = e[k - 1] + Rise(c[k])
    <2>0. k \in 0 .. Len(s) - w /\ k - 1 \in 0 .. Len(s) - w /\ k \in 1 .. Len(s) /\ k + w \in 1 .. Len(s)
      BY <1>0, <1>1
    <2>1. CASE k < i
      <3>1. k - 1 < i
        BY <2>0, <2>1
      <3>2. e[k] = d[k] /\ e[k - 1] = d[k - 1] /\ c[k] = s[k]
        BY <1>1, <1>6, <2>0, <2>1, <3>1
      <3>. QED
        BY <1>5, <2>0, <3>2
    <2>2. CASE k = i
      <3>1. ~(k < i) /\ k - 1 = i - 1 /\ k - 1 < i /\ k + w - 1 = j
        BY <1>0, <1>2, <2>0, <2>2
      <3>2. e[k] = d[k + w] /\ e[k - 1] = d[i - 1] /\ c[k] = s[k + w]
        BY <1>1, <1>6, <2>0, <3>1
      <3>3. d[k + w] = d[j] + Rise(s[k + w])
        <4> DEFINE x == k + w
        <4>1. x \in 1 .. Len(s) /\ x - 1 = j
          <5>1. x = j + 1 /\ j \in Int
            BY <1>0, <1>2, <2>2
          <5> HIDE DEF x
          <5>2. x - 1 = j
            BY <5>1
          <5>. QED
            BY <2>0, <5>2 DEF x
        <4> HIDE DEF x
        <4>2. d[x] = d[x - 1] + Rise(s[x])
          BY <1>5, <4>1
        <4>. QED
          BY <4>1, <4>2 DEF x
      <3>. QED
        BY <1>3, <3>2, <3>3
    <2>3. CASE k > i
      <3>1. ~(k < i) /\ ~(k - 1 < i) /\ (k - 1) + w = k + w - 1
        BY <1>0, <1>1, <2>0, <2>3
      <3>2. e[k] = d[k + w] /\ e[k - 1] = d[k + w - 1] /\ c[k] = s[k + w]
        BY <1>1, <1>6, <2>0, <3>1
      <3>3. d[k + w] = d[k + w - 1] + Rise(s[k + w])
        <4> DEFINE x == k + w
        <4>1. x \in 1 .. Len(s)
          BY <2>0
        <4>2. x - 1 = k + w - 1
          BY <1>1, <2>0
        <4> HIDE DEF x
        <4>3. d[x] = d[x - 1] + Rise(s[x])
          BY <1>5, <4>1
        <4>. QED
          BY <4>2, <4>3 DEF x
      <3>. QED
        BY <3>2, <3>3
    <2>4. k < i \/ k = i \/ k > i
      BY <1>0, <2>0
    <2>. QED
      BY <2>1, <2>2, <2>3, <2>4
  <1>10. e[Len(s) - w] = d[Len(s)]
    <2> DEFINE x == Len(s) - w
    <2>1. x \in 0 .. Len(s) - w /\ x + w = Len(s)
      BY <1>0, <1>1, <1>2
    <2>2. x < i => Len(s) = j /\ x = i - 1
      <3> DEFINE n == Len(s)
      <3>1. x = n - j + i - 1 /\ n \in Nat /\ j <= n
        BY <1>0, <1>2
      <3> HIDE DEF x, n
      <3>2. ASSUME x < i PROVE n = j /\ x = i - 1
        BY <1>0, <3>1, <3>2
      <3>. QED
        BY <3>2 DEF n
    <2> HIDE DEF x
    <2>3. e[x] = IF x < i THEN d[x] ELSE d[x + w]
      BY <1>6, <2>1
    <2>4. e[x] = d[Len(s)]
      BY <1>3, <2>1, <2>2, <2>3
    <2>. QED
      BY <2>4 DEF x
  <1>. QED
    BY <1>1, <1>7, <1>8, <1>9, <1>10 DEF c, e, Heights

LEMMA CutShaped ==
  ASSUME NEW s \in TypeSeqs, NEW i \in 1 .. Len(s), NEW j \in i .. Len(s),
         NEW m \in i .. j - 1, SimpleAt(s, i, m, j), Before(s, i) # "NORMAL",
         Shaped(s)
  PROVE  Shaped(Cut(s, i, j))
  <1> DEFINE c == Cut(s, i, j)
             w == j - i + 1
  <1>0. Len(s) \in Nat /\ i \in Nat /\ j \in Nat /\ i >= 1 /\ i <= j /\ j <= Len(s)
    BY DEF TypeSeqs
  <1>1. /\ c \in TypeSeqs /\ Len(c) = Len(s) - w /\ w \in Nat
        /\ \A k \in 1 .. Len(s) - w : c[k] = IF k < i THEN s[k] ELSE s[k + w]
    BY <1>0, CutFacts
  <1>2. w = j - i + 1
    OBVIOUS
  <1>3. PICK d \in [0 .. Len(s) -> Nat] : Heights(d, s) /\ d[Len(s)] = 0
    BY DEF Shaped, Balanced
  <1>4. Balanced(c)
    BY <1>3, CutHasHeights DEF Balanced
  <1>5. d[j] = d[i - 1]
    <2>1. d \in [0 .. Len(s) -> Int]
      OBVIOUS
    <2>. QED
      BY <1>3, <2>1, SimpleIsFlat
  <1>6. \A k \in 1 .. Len(s) : Follows(Before(s, k), s[k])
    BY DEF Shaped, Ordered
  <1> HIDE DEF c, w
  <1>7. s[j] \in {";", "}"}
    BY DEF SimpleAt
  <1>8. i # 1 => i - 1 \in 1 .. Len(s) /\ s[i - 1] \in Symbols
    <2> SUFFICES ASSUME i # 1 PROVE i - 1 \in 1 .. Len(s) /\ s[i - 1] \in Symbols
      OBVIOUS
    <2>1. i - 1 \in 1 .. Len(s)
      BY <1>0
    <2>2. s[i - 1] # "NORMAL"
      BY DEF Before
    <2>. QED
      BY <1>6, <2>1, <2>2 DEF Follows, Symbols
  <1>11. \A x \in Nat : x + 1 # 0
    OBVIOUS
  <1>12. i # 1 => (i - 1) - 1 \in 0 .. Len(s)
    <2>1. i \in Int /\ i >= 1 /\ i <= Len(s) /\ Len(s) \in Nat
      BY <1>0
    <2>. QED
      BY <2>1
  <1>9. Ordered(c)
    <2> SUFFICES ASSUME NEW k \in 1 .. Len(s) - w PROVE Follows(Before(c, k), c[k])
      BY <1>1 DEF Ordered
    <2>0. k \in 1 .. Len(s) /\ k + w \in 1 .. Len(s)
      BY <1>0, <1>1
    <2>1. CASE k < i
      <3>1. k # 1 => k - 1 \in 1 .. Len(s) - w /\ k - 1 < i
        BY <1>0, <1>1, <2>0, <2>1
      <3>2. c[k] = s[k] /\ Before(c, k) = Before(s, k)
        BY <1>1, <2>1, <3>1 DEF Before
      <3>. QED
        BY <1>6, <2>0, <3>2
    <2>2. CASE k = i
      <3>1. ~(k < i) /\ k + w = j + 1 /\ j + 1 # 1 /\ (j + 1) - 1 = j
        BY <1>0, <1>2, <2>2
      <3>2. c[k] = s[j + 1]
        BY <1>1, <3>1
      <3>3. Follows(s[j], s[j + 1])
        <4>1. Before(s, j + 1) = s[j]
          BY <3>1 DEF Before
        <4>. QED
          BY <1>6, <2>0, <3>1, <4>1
      <3>4. s[j + 1] \in {"NORMAL", "}"}
        BY <1>7, <3>3 DEF Follows
      <3>5. CASE s[j + 1] = "NORMAL"
        BY <3>2, <3>5 DEF Follows
      <3>6. CASE s[j + 1] = "}"
        <4>1. i # 1
          <5> SUFFICES ASSUME i = 1 PROVE FALSE
            OBVIOUS
          <5>1. d[j + 1] = d[j] + Rise(s[j + 1]) /\ d[0] = 0
            BY <1>3, <2>0, <3>1 DEF Heights
          <5>2. Rise(s[j + 1]) = -1 /\ d[j] = 0
            <6>1. i - 1 = 0
              OBVIOUS
            <6>. QED
              BY <1>5, <3>6, <5>1, <6>1 DEF Rise
          <5>3. d[j + 1] \in Nat
            <6>1. j + 1 \in 0 .. Len(s)
              BY <1>0, <2>0, <3>1
            <6>. QED
              BY <6>1
          <5>. QED
            BY <5>1, <5>2, <5>3
        <4>2. i - 1 \in 1 .. Len(s) - w /\ i - 1 < i /\ k - 1 = i - 1 /\ k # 1
          BY <1>0, <1>1, <2>2, <4>1
        <4>3. Before(c, k) = s[i - 1]
          BY <1>1, <4>2 DEF Before
        <4>. QED
          BY <1>8, <3>2, <3>6, <4>1, <4>3 DEF Follows
      <3>. QED
        BY <3>4, <3>5, <3>6
    <2>3. CASE k > i
      <3>1. /\ ~(k < i) /\ ~(k - 1 < i) /\ (k - 1) + w = (k + w) - 1 /\ k - 1 \in 1 .. Len(s) - w
            /\ k # 1 /\ k + w # 1
        BY <1>0, <1>1, <2>0, <2>3
      <3>2. c[k] = s[k + w]
        BY <1>1, <3>1
      <3>3. c[k - 1] = s[(k + w) - 1]
        <4>1. c[k - 1] = s[(k - 1) + w]
          BY <1>1, <3>1
        <4>. QED
          BY <3>1, <4>1
      <3>4. Before(c, k) = Before(s, k + w)
        <4>1. k # 1 /\ k + w # 1
          BY <3>1
        <4>2. Before(c, k) = c[k - 1]
          BY <4>1, Zenon DEF Before
        <4>3. Before(s, k + w) = s[(k + w) - 1]
          BY <4>1, Zenon DEF Before
        <4>. QED
          BY <3>3, <4>2, <4>3, Zenon
      <3>5. Follows(Before(s, k + w), s[k + w])
        BY <1>6, <2>0
      <3>. QED
        BY <3>2, <3>4, <3>5
    <2>4. k < i \/ k = i \/ k > i
      BY <1>0, <2>0
    <2>. QED
      BY <2>1, <2>2, <2>3, <2>4
  <1>10. Closed(c)
    <2> SUFFICES ASSUME c # <<>> PROVE c[Len(c)] \in {";", "}"}
      BY DEF Closed
    <2>1. Len(s) - w \in 1 .. Len(s) - w /\ s # <<>>
      <3>1. Len(s) - w # 0 /\ Len(s) - w \in Nat
        BY <1>1, EmptySeq, LenProperties DEF TypeSeqs
      <3>2. s # <<>>
        BY <1>0, EmptySeq
      <3> DEFINE n == Len(s) - w
      <3> HIDE DEF n
      <3>3. n \in 1 .. n
        BY <3>1 DEF n
      <3>. QED
        BY <3>2, <3>3 DEF n
    <2>2. CASE j < Len(s)
      <3>1. ~(Len(s) - w < i) /\ (Len(s) - w) + w = Len(s)
        BY <1>0, <1>1, <1>2, <2>2
      <3>2. c[Len(c)] = s[Len(s)]
        BY <1>1, <2>1, <3>1
      <3>. QED
        BY <2>1, <3>2 DEF Shaped, Closed
    <2>3. CASE j = Len(s)
      <3>1. Len(s) - w = i - 1 /\ i - 1 < i /\ i # 1
        BY <1>0, <1>2, <2>1, <2>3
      <3>2. c[Len(c)] = s[i - 1] /\ s[i - 1] \in Symbols
        BY <1>1, <1>8, <2>1, <3>1
      <3>3. s[i - 1] # "{"
        <4> SUFFICES ASSUME s[i - 1] = "{" PROVE FALSE
          OBVIOUS
        <4>1. d[i - 1] = d[(i - 1) - 1] + Rise(s[i - 1])
          BY <1>3, <1>8, <3>1 DEF Heights
        <4>2. d[(i - 1) - 1] \in Nat
          <5>0. i # 1
            BY <3>1
          <5>1. (i - 1) - 1 \in 0 .. Len(s)
            BY <1>12, <5>0
          <5>. QED
            BY <5>1
        <4>3. d[i - 1] = 0 /\ Rise(s[i - 1]) = 1
          BY <1>3, <1>5, <2>3 DEF Rise
        <4>4. d[(i - 1) - 1] + 1 = 0
          BY <4>1, <4>3
        <4>. QED
          BY <1>11, <4>2, <4>4
      <3>. QED
        BY <3>2, <3>3 DEF Symbols
    <2>4. j < Len(s) \/ j = Len(s)
      BY <1>0, Compared DEF TypeSeqs
    <2>. QED
      BY <2>2, <2>3, <2>4
  <1>. QED
    BY <1>4, <1>9, <1>10 DEF c, Shaped

LEMMA SameShape ==
  ASSUME NEW s \in TypeSeqs, NEW i \in 1 .. Len(s), NEW j \in i .. Len(s),
         NEW m \in i .. j - 1, SimpleAt(s, i, m, j), Before(s, i) # "NORMAL"
  PROVE  Shaped(s) <=> Shaped(Cut(s, i, j))
  BY CutShaped, CutOrdered, CutBalanced, CutClosed DEF Shaped
-----------------------------------------------------------------------------
(***************************************************************************)
(* A sequence of this shape, if it is not empty, has a statement with no   *)
(* statements in it: the one that ends at the first ";" or "}".            *)
(***************************************************************************)
LEMMA HasStatement ==
  ASSUME NEW s \in TypeSeqs, Ordered(s), Closed(s), s # <<>>
  PROVE  \E i \in 1 .. Len(s) : \E j \in i .. Len(s) : \E m \in i .. j - 1 :
           SimpleAt(s, i, m, j) /\ Before(s, i) # "NORMAL"
  <1>0. Len(s) \in Nat \ {0} /\ \A k \in 1 .. Len(s) : s[k] \in TokenTypes
    <2>1. Len(s) \in Nat /\ s \in Seq(TokenTypes)
      BY DEF TypeSeqs
    <2>. QED
      BY <2>1, ElementOfSeq, EmptySeq
  <1>13. Len(s) \in Nat
    BY <1>0
  <1>1. \A k \in 1 .. Len(s) : Follows(Before(s, k), s[k])
    BY DEF Ordered
  <1> DEFINE E == {k \in 1 .. Len(s) : s[k] \in {";", "}"}}
  <1>15. \A k \in 1 .. Len(s) : k \in Nat /\ k >= 1 /\ k <= Len(s) /\ \A n \in Nat : n <= k <=> ~(k < n)
    BY <1>13
  <1>2. \E j \in E : \A n \in E : j <= n
    <2>1. E \in SUBSET Nat
      BY <1>15
    <2>2. Len(s) \in E
      <3>1. Len(s) \in 1 .. Len(s)
        BY <1>0
      <3>. QED
        BY <3>1 DEF Closed
    <2> HIDE DEF E
    <2>. QED
      BY <2>1, <2>2, LeastNumber
  <1>3. PICK j \in 1 .. Len(s) :
          /\ s[j] \in {";", "}"}
          /\ \A n \in 1 .. Len(s) : n < j => s[n] \notin {";", "}"}
    BY <1>2, <1>15
  <1>14. j \in 1 .. Len(s) /\ j \in Nat /\ j >= 1 /\ j <= Len(s)
    BY <1>15
  <1> HIDE DEF E
  <1>4. ASSUME NEW k \in 1 .. Len(s), k < j PROVE s[k] \notin {";", "}"}
    BY <1>3, <1>4
  <1>5. \E m \in 1 .. j - 1 : /\ s[m] = "NORMAL"
                              /\ \/ j = m + 1 /\ s[j] = ";"
                                 \/ j = m + 2 /\ s[m + 1] = "{" /\ s[j] = "}"
    <2>1. CASE s[j] = ";"
      <3>1. Before(s, j) = "NORMAL"
        BY <1>1, <1>3, <2>1 DEF Follows
      <3>2. j # 1 /\ s[j - 1] = "NORMAL"
        BY <3>1 DEF Before
      <3>3. j - 1 \in 1 .. j - 1 /\ j = (j - 1) + 1
        <4>1. j # 1
          BY <3>2
        <4>. QED
          BY <1>14, <4>1
      <3>. QED
        BY <2>1, <3>2, <3>3
    <2>2. CASE s[j] = "}"
      <3>1. Before(s, j) \in Symbols
        BY <1>1, <1>3, <2>2 DEF Follows
      <3>2. j # 1 /\ s[j - 1] \in Symbols
        BY <3>1 DEF Before, Symbols
      <3>3. j - 1 \in 1 .. Len(s) /\ j - 1 < j
        <4>1. j # 1
          BY <3>2
        <4>. QED
          BY <1>14, <4>1
      <3>4. s[j - 1] = "{"
        BY <1>4, <3>2, <3>3 DEF Symbols
      <3>5. Before(s, j - 1) = "NORMAL"
        BY <1>1, <3>3, <3>4 DEF Follows
      <3>6. j - 1 # 1 /\ s[(j - 1) - 1] = "NORMAL"
        BY <3>5 DEF Before
      <3> DEFINE m == (j - 1) - 1
      <3>7. m \in 1 .. j - 1 /\ j = m + 2 /\ m + 1 = j - 1
        <4>1. j # 1 /\ j - 1 # 1
          BY <3>2, <3>6
        <4>. QED
          BY <1>14, <4>1
      <3>8. s[m] = "NORMAL" /\ s[m + 1] = "{"
        BY <3>4, <3>6, <3>7
      <3> HIDE DEF m
      <3>. QED
        BY <2>2, <3>7, <3>8
    <2>. QED
      BY <1>3, <2>1, <2>2
  <1>6. PICK m \in 1 .. j - 1 : /\ s[m] = "NORMAL"
                                /\ \/ j = m + 1 /\ s[j] = ";"
                                   \/ j = m + 2 /\ s[m + 1] = "{" /\ s[j] = "}"
    BY <1>5
  <1>7. m \in Nat /\ m >= 1 /\ m < j
    BY <1>14
  <1> DEFINE T == {k \in 1 .. m : \A x \in k .. m : s[x] = "NORMAL"}
  <1>8. PICK i \in T : \A n \in T : i <= n
    <2>1. T \in SUBSET Nat
      BY <1>7
    <2>2. m \in T
      <3>1. m \in 1 .. m /\ \A x \in m .. m : x = m
        BY <1>7
      <3>. QED
        BY <1>6, <3>1
    <2> HIDE DEF T
    <2>. QED
      BY <2>1, <2>2, LeastNumber
  <1>9. i \in 1 .. m /\ i \in Nat /\ \A x \in i .. m : s[x] = "NORMAL"
    BY <1>7, <1>8
  <1>10. Before(s, i) # "NORMAL"
    <2> SUFFICES ASSUME Before(s, i) = "NORMAL" PROVE FALSE
      OBVIOUS
    <2>1. i # 1 /\ s[i - 1] = "NORMAL"
      BY DEF Before
    <2>2. i - 1 \in 1 .. m /\ ~(i <= i - 1)
      BY <1>7, <1>9, <2>1
    <2>3. \A x \in i - 1 .. m : x = i - 1 \/ x \in i .. m
      BY <1>7, <1>9
    <2>4. i - 1 \in T
      BY <1>9, <2>1, <2>2, <2>3
    <2>. QED
      BY <1>8, <2>2, <2>4
  <1> HIDE DEF T
  <1>11. SimpleAt(s, i, m, j)
    BY <1>6, <1>9 DEF SimpleAt
  <1>12. i \in 1 .. Len(s) /\ j \in i .. Len(s) /\ m \in i .. j - 1
    <2>1. i \in 1 .. m
      BY <1>9
    <2>. QED
      BY <1>14, <1>7, <2>1
  <1>. QED
    BY <1>10, <1>11, <1>12

(***************************************************************************)
(* Statements is defined by recursion on the length of the sequence.       *)
(***************************************************************************)
Reduces(f, s) ==
  \/ s = <<>>
  \/ \E i \in DOMAIN s, j \in DOMAIN s :
       /\ i < j /\ Simple(SubSeq(s, i, j))
       /\ i > 1 => s[i - 1] # "NORMAL"
       /\ f[SubSeq(s, 1, i - 1) \o SubSeq(s, j + 1, Len(s))]

LEMMA StatementsIs ==
  \A s \in TypeSeqs : Statements[s] <=> Reduces(Statements, s)
  <1> DEFINE rank == [s \in TypeSeqs |-> Len(s)]
             F == [s \in TypeSeqs |-> [f \in [TypeSeqs -> BOOLEAN] |-> Reduces(f, s)]]
  <1>1. rank \in [TypeSeqs -> Nat]
    BY DEF TypeSeqs
  <1>2. F \in [TypeSeqs -> [[TypeSeqs -> BOOLEAN] -> BOOLEAN]]
    <2>1. ASSUME NEW s \in TypeSeqs, NEW f \in [TypeSeqs -> BOOLEAN]
          PROVE  Reduces(f, s) \in BOOLEAN
      BY Zenon DEF Reduces
    <2>. QED
      BY <2>1
  <1>3. ASSUME NEW s \in TypeSeqs, NEW f \in [TypeSeqs -> BOOLEAN], NEW g \in [TypeSeqs -> BOOLEAN],
               \A t \in TypeSeqs : rank[t] < rank[s] => f[t] = g[t]
        PROVE  Reduces(f, s) = Reduces(g, s)
    <2>0. Len(s) \in Nat /\ DOMAIN s = 1 .. Len(s)
      BY DEF TypeSeqs
    <2>1. ASSUME NEW i \in DOMAIN s, NEW j \in DOMAIN s, i < j
          PROVE  f[Cut(s, i, j)] = g[Cut(s, i, j)]
      <3>1. i \in 1 .. Len(s) /\ j \in i .. Len(s) /\ Len(s) - (j - i + 1) < Len(s)
        BY <2>0, <2>1
      <3>2. Cut(s, i, j) \in TypeSeqs /\ Len(Cut(s, i, j)) < Len(s)
        BY <3>1, CutFacts
      <3>. QED
        BY <1>3, <3>2
    <2>. QED
      BY <2>1, Zenon DEF Reduces, Cut
  <1>4. \E f \in [TypeSeqs -> BOOLEAN] : \A s \in TypeSeqs : f[s] = F[s][f]
    <2>1. BOOLEAN # {}
      OBVIOUS
    <2>2. \A s \in TypeSeqs, f \in [TypeSeqs -> BOOLEAN] : F[s][f] = Reduces(f, s)
      OBVIOUS
    <2> HIDE DEF rank, F
    <2>3. Recursion(TypeSeqs, BOOLEAN, rank, F)
      <3>1. ASSUME NEW s \in TypeSeqs, NEW f \in [TypeSeqs -> BOOLEAN], NEW g \in [TypeSeqs -> BOOLEAN],
                   \A t \in TypeSeqs : rank[t] < rank[s] => f[t] = g[t]
            PROVE  F[s][f] = F[s][g]
        <4>1. Reduces(f, s) = Reduces(g, s)
          BY <1>3, <3>1
        <4>2. F[s][f] = Reduces(f, s) /\ F[s][g] = Reduces(g, s)
          BY <2>2
        <4>. QED
          BY <4>1, <4>2, Zenon
      <3>. QED
        BY <1>1, <1>2, <2>1, <3>1, Zenon DEF Recursion
    <2>. QED
      BY <2>3, RankRecursion
  <1>5. PICK f \in [TypeSeqs -> BOOLEAN] : \A s \in TypeSeqs : f[s] = F[s][f]
    BY <1>4
  <1>6. f = [s \in TypeSeqs |-> Reduces(f, s)]
    <2>1. \A s \in TypeSeqs : f[s] = Reduces(f, s)
      BY <1>5
    <2> HIDE DEF F
    <2>. QED
      BY <2>1, Zenon
  <1>7. Statements = CHOOSE g : g = [s \in TypeSeqs |-> Reduces(g, s)]
    BY Zenon DEF Statements, Reduces, TypeSeqs
  <1>8. Statements = [s \in TypeSeqs |-> Reduces(Statements, s)]
    BY <1>6, <1>7, Zenon
  <1>. QED
    BY <1>8, Zenon

(***************************************************************************)
(* The sequences of the grammar are those of this shape.                   *)
(***************************************************************************)
LEMMA EmptyShaped == Shaped(<<>>)
  <1> DEFINE d == [k \in 0 .. 0 |-> 0]
  <1>1. d \in [0 .. 0 -> Nat] /\ d[0] = 0
    OBVIOUS
  <1>2. Len(<<>>) = 0 /\ 1 .. 0 = {}
    OBVIOUS
  <1>3. Balanced(<<>>)
    BY <1>1, <1>2 DEF Balanced, Heights
  <1>. QED
    BY <1>2, <1>3 DEF Shaped, Ordered, Closed

LEMMA GrammarIsShape == \A s \in TypeSeqs : Statements[s] <=> Shaped(s)
  <1> DEFINE rank == [s \in TypeSeqs |-> Len(s)]
             P == {s \in TypeSeqs : Statements[s] <=> Shaped(s)}
  <1>1. rank \in [TypeSeqs -> Nat]
    BY DEF TypeSeqs
  <1>2. ASSUME NEW s \in TypeSeqs, \A t \in TypeSeqs : rank[t] < rank[s] => t \in P
        PROVE  s \in P
    <2>0. Len(s) \in Nat /\ DOMAIN s = 1 .. Len(s)
      BY DEF TypeSeqs
    <2>1. ASSUME NEW i \in 1 .. Len(s), NEW j \in i .. Len(s)
          PROVE  Statements[Cut(s, i, j)] <=> Shaped(Cut(s, i, j))
      <3>1. Len(s) - (j - i + 1) < Len(s)
        BY <2>0
      <3>2. Cut(s, i, j) \in TypeSeqs /\ Len(Cut(s, i, j)) < Len(s)
        BY <3>1, CutFacts
      <3>. QED
        BY <1>2, <3>2
    <2>2. ASSUME Statements[s], s # <<>> PROVE Shaped(s)
      <3>1. PICK i \in 1 .. Len(s), j \in 1 .. Len(s) :
              /\ i < j /\ Simple(SubSeq(s, i, j))
              /\ i > 1 => s[i - 1] # "NORMAL"
              /\ Statements[Cut(s, i, j)]
        <4>1. Reduces(Statements, s)
          BY <2>2, StatementsIs, Zenon
        <4>2. \E i, j \in 1 .. Len(s) :
                /\ i < j /\ Simple(SubSeq(s, i, j))
                /\ i > 1 => s[i - 1] # "NORMAL"
                /\ Statements[SubSeq(s, 1, i - 1) \o SubSeq(s, j + 1, Len(s))]
          BY <2>0, <2>2, <4>1, Zenon DEF Reduces
        <4>. QED
          BY <4>2, Zenon DEF Cut
      <3>2. j \in i .. Len(s) /\ (i = 1 \/ i > 1)
        BY <2>0, <3>1
      <3>3. PICK m \in i .. j - 1 : SimpleAt(s, i, m, j)
        BY <3>1, <3>2, SimpleFacts
      <3>4. Before(s, i) # "NORMAL"
        BY <3>1, <3>2 DEF Before
      <3>5. Shaped(Cut(s, i, j))
        BY <2>1, <3>1, <3>2
      <3>. QED
        BY <3>2, <3>3, <3>4, <3>5, SameShape
    <2>3. ASSUME Shaped(s), s # <<>> PROVE Statements[s]
      <3>1. PICK i \in 1 .. Len(s) : \E j \in i .. Len(s) : \E m \in i .. j - 1 :
              SimpleAt(s, i, m, j) /\ Before(s, i) # "NORMAL"
        BY <2>3, HasStatement DEF Shaped
      <3>2. PICK j \in i .. Len(s) : \E m \in i .. j - 1 :
              SimpleAt(s, i, m, j) /\ Before(s, i) # "NORMAL"
        BY <3>1
      <3>3. PICK m \in i .. j - 1 : SimpleAt(s, i, m, j) /\ Before(s, i) # "NORMAL"
        BY <3>2
      <3>4. Simple(SubSeq(s, i, j))
        BY <3>3, SimpleFacts
      <3>5. Statements[Cut(s, i, j)]
        BY <2>1, <2>3, <3>3, SameShape
      <3>6. i \in DOMAIN s /\ j \in DOMAIN s /\ i < j /\ (i > 1 => i # 1)
        BY <2>0
      <3>7. i > 1 => s[i - 1] # "NORMAL"
        BY <3>3, <3>6 DEF Before
      <3>8. Reduces(Statements, s)
        BY <3>4, <3>5, <3>6, <3>7, Zenon DEF Reduces, Cut
      <3>. QED
        BY <3>8, StatementsIs
    <2>4. CASE s = <<>>
      BY <2>4, EmptyShaped, StatementsIs, Zenon DEF Reduces
    <2>. QED
      BY <2>2, <2>3, <2>4
  <1>3. TypeSeqs \subseteq P
    <2> HIDE DEF rank, P
    <2>. QED
      BY <1>1, <1>2, RankInduction
  <1>. QED
    BY <1>3
-----------------------------------------------------------------------------
(* Two ways to count the heights agree. *)
LEMMA HeightsAgree ==
  ASSUME NEW s \in TypeSeqs, NEW d \in [0 .. Len(s) -> Int], NEW e \in [0 .. Len(s) -> Int],
         Heights(d, s), Heights(e, s)
  PROVE  \A k \in 0 .. Len(s) : d[k] = e[k]
  <1> DEFINE P == {n \in Nat : n \in 0 .. Len(s) => d[n] = e[n]}
  <1>0. Len(s) \in Nat
    BY DEF TypeSeqs
  <1>1. 0 \in P
    BY DEF Heights
  <1>2. ASSUME NEW n \in Nat, n \in P PROVE n + 1 \in P
    <2> SUFFICES ASSUME n + 1 \in 0 .. Len(s) PROVE d[n + 1] = e[n + 1]
      OBVIOUS
    <2> DEFINE k == n + 1
    <2>1. k \in 1 .. Len(s) /\ n \in 0 .. Len(s) /\ k - 1 = n
      BY <1>0
    <2>2. d[n] = e[n]
      BY <1>2, <2>1
    <2> HIDE DEF k, P
    <2>3. d[k] = d[k - 1] + Rise(s[k]) /\ e[k] = e[k - 1] + Rise(s[k])
      BY <2>1 DEF Heights
    <2>. QED
      BY <2>1, <2>2, <2>3 DEF k
  <1>3. Nat \subseteq P
    <2> HIDE DEF P
    <2>. QED
      BY <1>1, <1>2, NatInductive
  <1>. QED
    BY <1>0, <1>3

(***************************************************************************)
(* One type more at the end.                                               *)
(***************************************************************************)
LastOf(s) == IF s = <<>> THEN "START" ELSE s[Len(s)]

LEMMA OneMore ==
  ASSUME NEW s \in TypeSeqs, NEW type \in TokenTypes
  PROVE  /\ Append(s, type) \in TypeSeqs /\ LastOf(Append(s, type)) = type
         /\ Ordered(Append(s, type)) <=> Ordered(s) /\ Follows(LastOf(s), type)
  <1> DEFINE n == Len(s)
             u == Append(s, type)
  <1>1. /\ n \in Nat /\ u \in TypeSeqs /\ Len(u) = n + 1 /\ u[n + 1] = type
        /\ \A k \in 1 .. n : u[k] = s[k]
    BY AppendProperties, LenProperties DEF TypeSeqs
  <1>2. LastOf(u) = type
    <2>1. u # <<>>
      BY <1>1, EmptySeq
    <2>. QED
      BY <1>1, <2>1 DEF LastOf
  <1> HIDE DEF u
  <1>3. Before(u, n + 1) = LastOf(s)
    <2>1. s = <<>> <=> n = 0
      BY EmptySeq DEF TypeSeqs
    <2>2. CASE n = 0
      BY <2>1, <2>2 DEF LastOf, Before
    <2>3. CASE n # 0
      <3>1. n + 1 # 1 /\ (n + 1) - 1 = n /\ n \in 1 .. n
        BY <1>1, <2>3
      <3>2. Before(u, n + 1) = u[n]
        BY <3>1 DEF Before
      <3>. QED
        BY <1>1, <2>1, <2>3, <3>1, <3>2 DEF LastOf
    <2>. QED
      BY <2>2, <2>3
  <1>4. ASSUME NEW k \in 1 .. n PROVE Before(u, k) = Before(s, k) /\ u[k] = s[k]
    <2>1. k # 1 => k - 1 \in 1 .. n
      BY <1>1
    <2>. QED
      BY <1>1, <2>1 DEF Before
  <1>5. \A k : k \in 1 .. n + 1 <=> k \in 1 .. n \/ k = n + 1
    BY <1>1
  <1> HIDE DEF n
  <1>6. Ordered(u) <=> Ordered(s) /\ Follows(LastOf(s), type)
    <2>1. Ordered(u) <=> \A k \in 1 .. n + 1 : Follows(Before(u, k), u[k])
      BY <1>1 DEF Ordered
    <2>2. Ordered(s) <=> \A k \in 1 .. n : Follows(Before(s, k), s[k])
      BY DEF Ordered, n
    <2>. QED
      BY <1>1, <1>3, <1>4, <1>5, <2>1, <2>2
  <1>. QED
    BY <1>1, <1>2, <1>6 DEF u

(* d counts the heights of s, which is open to this depth. *)
OpenTo(d, s, h) ==
  /\ d \in [0 .. Len(s) -> Int] /\ Heights(d, s) /\ d[Len(s)] = h
  /\ \A k \in 0 .. Len(s) - 1 : d[k] >= 0

LEMMA OpenFurther ==
  ASSUME NEW s \in TypeSeqs, NEW type \in TokenTypes, NEW d, NEW h \in Nat, OpenTo(d, s, h)
  PROVE  \E e : OpenTo(e, Append(s, type), h + Rise(type))
  <1> DEFINE n == Len(s)
             u == Append(s, type)
             e == [k \in 0 .. n + 1 |-> IF k = n + 1 THEN h + Rise(type) ELSE d[k]]
  <1>1. /\ n \in Nat /\ u \in TypeSeqs /\ Len(u) = n + 1 /\ u[n + 1] = type
        /\ \A k \in 1 .. n : u[k] = s[k]
    BY AppendProperties, LenProperties DEF TypeSeqs
  <1>2. /\ d \in [0 .. n -> Int] /\ d[n] = h /\ d[0] = 0
        /\ \A k \in 0 .. n - 1 : d[k] >= 0
        /\ \A k \in 1 .. n : d[k] = d[k - 1] + Rise(s[k])
    BY DEF OpenTo, Heights
  <1>3. h + Rise(type) \in Int
    <2>1. Rise(type) \in Int
      BY DEF Rise
    <2>. QED
      BY <2>1
  <1>4. \A k \in 0 .. n + 1 : k = n + 1 \/ k \in 0 .. n
    BY <1>1
  <1>5. n + 1 \in 0 .. n + 1 /\ \A k \in 0 .. n : k \in 0 .. n + 1 /\ k # n + 1
    BY <1>1
  <1> HIDE DEF u, n
  <1>6. e \in [0 .. n + 1 -> Int]
    <2>1. \A k \in 0 .. n + 1 : (IF k = n + 1 THEN h + Rise(type) ELSE d[k]) \in Int
      BY <1>2, <1>3, <1>4
    <2>. QED
      BY <2>1
  <1>7. e[n + 1] = h + Rise(type) /\ \A k \in 0 .. n : e[k] = d[k]
    BY <1>5
  <1> HIDE DEF e
  <1>8. e[0] = 0
    <2>1. 0 \in 0 .. n
      BY <1>1
    <2>. QED
      BY <1>2, <1>7, <2>1
  <1>9. ASSUME NEW k \in 1 .. n + 1 PROVE e[k] = e[k - 1] + Rise(u[k])
    <2>1. CASE k = n + 1
      <3>1. k - 1 = n /\ n \in 0 .. n
        BY <1>1, <2>1
      <3>. QED
        BY <1>1, <1>2, <1>7, <2>1, <3>1
    <2>2. CASE k \in 1 .. n
      <3>1. k \in 0 .. n /\ k - 1 \in 0 .. n
        BY <1>1, <2>2
      <3>. QED
        BY <1>1, <1>2, <1>7, <2>2, <3>1
    <2>. QED
      BY <1>1, <2>1, <2>2
  <1>10. ASSUME NEW k \in 0 .. (n + 1) - 1 PROVE e[k] >= 0
    <2>1. k \in 0 .. n /\ (k = n \/ k \in 0 .. n - 1)
      BY <1>1
    <2>. QED
      BY <1>2, <1>7, <2>1
  <1>11. OpenTo(e, u, h + Rise(type))
    BY <1>1, <1>6, <1>7, <1>8, <1>9, <1>10 DEF OpenTo, Heights
  <1>. QED
    BY <1>11 DEF u

-----------------------------------------------------------------------------
(***************************************************************************)
(* What Parse knows of the tokens it has seen: their order is right, the   *)
(* last of them, and how deep they go; and it has never been below the     *)
(* file's own block before the last one.                                   *)
(***************************************************************************)
Remembers(last) ==
  CASE last = "START" -> "START"
    [] last = "NORMAL" -> "NORMAL"
    [] last = "STATEMENT_END" -> ";"
    [] last = "START_BLOCK" -> "{"
    [] last = "END_BLOCK" -> "}"

SoFar(t) == /\ Ordered(t) /\ LastOf(t) = Remembers(last_token_type)
            /\ \E d : OpenTo(d, t, depth)

GrammarInv ==
  /\ result = "none" /\ ~ub => SoFar(Types(file))
  /\ AcceptsGrammar

LEMMA TypesOf ==
  ASSUME NEW tokens \in Seq(Tokens)
  PROVE  /\ Types(tokens) \in TypeSeqs /\ (tokens = <<>> <=> Types(tokens) = <<>>)
         /\ \A tok \in Tokens : /\ tok.type \in TokenTypes
                                /\ Types(Append(tokens, tok)) = Append(Types(tokens), tok.type)
  <1> DEFINE n == Len(tokens)
             t == Types(tokens)
  <1>1. n \in Nat /\ DOMAIN tokens = 1 .. n /\ \A i \in 1 .. n : tokens[i] \in Tokens
    BY LenProperties, ElementOfSeq
  <1>2. \A tok \in Tokens : tok.type \in TokenTypes
    BY DEF Tokens
  <1>3. t = [i \in 1 .. n |-> tokens[i].type]
    BY <1>1 DEF Types
  <1> HIDE DEF n, t
  <1>4. t \in [1 .. n -> TokenTypes]
    BY <1>1, <1>2, <1>3
  <1>5. t \in TypeSeqs /\ Len(t) = n
    BY <1>1, <1>4 DEF TypeSeqs
  <1>6. tokens = <<>> <=> t = <<>>
    BY <1>5, EmptySeq DEF TypeSeqs, n
  <1>7. ASSUME NEW tok \in Tokens PROVE Types(Append(tokens, tok)) = Append(t, tok.type)
    <2> DEFINE more == Append(tokens, tok)
               u == Append(t, tok.type)
    <2>1. /\ more \in Seq(Tokens) /\ Len(more) = n + 1 /\ more[n + 1] = tok
          /\ \A i \in 1 .. n : more[i] = tokens[i]
      BY AppendProperties DEF n
    <2>2. /\ u \in Seq(TokenTypes) /\ Len(u) = n + 1 /\ u[n + 1] = tok.type
          /\ \A i \in 1 .. n : u[i] = t[i]
      BY <1>2, <1>5, AppendProperties DEF TypeSeqs
    <2> HIDE DEF more, u
    <2>3. DOMAIN more = 1 .. n + 1 /\ DOMAIN u = 1 .. n + 1
      BY <2>1, <2>2, LenProperties
    <2>4. Types(more) = [i \in 1 .. n + 1 |-> more[i].type]
      BY <2>3 DEF Types
    <2>5. \A i \in 1 .. n + 1 : i = n + 1 \/ i \in 1 .. n
      BY <1>1
    <2>6. \A i \in 1 .. n + 1 : more[i].type = u[i]
      BY <1>3, <2>1, <2>2, <2>5
    <2>7. u = [i \in 1 .. n + 1 |-> u[i]]
      BY <2>2, <2>3
    <2>8. Types(more) = u
      BY <2>4, <2>6, <2>7, Zenon
    <2>. QED
      BY <2>8 DEF more, u
  <1>. QED
    BY <1>2, <1>5, <1>6, <1>7 DEF t

(***************************************************************************)
(* A token that may follow the one before it lets Parse go on, unless the  *)
(* stack is empty; any other ends it.                                      *)
(***************************************************************************)
LEMMA GrammarStep ==
  ASSUME IInv, GrammarInv, result = "none", ~ub, NEW type \in TokenTypes, Handle(type)
  PROVE  GrammarInv'
  <1> DEFINE t == Types(file)
             u == Types(file')
             tok == Token(type)
  <1>1. /\ file \in Seq(Tokens) /\ depth \in Int /\ ub \in BOOLEAN
        /\ last_token_type \in {"START", "NORMAL"} \cup BlockEnds
        /\ config_stack \in Seq(Nat) /\ Shape
    BY DEF IInv, TypeOK, ParseInv
  <1>2. tok \in Tokens /\ tok.type = type
    <2>1. Len(file) \in Nat
      BY <1>1, LenProperties
    <2>. QED
      BY <2>1 DEF Token, Tokens
  <1>3. file' = Append(file, tok)
    BY DEF Handle
  <1>4. t \in TypeSeqs /\ u = Append(t, type)
    BY <1>1, <1>2, <1>3, TypesOf
  <1>5. SoFar(t)
    BY DEF GrammarInv
  <1>6. file' \in Seq(Tokens) /\ file' # <<>>
    BY <1>1, <1>2, <1>3, AppendProperties
  <1> HIDE DEF t, u, tok
  <1>7. /\ u \in TypeSeqs /\ LastOf(u) = type
        /\ Ordered(u) <=> Follows(LastOf(t), type)
    BY <1>4, <1>5, OneMore DEF SoFar
  <1>8. ASSUME result' = "false", ~Follows(LastOf(t), type) PROVE GrammarInv'
    <2>1. ~Statements[u]
      BY <1>7, <1>8, GrammarIsShape DEF Shaped
    <2>. QED
      BY <1>8, <2>1 DEF GrammarInv, AcceptsGrammar, Valid, u
  <1>9. ASSUME result' = "none", ub' PROVE GrammarInv'
    BY <1>9 DEF GrammarInv, AcceptsGrammar
  <1>10. config_stack # <<>> => depth \in Nat
    <2>1. Len(config_stack) = depth + 1
      BY <1>1 DEF Shape, Path
    <2>2. config_stack # <<>> => Len(config_stack) \in Nat \ {0}
      BY <1>1, EmptySeq, LenProperties
    <2>. QED
      BY <1>1, <2>1, <2>2
  <1>11. ASSUME config_stack # <<>>, result' = "none", Follows(LastOf(t), type),
                type = Remembers(last_token_type'), depth' = depth + Rise(type)
         PROVE  GrammarInv'
    <2>1. \E e : OpenTo(e, u, depth')
      <3>1. PICK d : OpenTo(d, t, depth)
        BY <1>5 DEF SoFar
      <3>. QED
        BY <1>4, <1>10, <1>11, <3>1, OpenFurther
    <2>2. Ordered(u) /\ LastOf(u) = Remembers(last_token_type')
      BY <1>7, <1>11
    <2>3. SoFar(Types(file))'
      BY <2>1, <2>2 DEF SoFar, u
    <2>. QED
      BY <1>11, <2>3 DEF GrammarInv, AcceptsGrammar
  <1>12. LastOf(t) = Remembers(last_token_type)
    BY <1>5 DEF SoFar
  <1>13. last_token_type = "NORMAL" => config_stack # <<>>
    BY <1>1 DEF Shape, Pending
  <1>14. /\ last_token_type = "NORMAL" <=> LastOf(t) = "NORMAL"
         /\ last_token_type \in BlockEnds <=> LastOf(t) \in Symbols
    BY <1>1, <1>12 DEF Remembers, BlockEnds, Symbols
  <1>15. CASE type = "NORMAL" /\ Normal
    <2>1. CASE config_stack = <<>>
      BY <1>9, <1>15, <2>1 DEF Normal, Undefined
    <2>2. CASE config_stack # <<>>
      <3>1. last_token_type' = "NORMAL" /\ depth' = depth /\ result' = "none"
        BY <1>15, <2>2 DEF Normal
      <3>2. Follows(LastOf(t), type) /\ type = Remembers(last_token_type') /\ Rise(type) = 0
        BY <1>15, <3>1 DEF Follows, Remembers, Rise
      <3>. QED
        BY <1>1, <1>11, <2>2, <3>1, <3>2
    <2>. QED
      BY <2>1, <2>2
  <1>16. CASE type = ";" /\ StatementEnd
    <2>1. CASE last_token_type # "NORMAL"
      BY <1>8, <1>14, <1>16, <2>1 DEF StatementEnd, Fail, Follows
    <2>2. CASE last_token_type = "NORMAL"
      <3>1. last_token_type' = "STATEMENT_END" /\ depth' = depth /\ result' = "none"
        BY <1>16, <2>2 DEF StatementEnd
      <3>2. Follows(LastOf(t), type) /\ type = Remembers(last_token_type') /\ Rise(type) = 0
        BY <1>14, <1>16, <2>2, <3>1 DEF Follows, Remembers, Rise
      <3>. QED
        BY <1>1, <1>11, <1>13, <2>2, <3>1, <3>2
    <2>. QED
      BY <2>1, <2>2
  <1>17. CASE type = "{" /\ StartBlock
    <2>1. CASE last_token_type # "NORMAL"
      BY <1>8, <1>14, <1>17, <2>1 DEF StartBlock, Fail, Follows
    <2>2. CASE last_token_type = "NORMAL"
      <3>1. last_token_type' = "START_BLOCK" /\ depth' = depth + 1 /\ result' = "none"
        BY <1>17, <2>2 DEF StartBlock
      <3>2. Follows(LastOf(t), type) /\ type = Remembers(last_token_type') /\ Rise(type) = 1
        BY <1>14, <1>17, <2>2, <3>1 DEF Follows, Remembers, Rise
      <3>. QED
        BY <1>1, <1>11, <1>13, <2>2, <3>1, <3>2
    <2>. QED
      BY <2>1, <2>2
  <1>18. CASE type = "}" /\ EndBlock
    <2>1. CASE last_token_type \notin BlockEnds
      BY <1>8, <1>14, <1>18, <2>1 DEF EndBlock, Fail, Follows
    <2>2. CASE last_token_type \in BlockEnds /\ config_stack = <<>>
      BY <1>9, <1>18, <2>2 DEF EndBlock, Undefined
    <2>3. CASE last_token_type \in BlockEnds /\ config_stack # <<>>
      <3>1. last_token_type' = "END_BLOCK" /\ depth' = depth - 1 /\ result' = "none"
        BY <1>18, <2>3 DEF EndBlock
      <3>2. Follows(LastOf(t), type) /\ type = Remembers(last_token_type') /\ Rise(type) = -1
        BY <1>14, <1>18, <2>3, <3>1 DEF Follows, Remembers, Rise
      <3>. QED
        BY <1>1, <1>11, <2>3, <3>1, <3>2
    <2>. QED
      BY <2>1, <2>2, <2>3
  <1>19. CASE type = "ERROR" /\ Fail /\ UNCHANGED depth
    BY <1>8, <1>19 DEF Fail, Follows
  <1>. QED
    BY <1>15, <1>16, <1>17, <1>18, <1>19 DEF Handle

(***************************************************************************)
(* At the end of the file the tokens are of the shape exactly when the     *)
(* last one may end it and the depth is 0.                                 *)
(***************************************************************************)
LEMMA EndStep ==
  ASSUME IInv, GrammarInv, result = "none", ~ub,
         result' = IF last_token_type \in {"STATEMENT_END", "END_BLOCK"} /\ depth = 0
                   THEN "true" ELSE "false",
         file' = file
  PROVE  GrammarInv'
  <1> DEFINE t == Types(file)
  <1>1. /\ file \in Seq(Tokens) /\ depth \in Int
        /\ last_token_type \in {"START", "NORMAL"} \cup BlockEnds
    BY DEF IInv, TypeOK
  <1>2. t \in TypeSeqs /\ (file = <<>> <=> t = <<>>)
    BY <1>1, TypesOf
  <1>3. SoFar(t)
    BY DEF GrammarInv
  <1> HIDE DEF t
  <1>4. Len(t) \in Nat /\ Len(t) \in 0 .. Len(t)
    BY <1>2, LenProperties DEF TypeSeqs
  <1>5. PICK d : OpenTo(d, t, depth)
    BY <1>3 DEF SoFar
  <1>6. d \in [0 .. Len(t) -> Int] /\ Heights(d, t) /\ d[Len(t)] = depth
    BY <1>5 DEF OpenTo
  <1>7. last_token_type \in {"STATEMENT_END", "END_BLOCK"} <=> LastOf(t) \in {";", "}"}
    BY <1>1, <1>3 DEF SoFar, Remembers, BlockEnds
  <1>8. LastOf(t) \in {";", "}"} <=> t # <<>> /\ Closed(t)
    BY DEF LastOf, Closed
  <1>9. ASSUME depth = 0 PROVE Balanced(t)
    <2>1. ASSUME NEW k \in 0 .. Len(t) PROVE d[k] \in Nat
      <3>1. k = Len(t) \/ k \in 0 .. Len(t) - 1
        <4> DEFINE n == Len(t)
        <4>1. n \in Nat /\ k \in 0 .. n
          BY <1>4
        <4> HIDE DEF n
        <4>2. k = n \/ k \in 0 .. n - 1
          BY <4>1
        <4>. QED
          BY <4>2 DEF n
      <3>2. \A x \in 0 .. Len(t) - 1 : d[x] >= 0
        BY <1>5 DEF OpenTo
      <3>3. d[k] \in Int
        BY <1>6
      <3>. QED
        BY <1>6, <1>9, <3>1, <3>2, <3>3
    <2>2. d \in [0 .. Len(t) -> Nat]
      BY <1>6, <2>1
    <2>. QED
      BY <1>6, <1>9, <2>2 DEF Balanced
  <1>10. ASSUME Balanced(t) PROVE depth = 0
    <2>1. PICK e \in [0 .. Len(t) -> Nat] : Heights(e, t) /\ e[Len(t)] = 0
      BY <1>10 DEF Balanced
    <2>2. e \in [0 .. Len(t) -> Int]
      OBVIOUS
    <2>3. d[Len(t)] = e[Len(t)]
      BY <1>2, <1>4, <1>6, <2>1, <2>2, HeightsAgree
    <2>. QED
      BY <1>6, <2>1, <2>3
  <1>11. Valid(file) <=> last_token_type \in {"STATEMENT_END", "END_BLOCK"} /\ depth = 0
    <2>1. Valid(file) <=> t # <<>> /\ Shaped(t)
      BY <1>2, GrammarIsShape DEF Valid, t
    <2>. QED
      BY <1>3, <1>7, <1>8, <1>9, <1>10, <2>1 DEF Shaped, SoFar
  <1>. QED
    BY <1>11 DEF GrammarInv, AcceptsGrammar, Valid

(***************************************************************************)
(* Whatever the file, Parse accepts the tokens it has seen exactly when    *)
(* they are a sequence of statements, however deep the blocks.             *)
(***************************************************************************)
THEOREM ParsesGrammar == Spec => []AcceptsGrammar
  <1>1. Init => GrammarInv
    <2> SUFFICES ASSUME Init PROVE GrammarInv
      OBVIOUS
    <2>1. /\ file = <<>> /\ result \in {"none", "false"} /\ depth = 0 /\ last_token_type = "START"
      BY DEF Init
    <2>2. Types(file) = <<>>
      BY <2>1, TypesOf, EmptySeq
    <2>3. Ordered(<<>>) /\ LastOf(<<>>) = "START"
      BY EmptyShaped DEF Shaped, LastOf
    <2>4. \E d : OpenTo(d, <<>>, 0)
      <3> DEFINE d == [k \in 0 .. 0 |-> 0]
      <3>1. Len(<<>>) = 0 /\ 1 .. 0 = {} /\ 0 .. 0 - 1 = {}
        OBVIOUS
      <3>2. d \in [0 .. 0 -> Int] /\ d[0] = 0
        OBVIOUS
      <3>. QED
        BY <3>1, <3>2 DEF OpenTo, Heights
    <2>5. SoFar(Types(file))
      BY <2>1, <2>2, <2>3, <2>4 DEF SoFar, Remembers
    <2>. QED
      BY <2>1, <2>5 DEF GrammarInv, AcceptsGrammar, Valid
  <1>2. IInv /\ GrammarInv /\ [Next]_vars => GrammarInv'
    <2> SUFFICES ASSUME IInv, GrammarInv, [Next]_vars PROVE GrammarInv'
      OBVIOUS
    <2>1. ASSUME UNCHANGED <<parse, file>> PROVE GrammarInv'
      BY <2>1 DEF parse, GrammarInv, SoFar, AcceptsGrammar
    <2>2. ASSUME result = "none", ~ub, NEW type \in TokenTypes, Handle(type) PROVE GrammarInv'
      BY <2>2, GrammarStep
    <2>3. ASSUME NEW c \in Chars,
                 InitialWhitespace(c) \/ Quote(c) \/ Comment(c) \/ Unget(c) \/ Word(c)
          PROVE  GrammarInv'
      <3>1. result = "none" /\ ~ub
        BY <2>3 DEF InitialWhitespace, Quote, Comment, Unget, Word, Getting
      <3>2. \/ \E next : Scan(next)
            \/ \E type \in TokenTypes : Handle(type)
        BY <2>3 DEF InitialWhitespace, Quote, Comment, Unget, Word, Emit, TokenTypes
      <3>. QED
        BY <2>1, <2>2, <3>1, <3>2 DEF Scan
    <2>4. CASE EndOfFile
      <3>1. result = "none" /\ ~ub
        BY <2>4 DEF EndOfFile
      <3>2. CASE Handle("ERROR")
        BY <2>2, <3>1, <3>2 DEF TokenTypes
      <3>3. CASE ~Handle("ERROR")
        BY <2>4, <3>1, <3>3, EndStep DEF EndOfFile
      <3>. QED
        BY <3>2, <3>3
    <2>5. CASE UNCHANGED vars
      BY <2>1, <2>5 DEF vars, parse
    <2>. QED
      BY <2>3, <2>4, <2>5 DEF Next
  <1>3. GrammarInv => AcceptsGrammar
    BY DEF GrammarInv
  <1>. QED
    BY <1>1, <1>2, <1>3, Invariance, PTL DEF Spec
-----------------------------------------------------------------------------
(***************************************************************************)
(* ToString of any blocks b, not only the variable's: ser gives the text   *)
(* of each of them.                                                        *)
(***************************************************************************)
LineText(ser, stmt) ==
  Words(stmt) \o (IF stmt.child = 0 THEN Written(<<";">>)
                  ELSE Written(<<"{">>) \o ser[stmt.child] \o Written(<<"}">>))

LineTexts(ser, stmts) == [i \in DOMAIN stmts |-> LineText(ser, stmts[i])]
Lines(ser, stmts) == FlattenSeq(LineTexts(ser, stmts))

Serializes(ser, b) == ser = [n \in DOMAIN b |-> Lines(ser, b[n])]
SerialOf(b) == CHOOSE ser : Serializes(ser, b)

(* The block of a statement is made after the one the statement is in, and *)
(* is the block of no other statement.                                     *)
Tree(b) ==
  /\ b \in Seq(Seq(Records))
  /\ \A n \in DOMAIN b : \A i \in DOMAIN b[n] :
       b[n][i].child # 0 => b[n][i].child \in DOMAIN b /\ b[n][i].child > n
  /\ \A n, m \in DOMAIN b : \A i \in DOMAIN b[n], j \in DOMAIN b[m] :
       b[n][i].child = b[m][j].child /\ b[n][i].child # 0 => n = m /\ i = j

-----------------------------------------------------------------------------
LEMMA TextOfTypes ==
  ASSUME NEW a \in TokenTypes
  PROVE  Written(<<a>>) \in Seq(Tokens) /\ Written(<<a>>) = <<[type |-> a, word |-> 0]>>
  <1>1. DOMAIN <<a>> = 1 .. 1 /\ <<a>>[1] = a
    OBVIOUS
  <1>2. Written(<<a>>) = [i \in 1 .. 1 |-> [type |-> <<a>>[i], word |-> 0]]
    BY <1>1 DEF Written
  <1>3. \A i \in 1 .. 1 : i = 1
    OBVIOUS
  <1>4. <<[type |-> a, word |-> 0]>> = [i \in 1 .. 1 |-> [type |-> a, word |-> 0]]
    OBVIOUS
  <1>5. Written(<<a>>) = [i \in 1 .. 1 |-> [type |-> a, word |-> 0]]
    BY <1>1, <1>2, <1>3
  <1>6. [type |-> a, word |-> 0] \in Tokens
    BY DEF Tokens
  <1>7. \A x \in Tokens : <<x>> \in Seq(Tokens)
    OBVIOUS
  <1>8. Written(<<a>>) = <<[type |-> a, word |-> 0]>>
    BY <1>4, <1>5, Zenon
  <1>9. <<[type |-> a, word |-> 0]>> \in Seq(Tokens)
    BY <1>6, <1>7, Zenon
  <1>. QED
    BY <1>8, <1>9, Zenon

LEMMA WordsType ==
  ASSUME NEW stmt \in Records
  PROVE  Words(stmt) \in Seq(Tokens)
  <1>1. stmt.tokens \in Seq(Nat)
    BY DEF Records
  <1> DEFINE n == Len(stmt.tokens)
  <1>2. n \in Nat /\ DOMAIN stmt.tokens = 1 .. n /\ \A i \in 1 .. n : stmt.tokens[i] \in Nat
    BY <1>1, LenProperties, ElementOfSeq
  <1>3. \A i \in 1 .. n : [type |-> "NORMAL", word |-> stmt.tokens[i]] \in Tokens
    BY <1>2 DEF Tokens, TokenTypes
  <1>4. Words(stmt) = [i \in 1 .. n |-> [type |-> "NORMAL", word |-> stmt.tokens[i]]]
    BY <1>2 DEF Words
  <1> HIDE DEF n
  <1>5. Words(stmt) \in [1 .. n -> Tokens]
    BY <1>3, <1>4
  <1>. QED
    BY <1>2, <1>5

(* ser has the text of the block of each of these statements. *)
HasText(ser, stmts) ==
  \A i \in DOMAIN stmts : stmts[i].child # 0 => ser[stmts[i].child] \in Seq(Tokens)

LEMMA LineType ==
  ASSUME NEW ser, NEW stmt \in Records, stmt.child # 0 => ser[stmt.child] \in Seq(Tokens)
  PROVE  LineText(ser, stmt) \in Seq(Tokens)
  <1>1. Words(stmt) \in Seq(Tokens)
    BY WordsType
  <1>2. /\ Written(<<";">>) \in Seq(Tokens) /\ Written(<<"{">>) \in Seq(Tokens)
        /\ Written(<<"}">>) \in Seq(Tokens)
    BY TextOfTypes DEF TokenTypes, Symbols
  <1>3. CASE stmt.child = 0
    BY <1>1, <1>2, <1>3, ConcatProperties DEF LineText
  <1>4. CASE stmt.child # 0
    <2>1. ser[stmt.child] \in Seq(Tokens)
      BY <1>4
    <2>2. Written(<<"{">>) \o ser[stmt.child] \in Seq(Tokens)
      BY <1>2, <2>1, ConcatProperties
    <2>3. Written(<<"{">>) \o ser[stmt.child] \o Written(<<"}">>) \in Seq(Tokens)
      BY <1>2, <2>2, ConcatProperties
    <2>. QED
      BY <1>1, <1>4, <2>3, ConcatProperties DEF LineText
  <1>. QED
    BY <1>3, <1>4

LEMMA LineTextsType ==
  ASSUME NEW ser, NEW stmts \in Seq(Records), HasText(ser, stmts)
  PROVE  LineTexts(ser, stmts) \in Seq(Seq(Tokens)) /\ Len(LineTexts(ser, stmts)) = Len(stmts)
  <1> DEFINE n == Len(stmts)
             V == Seq(Tokens)
  <1>1. n \in Nat /\ DOMAIN stmts = 1 .. n /\ \A i \in 1 .. n : stmts[i] \in Records
    BY LenProperties, ElementOfSeq
  <1>2. \A i \in 1 .. n : LineText(ser, stmts[i]) \in V
    BY <1>1, LineType DEF HasText
  <1>3. LineTexts(ser, stmts) = [i \in 1 .. n |-> LineText(ser, stmts[i])]
    BY <1>1 DEF LineTexts
  <1> HIDE DEF n, V
  <1>4. LineTexts(ser, stmts) \in [1 .. n -> V]
    BY <1>2, <1>3
  <1>. QED
    BY <1>1, <1>4 DEF V, n

LEMMA LinesType ==
  ASSUME NEW ser, NEW stmts \in Seq(Records), HasText(ser, stmts)
  PROVE  Lines(ser, stmts) \in Seq(Tokens)
  <1>1. LineTexts(ser, stmts) \in Seq(Seq(Tokens))
    BY LineTextsType
  <1>2. <<>> \in Seq(Tokens)
    OBVIOUS
  <1>. QED
    BY <1>1, <1>2, FlattenAppend DEF Lines

LEMMA LinesAppend ==
  ASSUME NEW ser, NEW stmts \in Seq(Records), HasText(ser, stmts), NEW stmt \in Records,
         stmt.child # 0 => ser[stmt.child] \in Seq(Tokens)
  PROVE  Lines(ser, Append(stmts, stmt)) = Lines(ser, stmts) \o LineText(ser, stmt)
  <1> DEFINE n == Len(stmts)
             more == Append(stmts, stmt)
             x == LineTexts(ser, stmts)
             line == LineText(ser, stmt)
  <1>1. x \in Seq(Seq(Tokens)) /\ Len(x) = n
    BY LineTextsType
  <1>2. line \in Seq(Tokens)
    BY LineType
  <1>3. /\ n \in Nat /\ DOMAIN stmts = 1 .. n /\ DOMAIN more = 1 .. n + 1 /\ more[n + 1] = stmt
        /\ \A i \in 1 .. n : more[i] = stmts[i]
    BY AppendProperties, LenProperties
  <1>4. LineTexts(ser, more) = Append(x, line)
    <2> DEFINE y == Append(x, line)
    <2>1. /\ y \in Seq(Seq(Tokens)) /\ Len(y) = n + 1 /\ y[n + 1] = line
          /\ \A i \in 1 .. n : y[i] = x[i]
      BY <1>1, <1>2, AppendProperties
    <2>2. \A i \in 1 .. n : x[i] = LineText(ser, stmts[i])
      BY <1>3 DEF LineTexts
    <2>3. LineTexts(ser, more) = [i \in 1 .. n + 1 |-> LineText(ser, more[i])]
      BY <1>3 DEF LineTexts
    <2>4. \A i \in 1 .. n + 1 : i = n + 1 \/ i \in 1 .. n
      BY <1>3
    <2> HIDE DEF y, more, x, n
    <2>5. \A i \in 1 .. n + 1 : LineText(ser, more[i]) = y[i]
      BY <1>3, <2>1, <2>2, <2>4 DEF line
    <2>6. DOMAIN y = 1 .. n + 1
      BY <2>1, LenProperties
    <2>7. y = [i \in 1 .. n + 1 |-> y[i]]
      BY <2>1, <2>6
    <2>8. LineTexts(ser, more) = y
      BY <2>3, <2>5, <2>7, Zenon
    <2>. QED
      BY <2>8 DEF y
  <1> HIDE DEF x, line, more
  <1>5. FlattenSeq(Append(x, line)) = FlattenSeq(x) \o line
    BY <1>1, <1>2, FlattenAppend
  <1>. QED
    BY <1>4, <1>5 DEF Lines, x, line, more

(* The text of statements depends only on the text of their blocks. *)
LEMMA LinesAgree ==
  ASSUME NEW ser, NEW other, NEW stmts \in Seq(Records),
         \A i \in DOMAIN stmts : stmts[i].child # 0 => ser[stmts[i].child] = other[stmts[i].child]
  PROVE  Lines(ser, stmts) = Lines(other, stmts)
  <1>1. \A i \in DOMAIN stmts : LineText(ser, stmts[i]) = LineText(other, stmts[i])
    BY Zenon DEF LineText
  <1>2. LineTexts(ser, stmts) = LineTexts(other, stmts)
    BY <1>1, Zenon DEF LineTexts
  <1>. QED
    BY <1>2 DEF Lines

-----------------------------------------------------------------------------
(* Serialized is defined by recursion down the blocks. *)
LEMMA SerialOfIs ==
  ASSUME NEW b, Tree(b)
  PROVE  /\ SerialOf(b) \in [DOMAIN b -> Seq(Tokens)]
         /\ \A n \in DOMAIN b : HasText(SerialOf(b), b[n]) /\ SerialOf(b)[n] = Lines(SerialOf(b), b[n])
  <1> DEFINE S == DOMAIN b
             V == Seq(Tokens)
             rank == [n \in S |-> Len(b) - n]
             F == [n \in S |-> [f \in [S -> V] |-> Lines(f, b[n])]]
  <1>0. b \in Seq(Seq(Records)) /\ Len(b) \in Nat /\ S = 1 .. Len(b)
    BY LenProperties DEF Tree
  <1>1. rank \in [S -> Nat]
    BY <1>0
  <1>2. \A n \in S : b[n] \in Seq(Records)
    BY <1>0, ElementOfSeq
  <1>3. ASSUME NEW n \in S, NEW f \in [S -> V] PROVE HasText(f, b[n])
    BY DEF HasText, Tree
  <1>4. F \in [S -> [[S -> V] -> V]]
    <2>1. ASSUME NEW n \in S, NEW f \in [S -> V] PROVE Lines(f, b[n]) \in V
      BY <1>2, <1>3, LinesType
    <2> HIDE DEF S, V
    <2>. QED
      BY <2>1
  <1>5. ASSUME NEW n \in S, NEW f \in [S -> V], NEW g \in [S -> V],
               \A m \in S : rank[m] < rank[n] => f[m] = g[m]
        PROVE  Lines(f, b[n]) = Lines(g, b[n])
    <2>1. ASSUME NEW i \in DOMAIN b[n], b[n][i].child # 0
          PROVE  f[b[n][i].child] = g[b[n][i].child]
      <3> DEFINE m == b[n][i].child
      <3>1. m \in S /\ m > n
        BY <2>1 DEF Tree
      <3> HIDE DEF m
      <3>2. rank[m] < rank[n]
        BY <1>0, <3>1
      <3>3. f[m] = g[m]
        BY <1>5, <3>1, <3>2
      <3>. QED
        BY <3>3 DEF m
    <2>. QED
      BY <1>2, <2>1, LinesAgree
  <1>6. PICK f \in [S -> V] : \A n \in S : f[n] = F[n][f]
    <2>1. V # {}
      BY EmptySeq
    <2>2. \A n \in S, f \in [S -> V] : F[n][f] = Lines(f, b[n])
      OBVIOUS
    <2> HIDE DEF S, V, rank, F
    <2>3. Recursion(S, V, rank, F)
      <3>1. ASSUME NEW n \in S, NEW f \in [S -> V], NEW g \in [S -> V],
                   \A m \in S : rank[m] < rank[n] => f[m] = g[m]
            PROVE  F[n][f] = F[n][g]
        BY <1>5, <2>2, <3>1
      <3>. QED
        BY <1>1, <1>4, <2>1, <3>1 DEF Recursion
    <2>. QED
      BY <2>3, RankRecursion, SMT
  <1>7. Serializes(f, b)
    <2>1. \A n \in S : f[n] = Lines(f, b[n])
      BY <1>6
    <2> HIDE DEF F
    <2>2. f = [n \in S |-> f[n]]
      BY <1>6
    <2>. QED
      BY <2>1, <2>2, Zenon DEF Serializes
  <1> DEFINE ser == SerialOf(b)
  <1>8. Serializes(ser, b)
    BY <1>7, Zenon DEF SerialOf
  <1> HIDE DEF ser, F
  <1>9. \A n \in S : ser[n] = Lines(ser, b[n])
    BY <1>8, Zenon DEF Serializes
  <1>10. ser = [n \in S |-> ser[n]]
    BY <1>8, <1>9, Zenon DEF Serializes
  <1>11. \A n \in S : ser[n] \in V
    <2> DEFINE P == {n \in S : ser[n] \in V}
    <2>1. ASSUME NEW n \in S, \A m \in S : rank[m] < rank[n] => m \in P PROVE n \in P
      <3>1. ASSUME NEW i \in DOMAIN b[n], b[n][i].child # 0 PROVE ser[b[n][i].child] \in V
        <4> DEFINE m == b[n][i].child
        <4>1. m \in S /\ m > n
          BY <3>1 DEF Tree
        <4> HIDE DEF m
        <4>2. rank[m] < rank[n]
          BY <1>0, <4>1
        <4>3. ser[m] \in V
          BY <2>1, <4>1, <4>2
        <4>. QED
          BY <4>3 DEF m
      <3>2. HasText(ser, b[n])
        BY <3>1 DEF HasText
      <3>3. Lines(ser, b[n]) \in V
        BY <1>2, <3>2, LinesType
      <3>. QED
        BY <1>9, <3>3
    <2>2. S \subseteq P
      <3> HIDE DEF S, rank, P
      <3>. QED
        BY <1>1, <2>1, RankInduction
    <2>. QED
      BY <2>2
  <1>12. ser \in [S -> V]
    BY <1>10, <1>11
  <1>. QED
    BY <1>3, <1>9, <1>12 DEF ser

LEMMA SerializedIs == Serialized = SerialOf(blocks)
  BY Zenon DEF Serialized, SerialOf, Serializes, Lines, LineTexts, LineText
-----------------------------------------------------------------------------
LEMMA FrontAndLast ==
  ASSUME NEW list \in Seq(Records), list # <<>>
  PROVE  /\ Front(list) \in Seq(Records) /\ list[Len(list)] \in Records
         /\ list = Append(Front(list), list[Len(list)])
         /\ Len(Front(list)) = Len(list) - 1
  <1> DEFINE n == Len(list)
             front == Front(list)
  <1>1. n \in Nat /\ n > 0 /\ DOMAIN list = 1 .. n
    BY EmptySeq, LenProperties
  <1>2. \A i \in 1 .. n : list[i] \in Records
    BY ElementOfSeq
  <1>3. n \in 1 .. n /\ 1 \in Int /\ n - 1 \in Int /\ \A i \in 1 .. n - 1 : i \in 1 .. n
    BY <1>1
  <1>4. front = SubSeq(list, 1, n - 1)
    BY DEF Front
  <1> HIDE DEF n, front
  <1>5. /\ front \in Seq(Records)
        /\ Len(front) = (IF 1 <= n - 1 THEN (n - 1) - 1 + 1 ELSE 0)
        /\ \A i \in 1 .. (n - 1) - 1 + 1 : front[i] = list[1 + i - 1]
    BY <1>2, <1>3, <1>4, SubSeqProperties
  <1>6. Len(front) = n - 1 /\ \A i \in 1 .. n - 1 : front[i] = list[i]
    <2>1. (n - 1) - 1 + 1 = n - 1
      BY <1>1
    <2>2. ~(1 <= n - 1) => n - 1 = 0
      BY <1>1
    <2>3. \A i \in 1 .. n - 1 : 1 + i - 1 = i
      OBVIOUS
    <2>. QED
      BY <1>5, <2>1, <2>2, <2>3
  <1>7. list[n] \in Records
    BY <1>2, <1>3
  <1> DEFINE more == Append(front, list[n])
  <1>8. /\ more \in Seq(Records) /\ Len(more) = n - 1 + 1 /\ more[n - 1 + 1] = list[n]
        /\ \A i \in 1 .. n - 1 : more[i] = front[i]
    BY <1>5, <1>6, <1>7, AppendProperties
  <1> HIDE DEF more
  <1>9. n - 1 + 1 = n /\ \A i \in 1 .. n : i = n \/ i \in 1 .. n - 1
    BY <1>1
  <1>10. \A i \in 1 .. n : list[i] = more[i]
    BY <1>6, <1>8, <1>9
  <1>11. Len(list) = Len(more) /\ \A i \in 1 .. Len(list) : list[i] = more[i]
    BY <1>8, <1>9, <1>10 DEF n
  <1>12. list = more
    BY <1>8, <1>11, SeqEqual
  <1>. QED
    BY <1>5, <1>6, <1>7, <1>12 DEF more, front, n

LEMMA ChangeLast ==
  ASSUME NEW front \in Seq(Records), NEW old \in Records, NEW stmt \in Records
  PROVE  LET list == Append(front, old)
         IN  /\ list # <<>> /\ list[Len(list)] = old
             /\ [list EXCEPT ![Len(list)] = stmt] = Append(front, stmt)
             /\ Front(list) = front
  <1> DEFINE list == Append(front, old)
             n == Len(front)
             a == [list EXCEPT ![n + 1] = stmt]
             c == Append(front, stmt)
  <1>1. /\ n \in Nat /\ list \in Seq(Records) /\ list # <<>> /\ Len(list) = n + 1
        /\ list[n + 1] = old /\ \A i \in 1 .. n : list[i] = front[i]
    BY AppendProperties, LenProperties
  <1>2. /\ c \in Seq(Records) /\ Len(c) = n + 1 /\ c[n + 1] = stmt
        /\ \A i \in 1 .. n : c[i] = front[i]
    BY AppendProperties
  <1> HIDE DEF list, c
  <1>3. n + 1 \in 1 .. Len(list) /\ \A i \in 1 .. n + 1 : i = n + 1 \/ (i \in 1 .. n /\ i # n + 1)
    BY <1>1
  <1>4. /\ a \in Seq(Records) /\ Len(a) = n + 1
        /\ \A i \in 1 .. n + 1 : a[i] = IF i = n + 1 THEN stmt ELSE list[i]
    BY <1>1, <1>3, ExceptSeq
  <1> HIDE DEF a
  <1>5. \A i \in 1 .. n + 1 : a[i] = c[i]
    BY <1>1, <1>2, <1>3, <1>4
  <1>6. a = c
    BY <1>2, <1>4, <1>5, SeqEqual
  <1>7. Front(list) = front
    <2>1. list = Append(Front(list), list[Len(list)]) /\ Front(list) \in Seq(Records)
      BY <1>1, FrontAndLast
    <2>2. Append(front, old) = Append(Front(list), old)
      BY <1>1, <2>1 DEF list
    <2>. QED
      BY <2>1, <2>2, AppendInjective
  <1>. QED
    BY <1>1, <1>6, <1>7 DEF a, c, list

LEMMA OneWordMore ==
  ASSUME NEW old \in Records, NEW word \in Nat,
         NEW stmt, stmt = [old EXCEPT !.tokens = Append(@, word)]
  PROVE  /\ stmt \in Records /\ stmt.child = old.child
         /\ Words(stmt) = Append(Words(old), [type |-> "NORMAL", word |-> word])
  <1> DEFINE n == Len(old.tokens)
             more == Append(old.tokens, word)
             token(w) == [type |-> "NORMAL", word |-> w]
             a == Append(Words(old), token(word))
  <1>1. old.tokens \in Seq(Nat)
    BY DEF Records
  <1>2. /\ n \in Nat /\ more \in Seq(Nat) /\ Len(more) = n + 1 /\ more[n + 1] = word
        /\ \A i \in 1 .. n : more[i] = old.tokens[i]
    BY <1>1, AppendProperties, LenProperties
  <1>3. DOMAIN more = 1 .. n + 1 /\ DOMAIN old.tokens = 1 .. n
    BY <1>1, <1>2, LenProperties
  <1>4. stmt.tokens = more /\ stmt.child = old.child /\ stmt \in Records
    BY <1>2 DEF Records
  <1>5. token(word) \in Tokens
    BY DEF Tokens, TokenTypes
  <1>6. /\ Words(old) \in Seq(Tokens) /\ Words(old) = [i \in 1 .. n |-> token(old.tokens[i])]
        /\ Len(Words(old)) = n
    <2>1. Words(old) \in Seq(Tokens) /\ Words(old) = [i \in 1 .. n |-> token(old.tokens[i])]
      BY <1>3, WordsType DEF Words
    <2>2. DOMAIN Words(old) = 1 .. n /\ DOMAIN Words(old) = 1 .. Len(Words(old)) /\ Len(Words(old)) \in Nat
      BY <2>1, LenProperties
    <2>. QED
      BY <1>2, <2>1, <2>2
  <1>7. Words(stmt) = [i \in 1 .. n + 1 |-> token(more[i])]
    BY <1>3, <1>4 DEF Words
  <1>8. /\ a \in Seq(Tokens) /\ Len(a) = n + 1 /\ a[n + 1] = token(word)
        /\ \A i \in 1 .. n : a[i] = Words(old)[i]
    BY <1>5, <1>6, AppendProperties
  <1>9. \A i \in 1 .. n + 1 : i = n + 1 \/ i \in 1 .. n
    BY <1>2
  <1> HIDE DEF a, more, token, n
  <1>10. \A i \in 1 .. n + 1 : token(more[i]) = a[i]
    BY <1>2, <1>6, <1>8, <1>9
  <1>11. DOMAIN a = 1 .. n + 1
    BY <1>8, LenProperties
  <1>12. a = [i \in 1 .. n + 1 |-> a[i]]
    BY <1>8, <1>11
  <1>13. Words(stmt) = a
    BY <1>7, <1>10, <1>12, Zenon
  <1>. QED
    BY <1>4, <1>13 DEF a, token

-----------------------------------------------------------------------------
(***************************************************************************)
(* From b to c the last statement of block t changes or is added, perhaps  *)
(* with a new block; the statements before it are list.                    *)
(***************************************************************************)
Changed(b, c, t, list, stmt) ==
  /\ c \in Seq(Seq(Records)) /\ DOMAIN b \subseteq DOMAIN c /\ t \in DOMAIN b
  /\ \A n \in DOMAIN b : n # t => c[n] = b[n]
  /\ \A n \in DOMAIN c : n \notin DOMAIN b => c[n] = <<>>
  /\ list \in Seq(Records) /\ stmt \in Records /\ c[t] = Append(list, stmt)
  /\ b[t] = list \/ \E old \in Records : old.child = 0 /\ b[t] = Append(list, old)
  /\ stmt.child # 0 => stmt.child \in DOMAIN c /\ stmt.child \notin DOMAIN b

LEMMA ChangedTree ==
  ASSUME NEW b, NEW c, NEW t, NEW list, NEW stmt, Tree(b), Changed(b, c, t, list, stmt)
  PROVE  /\ Tree(c)
         /\ \A i \in DOMAIN list : i \in DOMAIN b[t] /\ b[t][i] = list[i]
  <1>0. /\ b \in Seq(Seq(Records)) /\ c \in Seq(Seq(Records)) /\ DOMAIN b \subseteq DOMAIN c
        /\ t \in DOMAIN b /\ list \in Seq(Records) /\ stmt \in Records
    BY DEF Tree, Changed
  <1>1. /\ DOMAIN b = 1 .. Len(b) /\ Len(b) \in Nat /\ DOMAIN c = 1 .. Len(c) /\ Len(c) \in Nat
    BY <1>0, LenProperties
  <1> DEFINE n == Len(list)
  <1>2. n \in Nat /\ DOMAIN list = 1 .. n
    BY <1>0, LenProperties
  <1>3. /\ DOMAIN c[t] = 1 .. n + 1 /\ c[t][n + 1] = stmt
        /\ \A i \in 1 .. n : c[t][i] = list[i]
    <2>1. c[t] = Append(list, stmt)
      BY DEF Changed
    <2>2. /\ c[t] \in Seq(Records) /\ Len(c[t]) = n + 1 /\ c[t][n + 1] = stmt
          /\ \A i \in 1 .. n : c[t][i] = list[i]
      BY <1>0, <2>1, AppendProperties
    <2>. QED
      BY <2>2, LenProperties
  <1>4. \A i \in 1 .. n : i \in DOMAIN b[t] /\ b[t][i] = list[i]
    <2>1. CASE b[t] = list
      BY <1>2, <2>1
    <2>2. ASSUME NEW old \in Records, b[t] = Append(list, old)
          PROVE  \A i \in 1 .. n : i \in DOMAIN b[t] /\ b[t][i] = list[i]
      <3>1. /\ b[t] \in Seq(Records) /\ Len(b[t]) = n + 1 /\ \A i \in 1 .. n : b[t][i] = list[i]
        BY <1>0, <2>2, AppendProperties
      <3>2. DOMAIN b[t] = 1 .. n + 1
        BY <3>1, LenProperties
      <3>. QED
        BY <1>2, <3>1, <3>2
    <2>. QED
      BY <2>1, <2>2 DEF Changed
  <1>5. ASSUME NEW x \in DOMAIN c, NEW i \in DOMAIN c[x]
        PROVE  \/ x \in DOMAIN b /\ i \in DOMAIN b[x] /\ c[x][i] = b[x][i]
               \/ x = t /\ i = n + 1 /\ c[x][i] = stmt
    <2>1. CASE x \notin DOMAIN b
      <3>1. c[x] = <<>>
        BY <2>1 DEF Changed
      <3>. QED
        BY <1>5, <3>1
    <2>2. CASE x \in DOMAIN b /\ x # t
      BY <1>5, <2>2 DEF Changed
    <2>3. CASE x = t
      <3>1. i \in 1 .. n + 1
        BY <1>3, <1>5, <2>3
      <3>2. i = n + 1 \/ i \in 1 .. n
        BY <1>2, <3>1
      <3>. QED
        BY <1>0, <1>3, <1>4, <2>3, <3>2
    <2>. QED
      BY <2>1, <2>2, <2>3
  <1> DEFINE Kid(u, x, i) == u[x][i].child
  <1>6. stmt.child # 0 => stmt.child \in DOMAIN c /\ stmt.child \notin DOMAIN b /\ stmt.child > t
    <2> SUFFICES ASSUME stmt.child # 0
                 PROVE  stmt.child \in DOMAIN c /\ stmt.child \notin DOMAIN b /\ stmt.child > t
      OBVIOUS
    <2>1. stmt.child \in DOMAIN c /\ stmt.child \notin DOMAIN b
      BY DEF Changed
    <2>2. \A y \in DOMAIN c : y \notin DOMAIN b => y > t
      BY <1>0, <1>1
    <2>. QED
      BY <2>1, <2>2
  <1>7. /\ \A x \in DOMAIN b : \A i \in DOMAIN b[x] :
             b[x][i].child # 0 => b[x][i].child \in DOMAIN b /\ b[x][i].child > x
        /\ \A x, y \in DOMAIN b : \A i \in DOMAIN b[x], j \in DOMAIN b[y] :
             b[x][i].child = b[y][j].child /\ b[x][i].child # 0 => x = y /\ i = j
    BY DEF Tree
  <1> HIDE DEF n
  <1>8. ASSUME NEW x \in DOMAIN c, NEW i \in DOMAIN c[x], c[x][i].child # 0
        PROVE  c[x][i].child \in DOMAIN c /\ c[x][i].child > x
    BY <1>0, <1>5, <1>6, <1>7, <1>8
  <1>9. ASSUME NEW x \in DOMAIN c, NEW y \in DOMAIN c, NEW i \in DOMAIN c[x], NEW j \in DOMAIN c[y],
               c[x][i].child = c[y][j].child, c[x][i].child # 0
        PROVE  x = y /\ i = j
    BY <1>5, <1>6, <1>7, <1>9
  <1>. QED
    BY <1>0, <1>2, <1>4, <1>8, <1>9 DEF Tree

(* The text of blocks from which t cannot be reached is the same. *)
LEMMA Untouched ==
  ASSUME NEW b, NEW c, NEW t, NEW list, NEW stmt, Tree(b), Changed(b, c, t, list, stmt),
         NEW off \in SUBSET DOMAIN b, t \notin off,
         \A n \in off : \A i \in DOMAIN b[n] : b[n][i].child # 0 => b[n][i].child \in off
  PROVE  \A n \in off : SerialOf(c)[n] = SerialOf(b)[n]
  <1> DEFINE rank == [n \in off |-> Len(b) - n]
             P == {n \in off : SerialOf(c)[n] = SerialOf(b)[n]}
  <1>0. b \in Seq(Seq(Records)) /\ Len(b) \in Nat /\ DOMAIN b = 1 .. Len(b)
    BY LenProperties DEF Tree
  <1>1. rank \in [off -> Nat]
    BY <1>0
  <1>2. ASSUME NEW n \in off, \A m \in off : rank[m] < rank[n] => m \in P PROVE n \in P
    <2>1. n \in DOMAIN b /\ n \in DOMAIN c /\ c[n] = b[n] /\ b[n] \in Seq(Records)
      BY <1>0, ElementOfSeq DEF Changed
    <2>2. ASSUME NEW i \in DOMAIN b[n], b[n][i].child # 0
          PROVE  SerialOf(c)[b[n][i].child] = SerialOf(b)[b[n][i].child]
      <3> DEFINE m == b[n][i].child
      <3>1. m \in off /\ m > n
        BY <2>1, <2>2 DEF Tree
      <3> HIDE DEF m
      <3>2. rank[m] < rank[n]
        BY <1>0, <3>1
      <3>3. SerialOf(c)[m] = SerialOf(b)[m]
        BY <1>2, <3>1, <3>2
      <3>. QED
        BY <3>3 DEF m
    <2>3. Lines(SerialOf(c), b[n]) = Lines(SerialOf(b), b[n])
      BY <2>1, <2>2, LinesAgree
    <2>4. SerialOf(b)[n] = Lines(SerialOf(b), b[n]) /\ SerialOf(c)[n] = Lines(SerialOf(c), c[n])
      BY <2>1, ChangedTree, SerialOfIs
    <2>. QED
      BY <2>1, <2>3, <2>4
  <1>3. off \subseteq P
    <2> HIDE DEF rank, P
    <2>. QED
      BY <1>1, <1>2, RankInduction
  <1>. QED
    BY <1>3
-----------------------------------------------------------------------------
(***************************************************************************)
(* Only the last statement of a block on the stack has its block on the    *)
(* stack too.                                                              *)
(***************************************************************************)
Off == {n \in DOMAIN blocks : \A i \in DOMAIN config_stack : config_stack[i] # n}

LEMMA OffStack ==
  ASSUME Tree(blocks), Grows, Path, config_stack \in Seq(Nat)
  PROVE  /\ \A n \in Off : \A i \in DOMAIN blocks[n] :
              blocks[n][i].child # 0 => blocks[n][i].child \in Off
         /\ \A k \in DOMAIN config_stack : \A i \in DOMAIN blocks[config_stack[k]] :
              /\ blocks[config_stack[k]][i].child # 0
              /\ k = Len(config_stack) \/ i # Len(blocks[config_stack[k]])
              => blocks[config_stack[k]][i].child \in Off
  <1>0. /\ blocks \in Seq(Seq(Records)) /\ DOMAIN blocks = 1 .. Len(blocks) /\ Len(blocks) \in Nat
        /\ DOMAIN config_stack = 1 .. Len(config_stack) /\ Len(config_stack) \in Nat
    BY LenProperties DEF Tree
  <1>1. ASSUME NEW n \in DOMAIN blocks, NEW i \in DOMAIN blocks[n], blocks[n][i].child # 0,
               NEW j \in DOMAIN config_stack, config_stack[j] = blocks[n][i].child
        PROVE  j - 1 \in DOMAIN config_stack /\ n = config_stack[j - 1] /\ i = Len(blocks[n])
    <2>1. j # 1
      <3> SUFFICES ASSUME j = 1 PROVE FALSE
        OBVIOUS
      <3>1. config_stack[1] = 1
        BY DEF Path
      <3>2. blocks[n][i].child > n /\ blocks[n][i].child = 1
        BY <1>1, <3>1 DEF Tree
      <3>. QED
        BY <1>0, <3>2
    <2>2. j - 1 \in DOMAIN config_stack
      BY <1>0, <2>1
    <2> DEFINE m == config_stack[j - 1]
    <2>3. blocks[m] # <<>> /\ blocks[m][Len(blocks[m])].child = config_stack[j] /\ m \in DOMAIN blocks
      BY <2>1, <2>2 DEF Path, Grows, LastStatement
    <2> HIDE DEF m
    <2>4. blocks[m] \in Seq(Records)
      BY <1>0, <2>3, ElementOfSeq
    <2>5. Len(blocks[m]) \in DOMAIN blocks[m]
      BY <2>3, <2>4, EmptySeq, LenProperties
    <2>6. n = m /\ i = Len(blocks[m])
      BY <1>1, <2>3, <2>5 DEF Tree
    <2>. QED
      BY <2>2, <2>6 DEF m
  <1>2. ASSUME NEW n \in DOMAIN blocks, NEW i \in DOMAIN blocks[n], blocks[n][i].child # 0
        PROVE  blocks[n][i].child \in DOMAIN blocks
    BY <1>2 DEF Tree
  <1>3. ASSUME NEW n \in Off, NEW i \in DOMAIN blocks[n], blocks[n][i].child # 0
        PROVE  blocks[n][i].child \in Off
    <2>1. n \in DOMAIN blocks /\ \A k \in DOMAIN config_stack : config_stack[k] # n
      BY DEF Off
    <2>2. ASSUME NEW j \in DOMAIN config_stack, config_stack[j] = blocks[n][i].child PROVE FALSE
      <3>1. j - 1 \in DOMAIN config_stack /\ n = config_stack[j - 1]
        BY <1>1, <1>3, <2>1, <2>2
      <3>. QED
        BY <2>1, <3>1
    <2>. QED
      BY <1>2, <1>3, <2>1, <2>2 DEF Off
  <1>4. ASSUME NEW k \in DOMAIN config_stack, NEW i \in DOMAIN blocks[config_stack[k]],
               blocks[config_stack[k]][i].child # 0,
               k = Len(config_stack) \/ i # Len(blocks[config_stack[k]])
        PROVE  blocks[config_stack[k]][i].child \in Off
    <2> DEFINE n == config_stack[k]
    <2>1. n \in DOMAIN blocks
      BY DEF Grows
    <2>2. ASSUME NEW j \in DOMAIN config_stack, config_stack[j] = blocks[n][i].child PROVE FALSE
      <3>1. j - 1 \in DOMAIN config_stack /\ config_stack[k] = config_stack[j - 1] /\ i = Len(blocks[n])
        BY <1>1, <1>4, <2>1, <2>2
      <3>2. k = j - 1
        <4>1. k < j - 1 \/ j - 1 < k \/ k = j - 1
          BY <1>0, <3>1
        <4>2. config_stack[k] \in Nat /\ config_stack[j - 1] \in Nat
          BY <1>0, <3>1, ElementOfSeq
        <4>3. k < j - 1 => config_stack[k] < config_stack[j - 1]
          BY <3>1 DEF Grows
        <4>4. j - 1 < k => config_stack[j - 1] < config_stack[k]
          BY <3>1 DEF Grows
        <4>. QED
          BY <3>1, <4>1, <4>2, <4>3, <4>4
      <3>. QED
        BY <1>0, <1>4, <3>1, <3>2
    <2>. QED
      BY <1>2, <1>4, <2>1, <2>2 DEF Off
  <1>. QED
    BY <1>3, <1>4

-----------------------------------------------------------------------------
(***************************************************************************)
(* The text of a block whose last statement is still open, and how the     *)
(* file Parse has read follows from the open blocks: before[i] is what     *)
(* comes before the statements of the block at place i of the stack.       *)
(***************************************************************************)
Opened(b, n) == Lines(SerialOf(b), Front(b[n])) \o Words(b[n][Len(b[n])])

ReadAs(before, b, stack, last, f) ==
  /\ before \in [1 .. Len(stack) -> Seq(Tokens)] /\ before[1] = <<>>
  /\ \A i \in 1 .. Len(stack) - 1 :
       before[i + 1] = (before[i] \o Opened(b, stack[i])) \o Written(<<"{">>)
  /\ f = before[Len(stack)] \o (IF last = "NORMAL" THEN Opened(b, stack[Len(stack)])
                                                   ELSE SerialOf(b)[stack[Len(stack)]])

Going == /\ ParseTypeOK /\ Shape /\ Tree(blocks) /\ config_stack # <<>>
         /\ file \in Seq(Tokens)

(* Of a change to the block on top, the blocks below it and the other      *)
(* statements of the top one show nothing.                                 *)
LEMMA Kept ==
  ASSUME Going, NEW c, NEW list, NEW stmt, Changed(blocks, c, Top, list, stmt)
  PROVE  /\ \A k \in 1 .. Len(config_stack) - 1 :
              Opened(c, config_stack[k]) = Opened(blocks, config_stack[k])
         /\ Lines(SerialOf(blocks), list) \in Seq(Tokens)
         /\ Opened(c, Top) = Lines(SerialOf(blocks), list) \o Words(stmt)
  <1> DEFINE n == Len(config_stack)
             S == SerialOf(blocks)
             T == SerialOf(c)
  <1>0. /\ n \in Nat \ {0} /\ DOMAIN config_stack = 1 .. n /\ Top \in DOMAIN blocks
        /\ config_stack \in Seq(Nat) /\ blocks \in Seq(Seq(Records))
        /\ \A i \in 1 .. n - 1 : config_stack[i] \in DOMAIN blocks /\ config_stack[i] < Top
    <2>1. /\ n \in Nat \ {0} /\ DOMAIN config_stack = 1 .. n /\ Top \in DOMAIN blocks
          /\ \A i \in DOMAIN config_stack : i < n => config_stack[i] < Top
      BY TopProperties DEF Going, Shape
    <2>2. \A i \in 1 .. n - 1 : i \in 1 .. n /\ i < n
      BY <2>1
    <2>. QED
      BY <2>1, <2>2 DEF Going, ParseTypeOK, Shape, Grows
  <1>8. list \in Seq(Records) /\ stmt \in Records /\ c[Top] = Append(list, stmt)
    BY DEF Changed
  <1>9. \A i \in DOMAIN list : i \in DOMAIN blocks[Top] /\ blocks[Top][i] = list[i]
    BY ChangedTree DEF Going
  <1>1. /\ \A m \in Off : \A i \in DOMAIN blocks[m] :
             blocks[m][i].child # 0 => blocks[m][i].child \in Off
        /\ \A k \in DOMAIN config_stack : \A i \in DOMAIN blocks[config_stack[k]] :
             /\ blocks[config_stack[k]][i].child # 0
             /\ k = Len(config_stack) \/ i # Len(blocks[config_stack[k]])
             => blocks[config_stack[k]][i].child \in Off
    BY <1>0, OffStack DEF Going, Shape
  <1>2. \A m \in Off : T[m] = S[m] /\ m \in DOMAIN blocks
    <2>1. Off \in SUBSET DOMAIN blocks /\ Top \notin Off
      <3>1. n \in DOMAIN config_stack /\ Top = config_stack[n]
        BY <1>0 DEF Top
      <3>. QED
        BY <3>1 DEF Off
    <2>2. Tree(blocks)
      BY DEF Going
    <2>3. \A m \in Off : T[m] = S[m]
      BY <1>1, <2>1, <2>2, Untouched
    <2>. QED
      BY <2>1, <2>3
  <1> HIDE DEF S, T
  <1>3. ASSUME NEW k \in 1 .. n - 1
        PROVE  Opened(c, config_stack[k]) = Opened(blocks, config_stack[k])
    <2> DEFINE m == config_stack[k]
               stmts == blocks[m]
    <2>1. m \in DOMAIN blocks /\ m # Top /\ k \in DOMAIN config_stack /\ k + 1 \in DOMAIN config_stack
      <3>1. m \in DOMAIN blocks /\ m < Top /\ m \in Nat /\ Top \in Nat
        <4>1. k \in 1 .. n /\ n \in 1 .. n
          BY <1>0
        <4>. QED
          BY <1>0, <4>1, ElementOfSeq DEF Top
      <3>2. m # Top
        BY <3>1
      <3>3. k \in 1 .. n /\ k + 1 \in 1 .. n
        BY <1>0
      <3>. QED
        BY <1>0, <3>1, <3>2, <3>3
    <2>2. c[m] = stmts
      BY <2>1 DEF Changed
    <2>3. stmts \in Seq(Records) /\ stmts # <<>>
      <3>1. stmts \in Seq(Records)
        BY <1>0, <2>1, ElementOfSeq, LenProperties
      <3>2. k + 1 # 1 /\ (k + 1) - 1 = k
        BY <1>0
      <3>3. blocks[config_stack[(k + 1) - 1]] # <<>>
        BY <2>1, <3>2 DEF Going, Shape, Path
      <3>. QED
        BY <3>1, <3>2, <3>3
    <2> DEFINE front == Front(stmts)
    <2>4. /\ front \in Seq(Records) /\ Len(front) = Len(stmts) - 1
          /\ stmts = Append(front, stmts[Len(stmts)]) /\ stmts[Len(stmts)] \in Records
      BY <2>3, FrontAndLast
    <2> HIDE DEF front, stmts, m
    <2>5. /\ Len(stmts) \in Nat /\ DOMAIN stmts = 1 .. Len(stmts) /\ DOMAIN front = 1 .. Len(stmts) - 1
          /\ \A i \in 1 .. Len(stmts) - 1 : front[i] = stmts[i]
      <3>1. \A i \in 1 .. Len(front) : Append(front, stmts[Len(stmts)])[i] = front[i]
        BY <2>4, AppendProperties
      <3>. QED
        BY <2>3, <2>4, <3>1, LenProperties
    <2>6. ASSUME NEW i \in DOMAIN front, front[i].child # 0
          PROVE  T[front[i].child] = S[front[i].child]
      <3>1. i \in DOMAIN stmts /\ i # Len(stmts) /\ front[i] = stmts[i]
        BY <2>5
      <3>2. front[i].child \in Off
        BY <1>1, <2>1, <2>6, <3>1 DEF m, stmts
      <3>. QED
        BY <1>2, <3>2
    <2>7. Lines(T, front) = Lines(S, front)
      BY <2>4, <2>6, LinesAgree
    <2>8. Opened(c, m) = Lines(T, front) \o Words(stmts[Len(stmts)])
      BY <2>2 DEF Opened, front, T
    <2>9. Opened(blocks, m) = Lines(S, front) \o Words(stmts[Len(stmts)])
      BY DEF Opened, front, S, stmts
    <2>. QED
      BY <2>7, <2>8, <2>9 DEF m
  <1>4. ASSUME NEW i \in DOMAIN list, list[i].child # 0 PROVE list[i].child \in Off
    <2>1. n \in DOMAIN config_stack /\ config_stack[n] = Top
      BY <1>0 DEF Top
    <2>. QED
      BY <1>1, <1>4, <1>9, <2>1
  <1>5. Lines(T, list) = Lines(S, list)
    BY <1>2, <1>4, <1>8, LinesAgree
  <1>6. Lines(S, list) \in Seq(Tokens)
    <2>1. S \in [DOMAIN blocks -> Seq(Tokens)]
      BY SerialOfIs DEF Going, S
    <2>2. HasText(S, list)
      BY <1>2, <1>4, <2>1 DEF HasText
    <2>. QED
      BY <1>8, <2>2, LinesType
  <1>7. Opened(c, Top) = Lines(T, list) \o Words(stmt)
    <2>1. /\ Append(list, stmt)[Len(Append(list, stmt))] = stmt
          /\ Front(Append(list, stmt)) = list
      BY <1>8, ChangeLast
    <2>. QED
      BY <1>8, <2>1 DEF Opened, T
  <1>. QED
    BY <1>3, <1>5, <1>6, <1>7 DEF S
-----------------------------------------------------------------------------
(***************************************************************************)
(* Concatenation, by a name that the provers do not expand.                *)
(***************************************************************************)
Cat(p, q) == p \o q

LEMMA CatIs ==
  \A p, q \in Seq(Tokens) : Cat(p, q) = p \o q /\ Cat(p, q) \in Seq(Tokens)
  BY ConcatProperties DEF Cat

LEMMA CatAssociative ==
  \A p, q, r \in Seq(Tokens) : Cat(Cat(p, q), r) = Cat(p, Cat(q, r))
  <1> SUFFICES ASSUME NEW p \in Seq(Tokens), NEW q \in Seq(Tokens), NEW r \in Seq(Tokens)
               PROVE  Cat(Cat(p, q), r) = Cat(p, Cat(q, r))
    OBVIOUS
  <1>. QED
    BY ConcatAssociative DEF Cat

LEMMA Regroup ==
  ASSUME NEW a \in Seq(Tokens), NEW x \in Seq(Tokens), NEW y \in Seq(Tokens), NEW o \in Seq(Tokens)
  PROVE  /\ Cat(Cat(a, Cat(x, y)), o) = Cat(a, Cat(x, Cat(y, o)))
         /\ Cat(a, Cat(x, y)) \in Seq(Tokens)
  <1>1. Cat(x, y) \in Seq(Tokens) /\ Cat(a, Cat(x, y)) \in Seq(Tokens)
    BY CatIs
  <1>2. Cat(Cat(a, Cat(x, y)), o) = Cat(a, Cat(Cat(x, y), o))
    BY <1>1, CatAssociative
  <1>3. Cat(Cat(x, y), o) = Cat(x, Cat(y, o))
    BY CatAssociative
  <1>. QED
    BY <1>1, <1>2, <1>3

LEMMA Counting ==
  \A n \in Nat \ {0} :
    /\ n \in 1 .. n /\ 1 \in 1 .. n /\ (n + 1) - 1 = n /\ n + 1 \in 1 .. n + 1
    /\ \A i \in 1 .. n + 1 : i = n + 1 \/ i \in 1 .. n
    /\ \A i \in 1 .. n : i \in 1 .. n + 1 /\ i # n + 1
    /\ \A i \in 1 .. n : i # n => i \in 1 .. n - 1 /\ i + 1 \in 1 .. n
  OBVIOUS

LEMMA OneBlockMore ==
  \A l \in Nat : /\ l + 1 \in Nat /\ 1 .. l \subseteq 1 .. l + 1
                /\ l + 1 \notin 1 .. l /\ l + 1 \in 1 .. l + 1
                /\ \A m \in 1 .. l + 1 : m \notin 1 .. l => m = l + 1
  OBVIOUS

LEMMA OneBlockChanged ==
  \A b \in Seq(Seq(Records)), new \in Seq(Records) : \A k \in 1 .. Len(b) :
    /\ [b EXCEPT ![k] = new] \in Seq(Seq(Records)) /\ Len([b EXCEPT ![k] = new]) = Len(b)
    /\ \A m \in 1 .. Len(b) : [b EXCEPT ![k] = new][m] = IF m = k THEN new ELSE b[m]
  BY ExceptSeq

LEMMA NoLines == \A ser : Lines(ser, <<>>) = <<>>
  <1>1. \A ser : LineTexts(ser, <<>>) = <<>>
    BY SMT DEF LineTexts
  <1>. QED
    BY <1>1, FlattenEmpty DEF Lines

(***************************************************************************)
(* While Parse runs and its stack is not empty, what it has read is the    *)
(* text of the open blocks up to where it stands.  This says of every      *)
(* block what RoundTrip says of the file at the end.                       *)
(***************************************************************************)
Reads == \E before : ReadAs(before, blocks, config_stack, last_token_type, file)

(* The steps of Parse that read a token, by name. *)
Opening == last_token_type = "NORMAL" /\ StartBlock
Reading(type) == file' = Append(file, Token(type))
Ended == last_token_type = "NORMAL" /\ last_token_type' = "STATEMENT_END" /\ UNCHANGED <<blocks, config_stack>>

RoundInv ==
  /\ result = "none" /\ ~ub /\ config_stack # <<>> => Tree(blocks) /\ Reads
  /\ RoundTrip

LEMMA GoingFacts ==
  ASSUME Going
  PROVE  /\ Len(config_stack) \in Nat \ {0} /\ DOMAIN config_stack = 1 .. Len(config_stack)
         /\ Top \in DOMAIN blocks /\ Top = config_stack[Len(config_stack)]
         /\ blocks[Top] \in Seq(Records) /\ blocks \in Seq(Seq(Records))
         /\ DOMAIN blocks = 1 .. Len(blocks) /\ Len(blocks) \in Nat
         /\ Len(file) \in Nat
         /\ SerialOf(blocks) \in [DOMAIN blocks -> Seq(Tokens)]
         /\ SerialOf(blocks)[Top] = Lines(SerialOf(blocks), blocks[Top])
         /\ HasText(SerialOf(blocks), blocks[Top])
  <1>1. /\ Len(config_stack) \in Nat \ {0} /\ DOMAIN config_stack = 1 .. Len(config_stack)
        /\ Top \in DOMAIN blocks /\ blocks[Top] \in Seq(Records)
    BY TopProperties DEF Going, Shape
  <1>2. blocks \in Seq(Seq(Records)) /\ file \in Seq(Tokens) /\ Tree(blocks)
    BY DEF Going, ParseTypeOK
  <1>. QED
    BY <1>1, <1>2, LenProperties, SerialOfIs DEF Top

(* The statement that is open after a word, and what is before it. *)
LEMMA PendingFacts ==
  ASSUME Going, last_token_type = "NORMAL"
  PROVE  \E front \in Seq(Records), stmt \in Records :
           /\ blocks[Top] = Append(front, stmt) /\ blocks[Top] # <<>>
           /\ stmt = blocks[Top][Len(blocks[Top])] /\ front = Front(blocks[Top])
           /\ stmt.child = 0
           /\ Lines(SerialOf(blocks), front) \in Seq(Tokens) /\ Words(stmt) \in Seq(Tokens)
           /\ Opened(blocks, Top) = Lines(SerialOf(blocks), front) \o Words(stmt)
           /\ SerialOf(blocks)[Top] = Lines(SerialOf(blocks), front) \o LineText(SerialOf(blocks), stmt)
  <1> DEFINE list == blocks[Top]
             front == Front(list)
             stmt == list[Len(list)]
             S == SerialOf(blocks)
  <1>1. list \in Seq(Records) /\ HasText(S, list) /\ S[Top] = Lines(S, list)
    BY GoingFacts
  <1>2. list # <<>> /\ stmt.child = 0
    BY DEF Going, Shape, Pending, LastStatement
  <1>3. /\ front \in Seq(Records) /\ stmt \in Records /\ list = Append(front, stmt)
        /\ Len(front) = Len(list) - 1
    BY <1>1, <1>2, FrontAndLast
  <1> HIDE DEF front, stmt, list, S
  <1>4. HasText(S, front)
    <2>1. /\ Len(list) \in Nat /\ DOMAIN list = 1 .. Len(list) /\ DOMAIN front = 1 .. Len(list) - 1
          /\ \A i \in 1 .. Len(front) : list[i] = front[i]
      BY <1>1, <1>3, AppendProperties, LenProperties
    <2>. QED
      BY <1>1, <1>3, <2>1 DEF HasText
  <1>5. Lines(S, front) \in Seq(Tokens) /\ Words(stmt) \in Seq(Tokens)
    BY <1>3, <1>4, LinesType, WordsType
  <1>6. S[Top] = Lines(S, front) \o LineText(S, stmt)
    BY <1>1, <1>2, <1>3, <1>4, LinesAppend
  <1>7. Opened(blocks, Top) = Lines(S, front) \o Words(stmt)
    BY DEF Opened, S, front, stmt, list
  <1>. QED
    BY <1>2, <1>3, <1>5, <1>6, <1>7 DEF S, front, stmt, list

-----------------------------------------------------------------------------
LEMMA NormalReads ==
  ASSUME Going, Reads, Normal, Reading("NORMAL")
  PROVE  Tree(blocks') /\ Reads'
  <1> DEFINE n == Len(config_stack)
             w == Len(file) + 1
             S == SerialOf(blocks)
             tok == [type |-> "NORMAL", word |-> w]
  <1>1. config_stack # <<>>
    BY DEF Going
  <1>2. /\ n \in Nat \ {0} /\ Top \in DOMAIN blocks /\ Top = config_stack[n]
        /\ blocks[Top] \in Seq(Records) /\ blocks \in Seq(Seq(Records))
        /\ DOMAIN blocks = 1 .. Len(blocks) /\ Len(blocks) \in Nat
        /\ w \in Nat /\ S[Top] = Lines(S, blocks[Top]) /\ HasText(S, blocks[Top])
    BY GoingFacts
  <1>3. PICK before : ReadAs(before, blocks, config_stack, last_token_type, file)
    BY DEF Reads
  <1>4. /\ before \in [1 .. n -> Seq(Tokens)] /\ before[1] = <<>>
        /\ \A i \in 1 .. n - 1 :
             before[i + 1] = (before[i] \o Opened(blocks, config_stack[i])) \o Written(<<"{">>)
        /\ file = before[n] \o (IF last_token_type = "NORMAL" THEN Opened(blocks, Top) ELSE S[Top])
    BY <1>2, <1>3 DEF ReadAs
  <1>5. \E front \in Seq(Records), old \in Records :
          /\ old.child = 0
          /\ blocks[Top] = front \/ blocks[Top] = Append(front, old)
          /\ Lines(S, front) \in Seq(Tokens) /\ Words(old) \in Seq(Tokens)
          /\ file = before[n] \o (Lines(S, front) \o Words(old))
          /\ (IF last_token_type = "NORMAL" THEN blocks[Top] ELSE Append(blocks[Top], NewStatement))
               = Append(front, old)
    <2>1. CASE last_token_type = "NORMAL"
      <3>1. PICK front \in Seq(Records), old \in Records :
              /\ blocks[Top] = Append(front, old) /\ old.child = 0
              /\ Lines(S, front) \in Seq(Tokens) /\ Words(old) \in Seq(Tokens)
              /\ Opened(blocks, Top) = Lines(S, front) \o Words(old)
        BY <2>1, PendingFacts
      <3>. QED
        BY <1>4, <2>1, <3>1
    <2>2. CASE last_token_type # "NORMAL"
      <3>1. NewStatement \in Records /\ NewStatement.child = 0
        BY DEF NewStatement, Records
      <3>2. Words(NewStatement) = <<>>
        BY DEF Words, NewStatement
      <3>3. Lines(S, blocks[Top]) \in Seq(Tokens)
        BY <1>2, LinesType
      <3>4. Lines(S, blocks[Top]) \o Words(NewStatement) = Lines(S, blocks[Top])
        BY <3>2, <3>3, ConcatEmptySeq
      <3>5. Words(NewStatement) \in Seq(Tokens)
        BY <3>2, EmptySeq
      <3>6. file = before[n] \o (Lines(S, blocks[Top]) \o Words(NewStatement))
        BY <1>2, <1>4, <2>2, <3>4
      <3>7. (IF last_token_type = "NORMAL" THEN blocks[Top] ELSE Append(blocks[Top], NewStatement))
               = Append(blocks[Top], NewStatement)
        BY <2>2
      <3>. QED
        BY <1>2, <3>1, <3>3, <3>5, <3>6, <3>7
    <2>. QED
      BY <2>1, <2>2
  <1>6. PICK front \in Seq(Records), old \in Records :
          /\ old.child = 0
          /\ blocks[Top] = front \/ blocks[Top] = Append(front, old)
          /\ Lines(S, front) \in Seq(Tokens) /\ Words(old) \in Seq(Tokens)
          /\ file = before[n] \o (Lines(S, front) \o Words(old))
          /\ (IF last_token_type = "NORMAL" THEN blocks[Top] ELSE Append(blocks[Top], NewStatement))
               = Append(front, old)
    BY <1>5
  <1> DEFINE list == Append(front, old)
             stmt == [old EXCEPT !.tokens = Append(@, w)]
             new == Append(front, stmt)
  <1>7. /\ stmt \in Records /\ stmt.child = 0 /\ Words(stmt) = Append(Words(old), tok)
    BY <1>2, <1>6, OneWordMore
  <1>8. list[Len(list)] = old
    BY ChangeLast
  <1>9. /\ blocks' = [blocks EXCEPT ![Top] = [list EXCEPT ![Len(list)] =
                                 [list[Len(list)] EXCEPT !.tokens = Append(@, w)]]]
        /\ last_token_type' = "NORMAL" /\ config_stack' = config_stack
    BY <1>1, <1>6 DEF Normal
  <1> HIDE DEF list, stmt, tok, w, S
  <1>10. [list EXCEPT ![Len(list)] = stmt] = new
    BY <1>7, ChangeLast DEF list
  <1>11. blocks' = [blocks EXCEPT ![Top] = new]
    BY <1>8, <1>9, <1>10 DEF stmt
  <1>12. new \in Seq(Records)
    BY <1>7, AppendProperties
  <1>13. Changed(blocks, blocks', Top, front, stmt)
    <2>1. /\ blocks' \in Seq(Seq(Records)) /\ Len(blocks') = Len(blocks)
          /\ \A m \in 1 .. Len(blocks) : blocks'[m] = IF m = Top THEN new ELSE blocks[m]
      BY <1>2, <1>11, <1>12, ExceptSeq
    <2>2. DOMAIN blocks' = DOMAIN blocks
      BY <1>2, <2>1, LenProperties
    <2> HIDE DEF new
    <2>3. \A m \in DOMAIN blocks : blocks'[m] = IF m = Top THEN new ELSE blocks[m]
      BY <1>2, <2>1
    <2>4. blocks'[Top] = Append(front, stmt)
      BY <1>2, <2>3 DEF new
    <2>. QED
      BY <1>2, <1>6, <1>7, <2>1, <2>2, <2>3, <2>4, Zenon DEF Changed
  <1>14. Tree(blocks')
    BY <1>13, ChangedTree DEF Going
  <1>15. /\ \A k \in 1 .. n - 1 : Opened(blocks', config_stack[k]) = Opened(blocks, config_stack[k])
         /\ Opened(blocks', Top) = Lines(S, front) \o Words(stmt)
    BY <1>13, Kept DEF S
  <1>16. file' = before[n] \o Opened(blocks', Top)
    <2> DEFINE a == before[n]
               x == Lines(S, front)
               y == Words(old)
    <2>1. a \in Seq(Tokens) /\ x \in Seq(Tokens) /\ y \in Seq(Tokens) /\ tok \in Tokens
      <3>1. n \in 1 .. n
        BY <1>2
      <3>2. tok \in Tokens
        BY <1>2 DEF tok, Tokens, TokenTypes
      <3>. QED
        BY <1>4, <1>6, <3>1, <3>2
    <2>2. file' = Append(file, tok) /\ file = a \o (x \o y)
      BY <1>6 DEF Token, tok, w, Reading
    <2>3. Opened(blocks', Top) = x \o Append(y, tok)
      BY <1>7, <1>15
    <2> HIDE DEF a, x, y
    <2> DEFINE o == <<tok>>
    <2>4. o \in Seq(Tokens) /\ Append(y, tok) = y \o o
      BY <2>1, AppendIsConcat
    <2>5. file' = file \o o
      BY <2>1, <2>2, AppendIsConcat DEF Going
    <2> HIDE DEF o
    <2>6. Cat(Cat(a, Cat(x, y)), o) = Cat(a, Cat(x, Cat(y, o)))
      BY <2>1, <2>4, Regroup
    <2>7. file' = Cat(Cat(a, Cat(x, y)), o)
      BY <2>2, <2>5, Zenon DEF Cat
    <2>8. file' = a \o (x \o (y \o o))
      BY <2>6, <2>7, Zenon DEF Cat
    <2>. QED
      BY <2>3, <2>4, <2>8 DEF a
  <1>17. ReadAs(before, blocks', config_stack', last_token_type', file')
    BY <1>2, <1>4, <1>9, <1>15, <1>16 DEF ReadAs
  <1>. QED
    BY <1>14, <1>17 DEF Reads
-----------------------------------------------------------------------------
LEMMA StatementReads ==
  ASSUME Going, Reads, Ended, Reading(";")
  PROVE  Tree(blocks') /\ Reads'
  <1> DEFINE n == Len(config_stack)
             S == SerialOf(blocks)
             tok == [type |-> ";", word |-> 0]
  <1>1. n \in Nat \ {0} /\ Top = config_stack[n] /\ Tree(blocks)
    BY GoingFacts DEF Going
  <1>9. n \in 1 .. n
    BY <1>1, Counting, Zenon
  <1>2. PICK before : ReadAs(before, blocks, config_stack, last_token_type, file)
    BY DEF Reads
  <1>3. /\ before \in [1 .. n -> Seq(Tokens)] /\ before[1] = <<>>
        /\ \A i \in 1 .. n - 1 :
             before[i + 1] = (before[i] \o Opened(blocks, config_stack[i])) \o Written(<<"{">>)
        /\ file = before[n] \o Opened(blocks, Top)
    BY <1>1, <1>2 DEF ReadAs, Ended
  <1>4. PICK front \in Seq(Records), stmt \in Records :
          /\ stmt.child = 0
          /\ Lines(S, front) \in Seq(Tokens) /\ Words(stmt) \in Seq(Tokens)
          /\ Opened(blocks, Top) = Lines(S, front) \o Words(stmt)
          /\ S[Top] = Lines(S, front) \o LineText(S, stmt)
    BY PendingFacts DEF Ended
  <1>5. Written(<<";">>) = <<tok>> /\ <<tok>> \in Seq(Tokens) /\ tok \in Tokens
    <2>1. ";" \in TokenTypes
      BY DEF TokenTypes, Symbols
    <2>2. tok \in Tokens
      BY <2>1 DEF Tokens
    <2>. QED
      BY <2>1, <2>2, TextOfTypes
  <1>6. LineText(S, stmt) = Words(stmt) \o <<tok>>
    BY <1>4, <1>5, Zenon DEF LineText
  <1>7. file' = before[n] \o S[Top]
    <2> DEFINE a == before[n]
               x == Lines(S, front)
               y == Words(stmt)
               o == <<tok>>
    <2>1. a \in Seq(Tokens) /\ x \in Seq(Tokens) /\ y \in Seq(Tokens) /\ o \in Seq(Tokens)
      <3>1. n \in 1 .. n
        BY <1>9
      <3>. QED
        BY <1>3, <1>4, <1>5, <3>1
    <2>2. file' = Append(file, tok) /\ file = a \o (x \o y) /\ S[Top] = x \o (y \o o)
      BY <1>3, <1>4, <1>6 DEF Token, Reading
    <2> HIDE DEF a, x, y, o, tok, S
    <2>3. file' = file \o o
      BY <1>5, <2>2, AppendIsConcat DEF o, Going
    <2>7. \A p, q, r \in Seq(Tokens) : Cat(Cat(p, q), r) = Cat(p, Cat(q, r)) /\ Cat(p, q) \in Seq(Tokens)
      BY CatAssociative, CatIs, Zenon
    <2>8. Cat(x, y) \in Seq(Tokens) /\ Cat(Cat(x, y), o) = Cat(x, Cat(y, o))
      <3> DEFINE T == Seq(Tokens)
      <3>1. x \in T /\ y \in T /\ o \in T
        BY <2>1
      <3>2. \A p, q, r \in T : Cat(Cat(p, q), r) = Cat(p, Cat(q, r)) /\ Cat(p, q) \in T
        BY <2>7
      <3> HIDE DEF T
      <3>3. Cat(Cat(x, y), o) = Cat(x, Cat(y, o))
        BY <3>1, <3>2
      <3>4. Cat(x, y) \in T
        BY <3>1, <3>2
      <3>. QED
        BY <3>3, <3>4 DEF T
    <2>4. Cat(Cat(a, Cat(x, y)), o) = Cat(a, Cat(x, Cat(y, o)))
      <3>0. Cat(x, y) \in Seq(Tokens)
        BY <2>8
      <3>1. Cat(Cat(a, Cat(x, y)), o) = Cat(a, Cat(Cat(x, y), o))
        <4>1. a \in Seq(Tokens) /\ o \in Seq(Tokens)
          BY <2>1
        <4>. QED
          BY <3>0, <4>1, CatAssociative, Zenon
      <3>. QED
        BY <2>8, <3>1, Zenon
    <2>5. file' = Cat(Cat(a, Cat(x, y)), o)
      BY <2>2, <2>3, Zenon DEF Cat
    <2>6. file' = a \o (x \o (y \o o))
      BY <2>4, <2>5, Zenon DEF Cat
    <2>. QED
      BY <2>2, <2>6 DEF a
  <1>8. ReadAs(before, blocks, config_stack, last_token_type', file')
    BY <1>1, <1>3, <1>7 DEF ReadAs, Ended
  <1>. QED
    BY <1>1, <1>8 DEF Reads, Ended

LEMMA StartReads ==
  ASSUME Going, Reads, Opening, Reading("{")
  PROVE  Tree(blocks') /\ Reads'
  <1> DEFINE n == Len(config_stack)
             S == SerialOf(blocks)
             tok == [type |-> "{", word |-> 0]
             new_config == Len(blocks) + 1
  <1>1. /\ n \in Nat \ {0} /\ Top \in DOMAIN blocks /\ Top = config_stack[n]
        /\ blocks[Top] \in Seq(Records) /\ blocks \in Seq(Seq(Records))
        /\ DOMAIN blocks = 1 .. Len(blocks) /\ Len(blocks) \in Nat
        /\ Tree(blocks) /\ config_stack \in Seq(Nat)
    BY GoingFacts DEF Going, ParseTypeOK
  <1>27. /\ n \in 1 .. n /\ 1 \in 1 .. n /\ (n + 1) - 1 = n /\ n + 1 \in 1 .. n + 1
         /\ \A i \in 1 .. n + 1 : i = n + 1 \/ i \in 1 .. n
         /\ \A i \in 1 .. n : i \in 1 .. n + 1 /\ i # n + 1
         /\ \A i \in 1 .. n : i # n => i \in 1 .. n - 1 /\ i + 1 \in 1 .. n
    BY <1>1, Counting, Zenon
  <1>28. /\ new_config \in Nat /\ 1 .. Len(blocks) \subseteq 1 .. new_config
         /\ new_config \notin 1 .. Len(blocks) /\ new_config \in 1 .. new_config
         /\ \A m \in 1 .. new_config : m \notin 1 .. Len(blocks) => m = new_config
    BY <1>1, OneBlockMore, Zenon
  <1>2. PICK before : ReadAs(before, blocks, config_stack, last_token_type, file)
    BY DEF Reads
  <1>3. /\ before \in [1 .. n -> Seq(Tokens)] /\ before[1] = <<>>
        /\ \A i \in 1 .. n - 1 :
             before[i + 1] = (before[i] \o Opened(blocks, config_stack[i])) \o Written(<<"{">>)
        /\ file = before[n] \o Opened(blocks, Top)
    BY <1>1, <1>2 DEF ReadAs, Opening
  <1>4. PICK front \in Seq(Records), old \in Records :
          /\ blocks[Top] = Append(front, old)
          /\ old = blocks[Top][Len(blocks[Top])] /\ old.child = 0
          /\ Lines(S, front) \in Seq(Tokens) /\ Words(old) \in Seq(Tokens)
          /\ Opened(blocks, Top) = Lines(S, front) \o Words(old)
    BY PendingFacts DEF Opening
  <1> DEFINE list == blocks[Top]
             stmt == [old EXCEPT !.child = new_config]
             new == Append(front, stmt)
             filled == [blocks EXCEPT ![Top] = new]
  <1>5. stmt \in Records /\ stmt.child = new_config /\ Words(stmt) = Words(old)
    <2>1. stmt \in Records /\ stmt.child = new_config /\ stmt.tokens = old.tokens
      <3>1. new_config \in Nat
        BY <1>28
      <3> HIDE DEF new_config
      <3>. QED
        BY <3>1 DEF Records
    <2>. QED
      BY <2>1 DEF Words
  <1>6. /\ blocks' = Append([blocks EXCEPT ![Top] = [list EXCEPT ![Len(list)] =
                                 [list[Len(list)] EXCEPT !.child = new_config]]], <<>>)
        /\ config_stack' = Append(config_stack, new_config)
        /\ last_token_type' = "START_BLOCK"
    BY DEF StartBlock, Opening
  <1>7. new_config \in Nat
    BY <1>28
  <1> HIDE DEF stmt, tok, S
  <1>8. [list EXCEPT ![Len(list)] = stmt] = new
    <2> HIDE DEF list
    <2>1. list = Append(front, old)
      BY <1>4 DEF list
    <2>. QED
      BY <1>5, <2>1, ChangeLast
  <1>9. blocks' = Append(filled, <<>>)
    <2>1. old = list[Len(list)]
      BY <1>4
    <2> HIDE DEF list, new
    <2>. QED
      BY <1>6, <1>8, <2>1 DEF stmt
  <1> HIDE DEF list
  <1>10. new \in Seq(Records)
    BY <1>5, AppendProperties
  <1> HIDE DEF new
  <1>11. /\ filled \in Seq(Seq(Records)) /\ Len(filled) = Len(blocks)
         /\ \A m \in 1 .. Len(blocks) : filled[m] = IF m = Top THEN new ELSE blocks[m]
    <2>1. blocks \in Seq(Seq(Records)) /\ Top \in 1 .. Len(blocks) /\ new \in Seq(Records)
      BY <1>1, <1>10
    <2> DEFINE top == Top
    <2>2. top \in 1 .. Len(blocks)
      BY <2>1
    <2> HIDE DEF top, filled
    <2>3. /\ [blocks EXCEPT ![top] = new] \in Seq(Seq(Records))
          /\ Len([blocks EXCEPT ![top] = new]) = Len(blocks)
      BY <2>1, <2>2, OneBlockChanged
    <2>4. \A m \in 1 .. Len(blocks) : [blocks EXCEPT ![top] = new][m] = IF m = top THEN new ELSE blocks[m]
      BY <2>1, <2>2, OneBlockChanged
    <2>5. filled = [blocks EXCEPT ![top] = new]
      BY DEF filled, top
    <2>. QED
      BY <2>3, <2>4, <2>5, Zenon DEF top
  <1> HIDE DEF filled
  <1>29. <<>> \in Seq(Records)
    BY EmptySeq
  <1>12. /\ blocks' \in Seq(Seq(Records)) /\ DOMAIN blocks' = 1 .. new_config
         /\ blocks'[new_config] = <<>>
         /\ \A m \in DOMAIN blocks : blocks'[m] = IF m = Top THEN new ELSE blocks[m]
    <2>2. /\ blocks' \in Seq(Seq(Records)) /\ Len(blocks') = new_config
          /\ \A m \in 1 .. Len(blocks) : blocks'[m] = filled[m]
          /\ blocks'[new_config] = <<>>
      <3> DEFINE V == Seq(Records)
                 none == <<>>
      <3>1. filled \in Seq(V) /\ none \in V /\ blocks' = Append(filled, none)
        BY <1>9, <1>11, <1>29
      <3> HIDE DEF V, none
      <3>2. /\ blocks' \in Seq(V) /\ Len(blocks') = Len(filled) + 1
            /\ \A m \in 1 .. Len(filled) : blocks'[m] = filled[m]
            /\ blocks'[Len(filled) + 1] = none
        BY <3>1, AppendProperties
      <3>. QED
        BY <1>11, <3>2 DEF V, none
    <2>. QED
      BY <1>1, <1>11, <2>2, LenProperties
  <1>13. /\ DOMAIN blocks \subseteq 1 .. new_config
         /\ new_config \notin DOMAIN blocks /\ new_config \in 1 .. new_config
         /\ \A m \in 1 .. new_config : m \notin DOMAIN blocks => m = new_config
    BY <1>1, <1>28, Zenon
  <1> HIDE DEF new_config
  <1>14. Changed(blocks, blocks', Top, front, stmt)
    <2>1. blocks'[Top] = Append(front, stmt)
      BY <1>1, <1>12 DEF new
    <2>2. \A m \in DOMAIN blocks : m # Top => blocks'[m] = blocks[m]
      BY <1>12
    <2>. QED
      BY <1>1, <1>4, <1>5, <1>12, <1>13, <2>1, <2>2, Zenon DEF Changed
  <1>15. Tree(blocks')
    BY <1>1, <1>14, ChangedTree
  <1>16. /\ \A k \in 1 .. n - 1 : Opened(blocks', config_stack[k]) = Opened(blocks, config_stack[k])
         /\ Opened(blocks', Top) = Lines(S, front) \o Words(stmt)
    BY <1>14, Kept DEF S
  <1>17. Opened(blocks', Top) = Opened(blocks, Top)
    BY <1>4, <1>5, <1>16
  <1>18. SerialOf(blocks')[new_config] = <<>>
    <2>1. SerialOf(blocks')[new_config] = Lines(SerialOf(blocks'), <<>>)
      BY <1>12, <1>13, <1>15, SerialOfIs
    <2>. QED
      BY <2>1, NoLines
  <1>19. /\ Len(config_stack') = n + 1 /\ config_stack'[n + 1] = new_config
         /\ \A i \in 1 .. n : config_stack'[i] = config_stack[i]
    <2>1. config_stack \in Seq(Nat) /\ config_stack' = Append(config_stack, new_config)
      BY <1>1, <1>6
    <2>. QED
      BY <1>7, <2>1, AppendProperties
  <1>20. Written(<<"{">>) = <<tok>> /\ tok \in Tokens /\ <<tok>> \in Seq(Tokens)
    <2>1. "{" \in TokenTypes
      BY DEF TokenTypes, Symbols
    <2>2. tok \in Tokens
      BY <2>1 DEF Tokens, tok
    <2>. QED
      BY <2>1, <2>2, TextOfTypes DEF tok
  <1>21. /\ file \in Seq(Tokens) /\ file' = Append(file, tok) /\ file' \in Seq(Tokens)
         /\ file' = (before[n] \o Opened(blocks', Top)) \o Written(<<"{">>)
    <2>1. file \in Seq(Tokens) /\ file' = Append(file, tok)
      BY DEF Going, Token, tok, Reading
    <2>0. tok \in Tokens
      BY <1>20
    <2>2. file' = file \o <<tok>> /\ file' \in Seq(Tokens)
      BY <2>0, <2>1, AppendIsConcat, AppendProperties
    <2>. QED
      BY <1>3, <1>17, <1>20, <2>1, <2>2
  <1> DEFINE after == [i \in 1 .. n + 1 |-> IF i = n + 1 THEN file' ELSE before[i]]
  <1> HIDE DEF after
  <1>22. /\ after \in [1 .. n + 1 -> Seq(Tokens)] /\ after[n + 1] = file'
         /\ \A i \in 1 .. n : after[i] = before[i]
    <2> HIDE DEF n
    <2>4. \A i \in 1 .. n + 1 : (IF i = n + 1 THEN file' ELSE before[i]) \in Seq(Tokens)
      BY <1>3, <1>21, <1>27
    <2>. QED
      BY <1>27, <2>4 DEF after
  <1>23. after[1] = <<>>
    BY <1>3, <1>22, <1>27
  <1>24. ASSUME NEW i \in 1 .. n
         PROVE  after[i + 1] = (after[i] \o Opened(blocks', config_stack'[i])) \o Written(<<"{">>)
    <2>1. CASE i = n
      BY <1>1, <1>19, <1>21, <1>22, <2>1
    <2>2. CASE i # n
      <3>1. i \in 1 .. n - 1 /\ i + 1 \in 1 .. n
        BY <1>27, <2>2
      <3>. QED
        BY <1>3, <1>16, <1>19, <1>22, <3>1
    <2>. QED
      BY <2>1, <2>2
  <1>25. file' = after[n + 1] \o SerialOf(blocks')[new_config]
    BY <1>18, <1>21, <1>22, ConcatEmptySeq
  <1>26. ReadAs(after, blocks', config_stack', last_token_type', file')
    <2>1. (n + 1) - 1 = n
      BY <1>27
    <2>. QED
      BY <1>6, <1>19, <1>22, <1>23, <1>24, <1>25, <2>1 DEF ReadAs
  <1>. QED
    BY <1>15, <1>26 DEF Reads
-----------------------------------------------------------------------------
LEMMA RegroupBlock ==
  ASSUME NEW a \in Seq(Tokens), NEW x \in Seq(Tokens), NEW y \in Seq(Tokens),
         NEW o \in Seq(Tokens), NEW t \in Seq(Tokens), NEW e \in Seq(Tokens)
  PROVE  Cat(Cat(Cat(Cat(a, Cat(x, y)), o), t), e) = Cat(a, Cat(x, Cat(y, Cat(Cat(o, t), e))))
  <1> DEFINE f == Cat(a, Cat(x, y))
             b == Cat(Cat(o, t), e)
  <1>1. f \in Seq(Tokens) /\ Cat(f, o) \in Seq(Tokens) /\ Cat(o, t) \in Seq(Tokens) /\ b \in Seq(Tokens)
    <2>1. f \in Seq(Tokens) /\ Cat(o, t) \in Seq(Tokens)
      BY Regroup, CatIs
    <2> HIDE DEF f
    <2>. QED
      BY <2>1, CatIs
  <1>2. Cat(f, b) = Cat(a, Cat(x, Cat(y, b)))
    <2> HIDE DEF b
    <2>. QED
      BY <1>1, Regroup
  <1> HIDE DEF f
  <1>3. Cat(Cat(f, o), t) = Cat(f, Cat(o, t))
    BY <1>1, CatAssociative
  <1> DEFINE ot == Cat(o, t)
  <1>5. ot \in Seq(Tokens)
    BY <1>1
  <1> HIDE DEF ot
  <1>4. Cat(Cat(f, ot), e) = Cat(f, Cat(ot, e))
    BY <1>1, <1>5, CatAssociative
  <1>. QED
    BY <1>2, <1>3, <1>4 DEF f, b, ot

LEMMA FrontIs ==
  ASSUME NEW s \in Seq(Nat), s # <<>>
  PROVE  /\ Front(s) \in Seq(Nat) /\ Len(Front(s)) = Len(s) - 1
         /\ \A i \in 1 .. Len(s) - 1 : Front(s)[i] = s[i]
  <1> DEFINE n == Len(s)
  <1>1. n \in Nat /\ n > 0 /\ DOMAIN s = 1 .. n
    BY EmptySeq, LenProperties
  <1>2. Front(s) = SubSeq(s, 1, n - 1)
    BY DEF Front
  <1>. QED
    BY <1>1, <1>2

LEMMA OneBlockLess ==
  \A n \in Nat \ {0} :
    /\ n = 1 => n - 1 = 0
    /\ n # 1 => /\ n - 1 \in Nat \ {0} /\ n - 1 \in 1 .. n /\ n \in 1 .. n /\ (n - 1) + 1 = n
                /\ n - 1 \in 1 .. n - 1 /\ 1 \in 1 .. n - 1
                /\ \A i \in 1 .. n - 1 : i \in 1 .. n
                /\ \A i \in 1 .. (n - 1) - 1 : i \in 1 .. n - 1 /\ i + 1 \in 1 .. n - 1
  OBVIOUS

LEMMA NotZero == \A l \in Nat : \A m \in 1 .. l : m # 0
  OBVIOUS

(* The end of a block which is not the last one on the stack. *)
Closing ==
  /\ config_stack # <<>> /\ last_token_type # "NORMAL"
  /\ config_stack' = Front(config_stack) /\ last_token_type' = "END_BLOCK" /\ UNCHANGED blocks
  /\ config_stack' # <<>> /\ Reading("}")

(* The text of the block that ends becomes part of its statement's.        *)
LEMMA EndReads ==
  ASSUME Going, Reads, Closing
  PROVE  Tree(blocks') /\ Reads'
  <1> DEFINE n == Len(config_stack)
             k == n - 1
             p == config_stack[k]
             S == SerialOf(blocks)
             open == Written(<<"{">>)
             close == Written(<<"}">>)
             tok == [type |-> "}", word |-> 0]
  <1>1. /\ n \in Nat \ {0} /\ Top \in DOMAIN blocks /\ Top = config_stack[n] /\ DOMAIN config_stack = 1 .. n
        /\ blocks \in Seq(Seq(Records)) /\ DOMAIN blocks = 1 .. Len(blocks) /\ Len(blocks) \in Nat
        /\ S \in [DOMAIN blocks -> Seq(Tokens)]
    BY GoingFacts
  <1>2. config_stack \in Seq(Nat) /\ config_stack # <<>> /\ Tree(blocks) /\ Grows /\ Path
    BY DEF Going, ParseTypeOK, Shape
  <1>3. /\ Front(config_stack) \in Seq(Nat) /\ Len(Front(config_stack)) = n - 1
        /\ \A i \in 1 .. n - 1 : Front(config_stack)[i] = config_stack[i]
    BY <1>2, FrontIs
  <1>4. n # 1
    <2> SUFFICES ASSUME n = 1 PROVE FALSE
      OBVIOUS
    <2>1. Len(Front(config_stack)) = 0
      BY <1>1, <1>3, OneBlockLess
    <2>. QED
      BY <1>3, <2>1, EmptySeq DEF Closing
  <1>5. /\ k \in Nat \ {0} /\ k \in 1 .. n /\ n \in 1 .. n /\ k + 1 = n /\ k \in 1 .. n - 1 /\ k \in 1 .. k
        /\ 1 \in 1 .. k
        /\ \A i \in 1 .. k : i \in 1 .. n
        /\ \A i \in 1 .. k - 1 : i \in 1 .. k /\ i + 1 \in 1 .. k /\ i \in 1 .. n - 1
    BY <1>1, <1>4, OneBlockLess, Zenon
  <1>6. p \in DOMAIN blocks /\ blocks[p] # <<>> /\ blocks[p][Len(blocks[p])].child = Top
    BY <1>1, <1>2, <1>4, <1>5 DEF Grows, Path, LastStatement
  <1>7. blocks[p] \in Seq(Records) /\ HasText(S, blocks[p]) /\ S[p] = Lines(S, blocks[p])
    <2>1. blocks[p] \in Seq(Records)
      BY <1>1, <1>6, ElementOfSeq
    <2>. QED
      BY <1>2, <1>6, <2>1, SerialOfIs
  <1>8. PICK before : ReadAs(before, blocks, config_stack, last_token_type, file)
    BY DEF Reads
  <1>9. /\ before \in [1 .. n -> Seq(Tokens)] /\ before[1] = <<>>
        /\ \A i \in 1 .. n - 1 :
             before[i + 1] = (before[i] \o Opened(blocks, config_stack[i])) \o Written(<<"{">>)
        /\ file = before[n] \o S[Top]
    BY <1>1, <1>8 DEF ReadAs, Closing
  <1> DEFINE list == blocks[p]
             front == Front(list)
             stmt == list[Len(list)]
  <1>10. /\ front \in Seq(Records) /\ stmt \in Records /\ list = Append(front, stmt)
         /\ Len(front) = Len(list) - 1
    BY <1>6, <1>7, FrontAndLast
  <1>11. HasText(S, front)
    <2> HIDE DEF front, stmt, list, S, k, p, tok, n, open, close
    <2>3. list \in Seq(Records)
      BY <1>7 DEF list
    <2>1. /\ Len(list) \in Nat /\ DOMAIN list = 1 .. Len(list) /\ DOMAIN front = 1 .. Len(list) - 1
          /\ \A i \in 1 .. Len(front) : list[i] = front[i]
      BY <1>10, <2>3, AppendProperties, LenProperties
    <2>2. HasText(S, list)
      BY <1>7 DEF list
    <2>. QED
      BY <1>10, <2>1, <2>2 DEF HasText
  <1>12. open \in Seq(Tokens) /\ close = <<tok>> /\ tok \in Tokens /\ close \in Seq(Tokens)
    <2>1. "}" \in TokenTypes /\ "{" \in TokenTypes
      BY DEF TokenTypes, Symbols
    <2>2. tok \in Tokens
      BY <2>1 DEF Tokens
    <2>. QED
      BY <2>1, <2>2, TextOfTypes
  <1>13. stmt.child = Top /\ Top # 0 /\ S[Top] \in Seq(Tokens)
    BY <1>1, <1>6, NotZero
  <1> HIDE DEF S
  <1>14. /\ Lines(S, front) \in Seq(Tokens) /\ Words(stmt) \in Seq(Tokens)
         /\ LineText(S, stmt) = Words(stmt) \o ((open \o S[Top]) \o close)
         /\ S[p] = Lines(S, front) \o LineText(S, stmt)
    <2> HIDE DEF front, stmt
    <2>1. Lines(S, front) \in Seq(Tokens) /\ Words(stmt) \in Seq(Tokens)
      BY <1>10, <1>11, LinesType, WordsType
    <2>2. LineText(S, stmt) = Words(stmt) \o ((open \o S[Top]) \o close)
      BY <1>13, Zenon DEF LineText
    <2>3. S[p] = Lines(S, front) \o LineText(S, stmt)
      <3>1. S[p] = Lines(S, Append(front, stmt))
        BY <1>7, <1>10
      <3>. QED
        BY <1>10, <1>11, <1>13, <3>1, LinesAppend
    <2>. QED
      BY <2>1, <2>2, <2>3
  <1>15. Opened(blocks, p) = Lines(S, front) \o Words(stmt)
    BY DEF Opened, S
  <1>16. file' = before[k] \o S[p]
    <2> DEFINE a == before[k]
               x == Lines(S, front)
               y == Words(stmt)
               t == S[Top]
    <2>1. a \in Seq(Tokens) /\ x \in Seq(Tokens) /\ y \in Seq(Tokens) /\ t \in Seq(Tokens)
      BY <1>5, <1>9, <1>13, <1>14
    <2>2. file = ((a \o (x \o y)) \o open) \o t
      BY <1>5, <1>9, <1>15
    <2>3. S[p] = x \o (y \o ((open \o t) \o close))
      BY <1>14
    <2>4. file' = file \o close
      <3>1. file \in Seq(Tokens) /\ file' = Append(file, tok)
        BY DEF Going, Reading, Token, Closing
      <3>. QED
        BY <1>12, <3>1, AppendIsConcat
    <2>5. open \in Seq(Tokens) /\ close \in Seq(Tokens)
      BY <1>12
    <2> HIDE DEF a, x, y, t, open, close, n, k, p, tok
    <2>6. Cat(Cat(Cat(Cat(a, Cat(x, y)), open), t), close)
            = Cat(a, Cat(x, Cat(y, Cat(Cat(open, t), close))))
      BY <2>1, <2>5, RegroupBlock
    <2>7. file' = Cat(Cat(Cat(Cat(a, Cat(x, y)), open), t), close)
      BY <2>2, <2>4, Zenon DEF Cat
    <2>8. file' = a \o (x \o (y \o ((open \o t) \o close)))
      BY <2>6, <2>7, Zenon DEF Cat
    <2>. QED
      BY <2>3, <2>8 DEF a
  <1> DEFINE after == [i \in 1 .. k |-> before[i]]
  <1> HIDE DEF list, front, stmt, p
  <1>17. /\ after \in [1 .. k -> Seq(Tokens)] /\ after[1] = <<>> /\ after[k] = before[k]
         /\ \A i \in 1 .. k - 1 :
              after[i + 1] = (after[i] \o Opened(blocks, config_stack[i])) \o Written(<<"{">>)
    <2>1. after \in [1 .. k -> Seq(Tokens)] /\ \A i \in 1 .. k : after[i] = before[i]
      BY <1>5, <1>9
    <2> HIDE DEF after, k
    <2>. QED
      BY <1>5, <1>9, <2>1
  <1> HIDE DEF after
  <1>18. /\ config_stack' = Front(config_stack) /\ Len(config_stack') = k /\ config_stack'[k] = p
         /\ \A i \in 1 .. k : config_stack'[i] = config_stack[i]
         /\ blocks' = blocks /\ last_token_type' # "NORMAL"
    BY <1>3, <1>5 DEF Closing, p
  <1>19. ReadAs(after, blocks', config_stack', last_token_type', file')
    <2> HIDE DEF k
    <2>1. file' = after[k] \o S[p]
      BY <1>16, <1>17
    <2>2. \A i \in 1 .. k - 1 :
            after[i + 1] = (after[i] \o Opened(blocks, config_stack'[i])) \o Written(<<"{">>)
      BY <1>5, <1>17, <1>18
    <2>. QED
      BY <1>17, <1>18, <2>1, <2>2 DEF ReadAs, S
  <1>. QED
    BY <1>2, <1>18, <1>19 DEF Reads
-----------------------------------------------------------------------------
LEMMA SerializedIsNext == Serialized' = SerialOf(blocks')
  BY Zenon DEF Serialized, SerialOf, Serializes, Lines, LineTexts, LineText

(* Parse remembers what it has read as long as it goes on. *)
LEMMA HandleReads ==
  ASSUME IInv, RoundInv, result = "none", ~ub, NEW type \in TokenTypes, Handle(type)
  PROVE  RoundInv'
  <1>1. /\ ParseTypeOK /\ Shape /\ file \in Seq(Tokens) /\ file' = Append(file, Token(type))
        /\ last_token_type \in {"START", "NORMAL"} \cup BlockEnds
    BY DEF IInv, TypeOK, ParseInv, Handle
  <1>2. ASSUME result' # "true", config_stack' # <<>> /\ result' = "none" => Tree(blocks') /\ Reads'
        PROVE  RoundInv'
    BY <1>2 DEF RoundInv, RoundTrip
  <1>3. ASSUME result' = "false" \/ (result' = "none" /\ ub') PROVE RoundInv'
    BY <1>3 DEF RoundInv, RoundTrip
  <1>4. config_stack # <<>> => Tree(blocks) /\ Reads
    BY DEF RoundInv
  <1>5. config_stack # <<>> => Going /\ Reads
    BY <1>1, <1>4 DEF Going
  <1>6. last_token_type = "NORMAL" => config_stack # <<>>
    BY <1>1 DEF Shape, Pending
  <1>7. CASE type = "NORMAL" /\ Normal
    <2>1. CASE config_stack = <<>>
      BY <1>3, <1>7, <2>1 DEF Normal, Undefined
    <2>2. CASE config_stack # <<>>
      <3>1. Reading("NORMAL") /\ Normal
        BY <1>1, <1>7 DEF Reading
      <3>2. Tree(blocks') /\ Reads'
        BY <1>5, <2>2, <3>1, NormalReads
      <3>3. result' = "none"
        BY <1>7, <2>2 DEF Normal
      <3>. QED
        BY <1>2, <3>2, <3>3
    <2>. QED
      BY <2>1, <2>2
  <1>8. CASE type = ";" /\ StatementEnd
    <2>1. CASE last_token_type # "NORMAL"
      BY <1>3, <1>8, <2>1 DEF StatementEnd, Fail
    <2>2. CASE last_token_type = "NORMAL"
      <3>1. Ended /\ Reading(";") /\ result' = "none"
        BY <1>1, <1>8, <2>2 DEF StatementEnd, Ended, Reading
      <3>2. Tree(blocks') /\ Reads'
        BY <1>5, <1>6, <2>2, <3>1, StatementReads
      <3>. QED
        BY <1>2, <3>1, <3>2
    <2>. QED
      BY <2>1, <2>2
  <1>9. CASE type = "{" /\ StartBlock
    <2>1. CASE last_token_type # "NORMAL"
      BY <1>3, <1>9, <2>1 DEF StartBlock, Fail
    <2>2. CASE last_token_type = "NORMAL"
      <3>1. Opening /\ Reading("{")
        BY <1>1, <1>9, <2>2 DEF Opening, Reading
      <3>2. Tree(blocks') /\ Reads'
        BY <1>5, <1>6, <2>2, <3>1, StartReads
      <3>3. result' = "none"
        BY <1>9, <2>2 DEF StartBlock
      <3>. QED
        BY <1>2, <3>2, <3>3
    <2>. QED
      BY <2>1, <2>2
  <1>10. CASE type = "}" /\ EndBlock
    <2>1. CASE last_token_type \notin BlockEnds
      BY <1>3, <1>10, <2>1 DEF EndBlock, Fail
    <2>2. CASE last_token_type \in BlockEnds /\ config_stack = <<>>
      BY <1>3, <1>10, <2>2 DEF EndBlock, Undefined
    <2>3. CASE last_token_type \in BlockEnds /\ config_stack # <<>>
      <3>1. /\ config_stack' = Front(config_stack) /\ last_token_type' = "END_BLOCK"
            /\ UNCHANGED <<blocks, result>> /\ last_token_type # "NORMAL"
        BY <1>10, <2>3 DEF EndBlock, BlockEnds
      <3>2. ASSUME config_stack' # <<>> PROVE Tree(blocks') /\ Reads'
        <4>1. Closing
          BY <1>1, <1>10, <2>3, <3>1, <3>2 DEF Closing, Reading
        <4>. QED
          BY <1>5, <2>3, <4>1, EndReads
      <3>. QED
        BY <1>2, <3>1, <3>2
    <2>. QED
      BY <2>1, <2>2, <2>3
  <1>11. CASE type = "ERROR" /\ Fail /\ UNCHANGED depth
    BY <1>3, <1>11 DEF Fail
  <1>. QED
    BY <1>7, <1>8, <1>9, <1>10, <1>11 DEF Handle

(* Of an accepted file only block 1 is left on the stack. *)
LEMMA EndReadsAll ==
  ASSUME IInv, RoundInv, result = "none", ~ub,
         result' = IF last_token_type \in {"STATEMENT_END", "END_BLOCK"} /\ depth = 0
                   THEN "true" ELSE "false",
         UNCHANGED <<blocks, file>>
  PROVE  RoundInv'
  <1>1. ASSUME depth = 0, last_token_type \in {"STATEMENT_END", "END_BLOCK"}
        PROVE  Serialized'[1] = file'
    <2>1. config_stack \in Seq(Nat) /\ Shape
      BY DEF IInv, TypeOK, ParseInv
    <2>2. Len(config_stack) = 1
      BY <1>1, <2>1 DEF Shape, Path
    <2>3. config_stack # <<>> /\ config_stack[1] = 1 /\ 1 \in DOMAIN config_stack
      <3>1. 1 \in DOMAIN config_stack
        <4> DEFINE n == Len(config_stack)
        <4>1. DOMAIN config_stack = 1 .. n /\ n = 1
          BY <2>1, <2>2, LenProperties
        <4> HIDE DEF n
        <4>. QED
          BY <4>1
      <3>2. config_stack # <<>>
        BY <2>2, EmptySeq
      <3>. QED
        BY <2>1, <3>1, <3>2 DEF Shape, Path
    <2>4. Tree(blocks) /\ Reads
      BY <2>3 DEF RoundInv
    <2>5. PICK before : ReadAs(before, blocks, config_stack, last_token_type, file)
      BY <2>4 DEF Reads
    <2>6. file = <<>> \o SerialOf(blocks)[1]
      <3>1. last_token_type # "NORMAL"
        BY <1>1
      <3>. QED
        BY <2>2, <2>3, <2>5, <3>1 DEF ReadAs
    <2>7. SerialOf(blocks)[1] \in Seq(Tokens)
      <3>1. 1 \in DOMAIN blocks
        BY <2>1, <2>3 DEF Shape, Grows
      <3>. QED
        BY <2>4, <3>1, SerialOfIs
    <2>8. file = SerialOf(blocks)[1]
      BY <2>6, <2>7, ConcatEmptySeq
    <2>9. blocks' = blocks /\ file' = file
      OBVIOUS
    <2>. QED
      BY <2>8, <2>9, SerializedIsNext, Zenon
  <1>2. result' # "none"
    OBVIOUS
  <1>3. result' = "true" => depth = 0 /\ last_token_type \in {"STATEMENT_END", "END_BLOCK"}
    OBVIOUS
  <1>. QED
    BY <1>1, <1>2, <1>3 DEF RoundInv, RoundTrip

(***************************************************************************)
(* Whatever the file, and however deep its blocks, what Parse accepts is   *)
(* what ToString of the configuration writes.                              *)
(***************************************************************************)
THEOREM WritesWhatItRead == Spec => []RoundTrip
  <1>1. Init => RoundInv
    <2> SUFFICES ASSUME Init PROVE RoundInv
      OBVIOUS
    <2>1. /\ blocks = <<<<>>>> /\ config_stack = <<1>> /\ file = <<>> /\ result # "true"
          /\ last_token_type # "NORMAL"
      BY DEF Init
    <2>2. /\ blocks \in Seq(Seq(Records)) /\ DOMAIN blocks = {1} /\ blocks[1] = <<>>
          /\ DOMAIN blocks[1] = {}
      BY <2>1
    <2>3. Tree(blocks)
      BY <2>2 DEF Tree
    <2>4. SerialOf(blocks)[1] = <<>>
      <3>1. SerialOf(blocks)[1] = Lines(SerialOf(blocks), <<>>)
        BY <2>2, <2>3, SerialOfIs
      <3>. QED
        BY <3>1, NoLines
    <2>5. Reads
      <3> DEFINE before == [i \in 1 .. 1 |-> <<>>]
      <3>1. before \in [1 .. 1 -> Seq(Tokens)] /\ before[1] = <<>> /\ 1 .. 1 - 1 = {}
        BY EmptySeq
      <3>2. Len(config_stack) = 1 /\ config_stack[1] = 1
        BY <2>1
      <3>3. file = before[1] \o SerialOf(blocks)[1]
        BY <2>1, <2>4, <3>1
      <3> HIDE DEF before
      <3>4. ReadAs(before, blocks, config_stack, last_token_type, file)
        BY <2>1, <3>1, <3>2, <3>3 DEF ReadAs
      <3>. QED
        BY <3>4 DEF Reads
    <2>. QED
      BY <2>1, <2>3, <2>5 DEF RoundInv, RoundTrip
  <1>2. IInv /\ RoundInv /\ [Next]_vars => RoundInv'
    <2> SUFFICES ASSUME IInv, RoundInv, [Next]_vars PROVE RoundInv'
      OBVIOUS
    <2>1. ASSUME UNCHANGED <<parse, file>> PROVE RoundInv'
      <3>1. Serialized' = Serialized
        <4>1. blocks' = blocks
          BY <2>1 DEF parse
        <4>. QED
          BY <4>1, SerializedIs, SerializedIsNext, Zenon
      <3>. QED
        BY <2>1, <3>1 DEF parse, RoundInv, RoundTrip, Reads
    <2>2. ASSUME result = "none", ~ub, NEW type \in TokenTypes, Handle(type) PROVE RoundInv'
      BY <2>2, HandleReads
    <2>3. ASSUME NEW c \in Chars,
                 InitialWhitespace(c) \/ Quote(c) \/ Comment(c) \/ Unget(c) \/ Word(c)
          PROVE  RoundInv'
      <3>1. result = "none" /\ ~ub
        BY <2>3 DEF InitialWhitespace, Quote, Comment, Unget, Word, Getting
      <3>2. \/ \E next : Scan(next)
            \/ \E type \in TokenTypes : Handle(type)
        BY <2>3 DEF InitialWhitespace, Quote, Comment, Unget, Word, Emit, TokenTypes
      <3>. QED
        BY <2>1, <2>2, <3>1, <3>2 DEF Scan
    <2>4. CASE EndOfFile
      <3>1. result = "none" /\ ~ub
        BY <2>4 DEF EndOfFile
      <3>2. CASE Handle("ERROR")
        BY <2>2, <3>1, <3>2 DEF TokenTypes
      <3>3. CASE ~Handle("ERROR")
        BY <2>4, <3>1, <3>3, EndReadsAll DEF EndOfFile
      <3>. QED
        BY <3>2, <3>3
    <2>5. CASE UNCHANGED vars
      BY <2>1, <2>5 DEF vars, parse
    <2>. QED
      BY <2>3, <2>4, <2>5 DEF Next
  <1>3. RoundInv => RoundTrip
    BY DEF RoundInv
  <1>. QED
    BY <1>1, <1>2, <1>3, Invariance, PTL DEF Spec
=============================================================================
