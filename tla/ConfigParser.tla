---------------------------- MODULE ConfigParser ----------------------------
(***************************************************************************)
(* NginxConfigParser (src/src/config_parser.cc): Parse with its stack of   *)
(* blocks, ParseToken under it, and ToString of the configuration they     *)
(* build.  A step reads one character of the file, of which only the class *)
(* matters, or finds its end.                                              *)
(*                                                                         *)
(* Blocks are numbered in the order they are made; block 1 is the caller's *)
(* NginxConfig.  A word is the number of its token in the file.            *)
(***************************************************************************)
EXTENDS Integers, SequencesExt

CONSTANTS
  MaxRead,  \* bound of the model: characters in the file
  NoChar    \* nothing has been put back by unget

Spaces == {"space", "newline", "return"}
Symbols == {";", "{", "}"}
Quotes == {"single", "double"}
Chars == Spaces \cup Symbols \cup Quotes \cup {"hash", "letter"}

ASSUME ParserAssumption == MaxRead \in Nat /\ NoChar \notin Chars

VARIABLES
  peek,             \* the character unget has put back
  state,            \* ParseToken: TokenParserState
  last_token_type,
  depth,
  config_stack,     \* numbers of blocks; its top is the last one
  blocks,           \* the statements_ of each block
  result,           \* what Parse returns: "none" while it runs
  file,             \* history: the tokens ParseToken has returned, no comments
  read,             \* characters read, for the bound
  ub                \* the top of an empty stack has been used or popped

vars == <<peek, state, last_token_type, depth, config_stack, blocks, result, file, read, ub>>

(***************************************************************************)
(* result is "false" at once when the file cannot be opened.               *)
(***************************************************************************)
Init ==
  /\ peek = NoChar /\ state = "initial"
  /\ last_token_type = "START" /\ depth = 0
  /\ config_stack = <<1>> /\ blocks = <<<<>>>>
  /\ result \in {"none", "false"} /\ file = <<>> /\ read = 0 /\ ub = FALSE

(***************************************************************************)
(* The body of Parse's loop, one operator for each type of token.          *)
(***************************************************************************)
Token(type) == [type |-> type, word |-> IF type = "NORMAL" THEN Len(file) + 1 ELSE 0]
NewStatement == [tokens |-> <<>>, child |-> 0]
Top == config_stack[Len(config_stack)]

Fail == result' = "false" /\ UNCHANGED <<last_token_type, config_stack, blocks, ub>>

Undefined == ub' = TRUE /\ UNCHANGED <<last_token_type, config_stack, blocks, result>>

(* Mutant: each word begins a statement. *)
NormalNewStatement ==
  \/ /\ config_stack = <<>>
     /\ Undefined /\ UNCHANGED depth
  \/ /\ config_stack # <<>>
     /\ LET stmt == [NewStatement EXCEPT !.tokens = <<Len(file) + 1>>]
        IN blocks' = [blocks EXCEPT ![Top] = Append(@, stmt)]
     /\ last_token_type' = "NORMAL"
     /\ UNCHANGED <<depth, config_stack, result, ub>>

Normal ==
  \/ /\ config_stack = <<>>
     /\ Undefined /\ UNCHANGED depth
  \/ /\ config_stack # <<>>
     /\ LET list == IF last_token_type = "NORMAL" THEN blocks[Top]
                                                  ELSE Append(blocks[Top], NewStatement)
            stmt == [list[Len(list)] EXCEPT !.tokens = Append(@, Len(file) + 1)]
        IN blocks' = [blocks EXCEPT ![Top] = [list EXCEPT ![Len(list)] = stmt]]
     /\ last_token_type' = "NORMAL"
     /\ UNCHANGED <<depth, config_stack, result, ub>>

StatementEnd ==
  /\ UNCHANGED depth
  /\ \/ last_token_type # "NORMAL" /\ Fail
     \/ /\ last_token_type = "NORMAL"
        /\ last_token_type' = "STATEMENT_END"
        /\ UNCHANGED <<config_stack, blocks, result, ub>>

(***************************************************************************)
(* new_config becomes the child of the last statement of the top block,    *)
(* which StackIsPath shows to exist.                                       *)
(***************************************************************************)
StartBlock ==
  /\ depth' = depth + 1
  /\ \/ last_token_type # "NORMAL" /\ Fail
     \/ /\ last_token_type = "NORMAL"
        /\ LET new_config == Len(blocks) + 1
               list == blocks[Top]
               stmt == [list[Len(list)] EXCEPT !.child = new_config]
           IN /\ blocks' = Append([blocks EXCEPT ![Top] = [list EXCEPT ![Len(list)] = stmt]], <<>>)
              /\ config_stack' = Append(config_stack, new_config)
        /\ last_token_type' = "START_BLOCK"
        /\ UNCHANGED <<result, ub>>

BlockEnds == {"STATEMENT_END", "END_BLOCK", "START_BLOCK"}

(* Mutant: the end of a block leaves it on the stack. *)
EndBlockNoPop ==
  /\ depth' = depth - 1
  /\ \/ last_token_type \notin BlockEnds /\ Fail
     \/ /\ last_token_type \in BlockEnds
        /\ last_token_type' = "END_BLOCK"
        /\ UNCHANGED <<config_stack, blocks, result, ub>>

EndBlock ==
  /\ depth' = depth - 1
  /\ \/ last_token_type \notin BlockEnds /\ Fail
     \/ last_token_type \in BlockEnds /\ config_stack = <<>> /\ Undefined
     \/ /\ last_token_type \in BlockEnds /\ config_stack # <<>>
        /\ config_stack' = Front(config_stack)
        /\ last_token_type' = "END_BLOCK"
        /\ UNCHANGED <<blocks, result, ub>>

Handle(type) ==
  /\ file' = Append(file, Token(type))
  /\ \/ type = "NORMAL" /\ Normal
     \/ type = ";" /\ StatementEnd
     \/ type = "{" /\ StartBlock
     \/ type = "}" /\ EndBlock
     \/ type = "ERROR" /\ Fail /\ UNCHANGED depth

-----------------------------------------------------------------------------
(***************************************************************************)
(* ParseToken, one operator for each TokenParserState; it starts over in   *)
(* the initial state after each token.  A comment is a token that Parse    *)
(* skips.                                                                  *)
(***************************************************************************)
parse == <<last_token_type, depth, config_stack, blocks, result, ub>>

Getting(c) ==
  /\ result = "none" /\ ~ub
  /\ \/ peek # NoChar /\ c = peek /\ UNCHANGED read
     \/ peek = NoChar /\ read < MaxRead /\ read' = read + 1

Scan(next) == state' = next /\ peek' = NoChar /\ UNCHANGED <<parse, file>>

Emit(type) == state' = "initial" /\ peek' = NoChar /\ Handle(type)

InitialWhitespace(c) ==
  /\ state = "initial" /\ Getting(c)
  /\ \/ c \in Symbols /\ Emit(c)
     \/ c = "hash" /\ Scan("comment")
     \/ c \in Quotes /\ Scan(c)
     \/ c \in Spaces /\ Scan("initial")
     \/ c = "letter" /\ Scan("normal")

Quote(c) ==
  /\ state \in Quotes /\ Getting(c)
  /\ \/ c = state /\ Emit("NORMAL")
     \/ c # state /\ Scan(state)

Comment(c) ==
  /\ state = "comment" /\ Getting(c)
  /\ \/ c \in {"newline", "return"} /\ Scan("initial")
     \/ c \notin {"newline", "return"} /\ Scan("comment")

Ends == {"space", "newline"} \cup Symbols

(* Mutant: ParseToken keeps its state from one call to the next. *)
UngetKeepsState(c) ==
  /\ state = "normal" /\ Getting(c) /\ c \in Ends
  /\ peek' = c /\ state' = state
  /\ Handle("NORMAL")

Unget(c) ==
  /\ state = "normal" /\ Getting(c) /\ c \in Ends
  /\ peek' = c /\ state' = "initial"
  /\ Handle("NORMAL")

Word(c) ==
  /\ state = "normal" /\ Getting(c) /\ c \notin Ends
  /\ Scan("normal")

(* Mutant: Parse does not look at depth when the file ends. *)
EndOfFileNoDepth ==
  /\ result = "none" /\ ~ub /\ peek = NoChar
  /\ \/ state \in Quotes /\ Handle("ERROR")
     \/ /\ state \notin Quotes
        /\ result' = IF last_token_type \in {"STATEMENT_END", "END_BLOCK"}
                     THEN "true" ELSE "false"
        /\ UNCHANGED <<last_token_type, depth, config_stack, blocks, file, ub>>
  /\ UNCHANGED <<peek, state, read>>

(***************************************************************************)
(* The end of the file inside a quoted word is an error; any other         *)
(* unfinished token is dropped.                                            *)
(***************************************************************************)
EndOfFile ==
  /\ result = "none" /\ ~ub /\ peek = NoChar
  /\ \/ state \in Quotes /\ Handle("ERROR")
     \/ /\ state \notin Quotes
        /\ result' = IF last_token_type \in {"STATEMENT_END", "END_BLOCK"} /\ depth = 0
                     THEN "true" ELSE "false"
        /\ UNCHANGED <<last_token_type, depth, config_stack, blocks, file, ub>>
  /\ UNCHANGED <<peek, state, read>>

Next ==
  \/ \E c \in Chars :
       InitialWhitespace(c) \/ Quote(c) \/ Comment(c) \/ Unget(c) \/ Word(c)
  \/ EndOfFile

Spec == Init /\ [][Next]_vars

-----------------------------------------------------------------------------
(***************************************************************************)
(* NginxConfig::ToString and NginxConfigStatement::ToString, as the tokens *)
(* they write: the words of each statement, then its block or ";".         *)
(***************************************************************************)
Written(types) == [i \in DOMAIN types |-> [type |-> types[i], word |-> 0]]

Words(stmt) ==
  [i \in DOMAIN stmt.tokens |-> [type |-> "NORMAL", word |-> stmt.tokens[i]]]

Serialized[b \in DOMAIN blocks] ==
  LET Line(stmt) ==
        Words(stmt) \o (IF stmt.child = 0 THEN Written(<<";">>)
                        ELSE Written(<<"{">>) \o Serialized[stmt.child] \o Written(<<"}">>))
  IN FlattenSeq([i \in DOMAIN blocks[b] |-> Line(blocks[b][i])])

(***************************************************************************)
(* The grammar of the file, for reference: words and ";", or words and a   *)
(* block of statements.  A sequence of statements shrinks to nothing by    *)
(* taking away, again and again, a statement whose block is empty.         *)
(***************************************************************************)
Simple(s) ==
  \E k \in 1 .. Len(s) - 1 :
    /\ \A i \in 1 .. k : s[i] = "NORMAL"
    /\ SubSeq(s, k + 1, Len(s)) \in {<<";">>, <<"{", "}">>}

TokenTypes == {"NORMAL", "ERROR"} \cup Symbols

Statements[s \in Seq(TokenTypes)] ==
  \/ s = <<>>
  \/ \E i \in DOMAIN s, j \in DOMAIN s :
       /\ i < j /\ Simple(SubSeq(s, i, j))
       /\ i > 1 => s[i - 1] # "NORMAL"
       /\ Statements[SubSeq(s, 1, i - 1) \o SubSeq(s, j + 1, Len(s))]

Types(tokens) == [i \in DOMAIN tokens |-> tokens[i].type]
Valid(tokens) == tokens # <<>> /\ Statements[Types(tokens)]

-----------------------------------------------------------------------------
(***************************************************************************)
(* Every member has a value of its type; a character is put back only      *)
(* between tokens.                                                         *)
(***************************************************************************)
Records == [tokens : Seq(Nat), child : Nat]
Tokens == [type : TokenTypes, word : Nat]

TypeOK ==
  /\ peek \in Chars \cup {NoChar}
  /\ state \in {"initial", "normal", "comment"} \cup Quotes
  /\ peek # NoChar => state = "initial"
  /\ last_token_type \in {"START", "NORMAL"} \cup BlockEnds
  /\ depth \in Int
  /\ blocks \in Seq(Seq(Records))
  /\ config_stack \in Seq(Nat)
  /\ result \in {"none", "true", "false"}
  /\ file \in Seq(Tokens)
  /\ read \in Nat
  /\ ub \in BOOLEAN

(***************************************************************************)
(* While Parse runs, its stack holds the blocks from the file's own down   *)
(* to the one being filled, each the child of the last statement of the    *)
(* one below it; depth counts them, one less; and after a word the block   *)
(* on top has the statement to which the next word or block belongs.       *)
(***************************************************************************)
LastStatement(b) == blocks[b][Len(blocks[b])]

StackIsPath ==
  result = "none" /\ ~ub =>
    /\ Len(config_stack) = depth + 1
    /\ \A i \in DOMAIN config_stack :
         IF i = 1 THEN config_stack[i] = 1
         ELSE /\ blocks[config_stack[i - 1]] # <<>>
              /\ LastStatement(config_stack[i - 1]).child = config_stack[i]
    /\ last_token_type = "NORMAL" =>
         /\ config_stack # <<>> /\ blocks[Top] # <<>>
         /\ LastStatement(Top).tokens # <<>> /\ LastStatement(Top).child = 0

(***************************************************************************)
(* Parse accepts the tokens it has seen exactly when the grammar does.  A  *)
(* last word that the end of the file cuts off is not seen: "a; b" is      *)
(* accepted (line 147), where config_parser.h:33 promises "true iff the    *)
(* input config file is valid".                                            *)
(***************************************************************************)
AcceptsGrammar ==
  result # "none" => (result = "true" <=> Valid(file))

(***************************************************************************)
(* What an accepted file leaves in the NginxConfig is the file: ToString   *)
(* writes its tokens, the same words in the same statements and blocks.    *)
(***************************************************************************)
RoundTrip ==
  result = "true" => Serialized[1] = file
=============================================================================
