----------------------------- MODULE MCDatabase -----------------------------
(***************************************************************************)
(* Queries, tables and the characters they are made of, for TLC.  The      *)
(* letters "s" and "f" stand for all words.                                *)
(***************************************************************************)
EXTENDS Database

(* The codes of the characters that occur; the others only have a name. *)
Ascii ==
  [n \in 0 .. 255 |->
     CASE n = 32 -> " " [] n = 37 -> "%" [] n = 38 -> "&" [] n = 43 -> "+" [] n = 59 -> ";"
       [] n = 61 -> "=" [] n = 115 -> "s" [] n = 239 -> "ï"
       [] OTHER -> ToString(n)]

MCQueries == {<<"s", " ", "s">>, <<"%", "s", "=">>, <<"+", "&">>, <<"ï", "%">>}

MCUris ==
  {QueryUri(FormEncoded(q)) : q \in MCQueries}
    \cup {QueryUri(Spell(q, {}, UpperHex)) : q \in MCQueries}
    \cup {QueryUri(EncodeURI(q)) : q \in MCQueries}
    \cup {<<"/", "database?">>, QueryUri(<<"s", "%", "2">>)}

MCTables ==
  {[cols |-> <<"id">>, rows |-> <<>>],
   [cols |-> <<"id", "name">>, rows |-> <<<<"1", "x">>>>],
   [cols |-> <<"id", "name">>, rows |-> <<<<"1", "x">>, <<"2", "">>>>]}

MCCharacters == STRING

Symmetry == Permutations(Threads) \cup Permutations(Connections)
=============================================================================
