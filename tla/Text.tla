-------------------------------- MODULE Text --------------------------------
(***************************************************************************)
(* Texts and what std::string does with them, as far as the handlers use   *)
(* it.  A text is a sequence of symbols: separators, digits and letters,   *)
(* and words that the code never looks into.  Positions count from 0 as in *)
(* the code, and std::string::npos is -1: adding to it wraps around, and   *)
(* as a length it, like any length below 0, means all of the rest.         *)
(***************************************************************************)
EXTENDS Integers, SequencesExt

Npos == -1

Find(text, pattern, from) ==
  LET at == {k \in from .. Len(text) - Len(pattern) :
               SubSeq(text, k + 1, k + Len(pattern)) = pattern}
  IN IF at = {} THEN Npos ELSE Min(at)

Substr(text, from, n) ==
  SubSeq(text, from + 1, IF n < 0 \/ from + n > Len(text) THEN Len(text) ELSE from + n)
Rest(text, from) == Substr(text, from, Npos)

SplitAt(text, symbol) ==
  LET from[k \in 0 .. Len(text)] ==
        LET end == Find(text, <<symbol>>, k)
        IN IF end = Npos THEN <<Rest(text, k)>>
           ELSE <<Substr(text, k, end - k)>> \o from[end + 1]
  IN from[0]

(* What std::getline reads one after the other: no line after a last "\n". *)
Lines(text) ==
  IF text = <<>> \/ Last(text) = "\n" THEN Front(SplitAt(text, "\n")) ELSE SplitAt(text, "\n")

Digit == <<"0", "1", "2", "3", "4", "5", "6", "7", "8", "9">>
Digits == Range(Digit)
Value(digit) == (CHOOSE k \in DOMAIN Digit : Digit[k] = digit) - 1
IsNumber(text) == \A k \in DOMAIN text : text[k] \in Digits
Number(text) == FoldLeft(LAMBDA n, digit : 10 * n + Value(digit), 0, text)
=============================================================================
