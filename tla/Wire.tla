-------------------------------- MODULE Wire --------------------------------
(***************************************************************************)
(* The data of the t4 protocol: a client sends lines of text, and a line   *)
(* that is a decimal number is added to the state of the server.           *)
(*                                                                         *)
(* A byte is a digit 0..9, a newline, a minus sign, or any other byte that *)
(* is no part of a number.  NUL, white space before the digits and "+" are *)
(* left out.                                                               *)
(***************************************************************************)
EXTENDS Integers, SequencesExt

CONSTANTS
  IntMax,    \* the largest value of a C int
  LongMax    \* the largest value of a C long

ASSUME IntMaxAssumption == IntMax \in Nat \ {0}
ASSUME LongMaxAssumption == LongMax \in Nat \ {0} /\ IntMax <= LongMax

Digits == 0..9
NL == 10
Minus == 11
Other == 12
Bytes == 0..12

HasNewline(s) == \E k \in 1..Len(s) : s[k] = NL

(* strchr(s, '\n'), as a position from 1.                                  *)
FirstNewline(s) ==
  CHOOSE k \in 1..Len(s) : s[k] = NL /\ \A j \in 1..(k - 1) : s[j] # NL

(* The first n bytes of s, or all of them, and what is behind them.        *)
Take(s, n) == SubSeq(s, 1, IF n < Len(s) THEN n ELSE Len(s))
Drop(s, n) == SubSeq(s, n + 1, Len(s))

Ints == (-IntMax - 1)..IntMax

(* Conversion of a number to int, and the addition of the processor: both  *)
(* keep the low bits.                                                      *)
ToInt(n) == ((n + IntMax + 1) % (2 * (IntMax + 1))) - (IntMax + 1)

(* The line, without its newline, is a number for strtol().                *)
Unsigned(line) ==
  IF line # <<>> /\ Head(line) = Minus THEN Tail(line) ELSE line
IsNumber(line) ==
  Unsigned(line) # <<>> /\ \A k \in DOMAIN Unsigned(line) : Unsigned(line)[k] \in Digits

(* The number a client that sends the line means.                          *)
NumberOf(line) ==
  LET magnitude == FoldLeft(LAMBDA n, d : 10 * n + d, 0, Unsigned(line))
  IN  IF Head(line) = Minus THEN -magnitude ELSE magnitude

(* What handle_client_data adds to the state for a line: nothing for text  *)
(* that is not a number, nothing when strtol() says ERANGE, and else the   *)
(* long it returned, cast to int.                                          *)
InLong(n) == n \in (-LongMax - 1)..LongMax
AddedFor(line) ==
  IF IsNumber(line) /\ InLong(NumberOf(line)) THEN ToInt(NumberOf(line)) ELSE 0

(* The complete lines of a stream, without their newlines, and where each  *)
(* of them ends.                                                           *)
NewlinesIn(stream, n) == Cardinality({k \in 1..n : stream[k] = NL})
LineCount(stream) == NewlinesIn(stream, Len(stream))
LineEnd(stream, n) ==
  IF n = 0 THEN 0
  ELSE CHOOSE k \in 1..Len(stream) :
         stream[k] = NL /\ NewlinesIn(stream, k) = n
LinesOf(stream) ==
  [n \in 1..LineCount(stream) |->
     SubSeq(stream, LineEnd(stream, n - 1) + 1, LineEnd(stream, n) - 1)]

(* A line after a total; what lines add, without a limit on the numbers.   *)
Added(total, line) == ToInt(total + AddedFor(line))
SumOf(numbers) ==
  LET sum[n \in 0..Len(numbers)] ==
        IF n = 0 THEN 0 ELSE sum[n - 1] + numbers[n]
  IN  sum[Len(numbers)]
AddedByAll(lines) == SumOf([n \in DOMAIN lines |-> AddedFor(lines[n])])
=============================================================================
