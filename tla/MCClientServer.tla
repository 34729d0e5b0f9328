--------------------------- MODULE MCClientServer ---------------------------
(***************************************************************************)
(* Small instances of ClientServer for TLC.  The buffer of the server has  *)
(* room for three bytes of a line and its newline, int has five bits.      *)
(***************************************************************************)
EXTENDS ClientServer

CONSTANTS c1, c2, c3

(* Three data files whose lines add up to zero, one of them with nothing  *)
(* but a tail that is no line.                                             *)
Files ==
  c1 :> <<9, NL, 1, 0, NL>> @@ c2 :> <<Minus, 1, 9, NL>> @@ c3 :> <<7>>

(* Somebody types: a line that does not fit the buffer of the client, and  *)
(* a line with an unterminated tail behind it.                             *)
Typed == c1 :> <<1, 2, 3, 4, 5, NL>> @@ c2 :> <<1, NL, 2>>

OneNumberEach == c1 :> <<1, NL>> @@ c2 :> <<2, NL>>
=============================================================================
