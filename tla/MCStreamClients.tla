--------------------------- MODULE MCStreamClients ---------------------------
(***************************************************************************)
(* Small instances of StreamClients for TLC.  The buffer has room for      *)
(* three bytes of a line and its newline; int has five bits.               *)
(***************************************************************************)
EXTENDS StreamClients

CONSTANTS c1, c2

(* Pipelined lines on one connection, and a line that does not fit the     *)
(* buffer on the other.                                                    *)
TwoStreams ==
  c1 :> <<1, NL, Minus, 2, 9, NL>> @@ c2 :> <<Other, 1, 2, 3, 9, NL>>
=============================================================================
