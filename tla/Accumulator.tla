----------------------------- MODULE Accumulator -----------------------------
(***************************************************************************)
(* What the t4 server promises: it keeps one running total, and applies    *)
(* the requests of each client in the order the client makes them, each    *)
(* once and none of them in part; a client may be cut off at any point.    *)
(***************************************************************************)
EXTENDS Integers, SequencesExt

CONSTANTS
  Clients,
  Requests,       \* what a client can ask for
  Result(_, _)    \* the total that a request makes of a total

VARIABLES
  requests,       \* requests[c]: the requests of c so far, in order
  total,
  applied         \* applied[c]: how many requests of c are in the total

accumulatorVars == <<requests, total, applied>>

Init ==
  /\ requests = [c \in Clients |-> <<>>]
  /\ total = 0
  /\ applied = [c \in Clients |-> 0]

(* Requests are made and are not taken back.                               *)
Request ==
  /\ requests' \in [Clients -> Seq(Requests)]
  /\ \A c \in Clients : IsPrefix(requests[c], requests'[c])
  /\ UNCHANGED <<total, applied>>

Apply(c) ==
  /\ applied[c] < Len(requests[c])
  /\ applied' = [applied EXCEPT ![c] = @ + 1]
  /\ total' = Result(total, requests[c][applied[c] + 1])
  /\ UNCHANGED requests

Next == Request \/ \E c \in Clients : Apply(c)

Spec == Init /\ [][Next]_accumulatorVars
=============================================================================
