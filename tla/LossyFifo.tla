------------------------------ MODULE LossyFifo ------------------------------
(***************************************************************************)
(* What a notification queue promises the receiver: events arrive in the   *)
(* order in which they happened, each at most once, and an event is turned *)
(* away only while Capacity earlier ones wait.  It does not promise that   *)
(* an event that was not turned away arrives: a failed post is not         *)
(* repeated.                                                               *)
(***************************************************************************)
EXTENDS Naturals, Sequences

CONSTANT Capacity \* how many events wait, apart from the one being posted

VARIABLES
  offered, \* how many events happened; they are numbered from 1
  pending, \* the events that wait or are being posted
  received \* what arrived

fifoVars == <<offered, pending, received>>

Init ==
  /\ offered = 0
  /\ pending = << >>
  /\ received = << >>

Accept ==
  /\ Len(pending) <= Capacity
  /\ offered' = offered + 1
  /\ pending' = Append(pending, offered + 1)
  /\ UNCHANGED received

TurnAway ==
  /\ Len(pending) >= Capacity
  /\ offered' = offered + 1
  /\ UNCHANGED <<pending, received>>

Settle ==
  /\ pending # << >>
  /\ pending' = Tail(pending)
  /\ received' \in {received, Append(received, Head(pending))}
  /\ UNCHANGED offered

Next == Accept \/ TurnAway \/ Settle

Spec == Init /\ [][Next]_fifoVars
=============================================================================
