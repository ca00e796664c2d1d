---------------------------- MODULE PeerConnection ----------------------------
(***************************************************************************)
(* What the sessions of src/rtc have in common: a peer connection of the   *)
(* pion library and closeChan.  Run registers a callback for the state of  *)
(* the connection; pion runs it in a goroutine of its own for each change, *)
(* and it sends on closeChan, waiting as long as the channel is full.      *)
(***************************************************************************)
EXTENDS RtmpMsg, Sequences

CONSTANT MaxLosses  \* bound: how often a connection comes back after it was lost

VARIABLES
  st,  \* the session of each client: a record, whose pc says how far it is
  out  \* history: what was sent to the client, or came from it

\* A session that does not exist yet
NoSession == [pc |-> "idle"]

HasPeer(c) == "ice" \in DOMAIN st[c]
IceFailed(c) == HasPeer(c) /\ st[c].ice = "failed"

\* The states for which the callback sends.
Lost == {"disconnected", "failed", "closed"}

\* Mutant: the callback overlooks a connection that failed.
ChangeSilent(c, to) ==
  /\ st' = [st EXCEPT ![c].ice = to, ![c].senders = IF to = "disconnected" THEN @ + 1 ELSE @]
  /\ UNCHANGED out

\* The connection changes its state and a goroutine runs the callback.
Change(c, to) ==
  /\ st' = [st EXCEPT ![c].ice = to, ![c].senders = IF to \in Lost THEN @ + 1 ELSE @]
  /\ UNCHANGED out

\* ICE connects, loses the client, finds it again or gives it up.  It takes seconds for each,
\* so whatever the last change set off has come to rest (Settled, where this is used), and
\* the callback is there: the client needs the answer first, which is sent when Run has been
\* started.
Ice(c) ==
  \/ st[c].ice = "new" /\ \E to \in {"connected", "failed"} : Change(c, to)
  \/ st[c].ice = "connected" /\ Change(c, "disconnected")
  \/ st[c].ice = "disconnected" /\ Change(c, "failed")

IceReturns(c) ==
  /\ st[c].ice = "disconnected" /\ st[c].losses < MaxLosses
  /\ st' = [st EXCEPT ![c].ice = "connected", ![c].losses = @ + 1]
  /\ UNCHANGED out

\* closeChan <- true, by a callback and by OnStop.
Signal(c, size, waiting) ==
  /\ st[c].close < size
  /\ st' = [st EXCEPT ![c].close = @ + 1, ![c].senders = waiting]
  /\ UNCHANGED out

CallbackSends(c, size) ==
  HasPeer(c) /\ st[c].senders > 0 /\ Signal(c, size, st[c].senders - 1)
=============================================================================
