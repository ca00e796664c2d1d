--------------------------- MODULE JessibucaSession ---------------------------
(***************************************************************************)
(* rtc/jessibucasession.go and HandleJessibuca of rtc/server.go: a player  *)
(* that watches a stream as FLV tags over a data channel.  The loop that   *)
(* takes messages and closeChan runs in OnOpen of the data channel, so not *)
(* before the channel is open.                                             *)
(***************************************************************************)
EXTENDS PeerConnection

\* closeChan
CloseSize == 1

NewJessibucaSession(c) ==
  /\ st[c].pc = "idle"
  /\ st' = [st EXCEPT ![c] = [pc |-> "new", ice |-> "new", losses |-> 0, close |-> 0,
                              senders |-> 0, dc |-> FALSE, once |-> FALSE, box |-> <<>>]]
  /\ UNCHANGED out

\* createDataChannel, which may fail unnoticed, and the answer; without an answer
\* HandleJessibuca gives up.
GetAnswerSDP(c) ==
  /\ st[c].pc = "new"
  /\ \E pc \in {"answered", "refused"}, dc \in BOOLEAN :
       st' = [st EXCEPT ![c].pc = pc, ![c].dc = dc]
  /\ UNCHANGED out

\* Run looks the stream up again: "found", or "returned" when there is none.
Run(c, pc) ==
  /\ st[c].pc = "answered"
  /\ st' = [st EXCEPT ![c].pc = pc]
  /\ UNCHANGED out

\* It joins the session that was found first.
Join(c) ==
  /\ st[c].pc = "found"
  /\ st' = [st EXCEPT ![c].pc = "joined"]
  /\ UNCHANGED out

\* Whether the callback is registered.
Heard(c) == st[c].pc \notin {"idle", "new", "answered", "refused", "found", "returned"}

\* OnOpen: the FLV header is sent and the loop begins, or the handler returns with the
\* session among the consumers.
OnOpen(c) ==
  /\ st[c].pc = "joined" /\ st[c].dc /\ st[c].ice = "connected"
  /\ \/ /\ st' = [st EXCEPT ![c].pc = "loop"]
        /\ out' = [out EXCEPT ![c] = Append(@, [kind |-> "flv"])]
     \/ /\ st' = [st EXCEPT ![c].pc = "headless"]
        /\ UNCHANGED out

\* One round of the loop; a send can fail at any time.
TakeMsg(c) ==
  /\ st[c].pc = "loop" /\ st[c].box # <<>>
  /\ \/ /\ st' = [st EXCEPT ![c].box = Tail(@)]
        /\ out' = [out EXCEPT ![c] = Append(@, Head(st[c].box))]
     \/ /\ st' = [st EXCEPT ![c].pc = "leaving", ![c].box = Tail(@)]
        /\ UNCHANGED out

TakeClose(c) ==
  /\ st[c].pc = "loop" /\ st[c].close > 0
  /\ st' = [st EXCEPT ![c].pc = "leaving", ![c].close = @ - 1]
  /\ UNCHANGED out

\* The deferred function: RemoveConsumer; the data channel and the connection are closed,
\* of which the callback hears; DC = nil.
Leave(c) ==
  /\ st[c].pc = "leaving"
  /\ st' = [st EXCEPT ![c].pc = "removed"]
  /\ UNCHANGED out

ClosePeer(c) ==
  /\ st[c].pc = "removed"
  /\ st' = [st EXCEPT ![c].pc = "closed", ![c].dc = FALSE, ![c].ice = "closed",
                      ![c].senders = @ + 1]
  /\ UNCHANGED out

OnMsg(c, entries) ==
  /\ st' = [st EXCEPT ![c].box = IF st[c].dc THEN @ \o entries ELSE @]
  /\ UNCHANGED out

\* stopOne: only the first call sends.
OnStop(c) ==
  IF st[c].once THEN UNCHANGED <<st, out>>
  ELSE /\ st[c].close < CloseSize
       /\ st' = [st EXCEPT ![c].close = @ + 1, ![c].once = TRUE]
       /\ UNCHANGED out
=============================================================================
