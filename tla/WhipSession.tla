------------------------------ MODULE WhipSession ------------------------------
(***************************************************************************)
(* rtc/whipsession.go and HandleWHIP of rtc/server.go: a browser that      *)
(* publishes a stream.  NewWhipSession takes the stream name at lal; a     *)
(* goroutine reads the track and puts frames in pktChan; the loop of Run   *)
(* feeds them to lal until there is something on closeChan, and then gives *)
(* the name back.                                                          *)
(*                                                                         *)
(* A frame of the track is what comes of its RTP packets, a message of lal *)
(* (parameter sets are frames of their own), or nothing: rtpreorderer      *)
(* reports a loss, or the time of the packet is not known.  UnPacker has   *)
(* no decoder for G711: either no packet of it gets past the decoder of    *)
(* the time, whose format has no clock rate, or the call of nil panics in  *)
(* a goroutine of pion, which ends the process.                            *)
(***************************************************************************)
EXTENDS PeerConnection

CONSTANT PktChanSize  \* 100

\* closeChan
CloseSize == 2

NewWhipSession(p) ==
  /\ st[p].pc = "idle"
  /\ st' = [st EXCEPT ![p] = [pc |-> "new", ice |-> "new", losses |-> 0, close |-> 0,
                              senders |-> 0, pktChan |-> <<>>, read |-> 0]]
  /\ UNCHANGED out

\* Without an answer HandleWHIP gives up; the name stays taken.
GetAnswerSDP(p) ==
  /\ st[p].pc = "new"
  /\ \E pc \in {"run", "refused"} : st' = [st EXCEPT ![p].pc = pc]
  /\ UNCHANGED out

\* Whether the callback is registered.
Heard(p) == st[p].pc \in {"run", "returned"}

HasDecoder(kind, raw) == ~(kind = "rawAudio" /\ raw \in {"pcma", "pcmu"})

\* The goroutine of OnTrack reads a frame: nothing comes of it, there is no decoder, or it
\* waits for room.
UnPack(p, kind, raw) ==
  LET m == [kind |-> kind, seq |-> Len(out[p]) + 1] IN
  /\ Heard(p) /\ st[p].ice = "connected"
  /\ \/ /\ st' = [st EXCEPT ![p].read = @ + 1]
        /\ UNCHANGED out
     \/ /\ ~HasDecoder(kind, raw)
        /\ st' = [st EXCEPT ![p].pc = "panicked"]
        /\ UNCHANGED out
     \/ /\ HasDecoder(kind, raw) /\ Len(st[p].pktChan) < PktChanSize
        /\ st' = [st EXCEPT ![p].read = @ + 1, ![p].pktChan = Append(@, m)]
        /\ out' = [out EXCEPT ![p] = Append(@, m)]

\* One round of the loop: FeedAvPacket, or DelCustomizePubSession and the end.
TakePkt(p) ==
  /\ st[p].pc = "run" /\ st[p].pktChan # <<>>
  /\ st' = [st EXCEPT ![p].pktChan = Tail(@)]
  /\ UNCHANGED out

TakeClose(p) ==
  /\ st[p].pc = "run" /\ st[p].close > 0
  /\ st' = [st EXCEPT ![p].pc = "returned", ![p].close = @ - 1]
  /\ UNCHANGED out
=============================================================================
