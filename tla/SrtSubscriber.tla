----------------------------- MODULE SrtSubscriber -----------------------------
(***************************************************************************)
(* srt/sub.go and handleSubcribe of srt/server.go: a player that watches a *)
(* stream as MPEG-TS over SRT.  Run joins the consumers, sets OnPacket of  *)
(* the muxer and is done; the rest happens in OnMsg and OnStop, in lal's   *)
(* goroutine.  The first OnMsg makes the demuxers from the headers cached  *)
(* at that time, once and for all.                                         *)
(*                                                                         *)
(* A frame is one TS packet here; the TS muxer drops the packets it makes  *)
(* before OnPacket is set.                                                 *)
(***************************************************************************)
EXTENDS RtmpMsg, Sequences

CONSTANT MaxSend  \* MaxSendPacketSize, 4: the TS packets sent at once

VARIABLES
  st,  \* the subscriber of each client: a record, whose pc says how far it is
  out  \* history: the TS packets written to the connection

\* NewSubscriber, and Run finds the stream.
NewSubscriber(c) ==
  /\ st[c].pc = "idle"
  /\ st' = [st EXCEPT ![c] = [pc |-> "new", conn |-> "open", hasInit |-> FALSE,
                              video |-> FALSE, audio |-> FALSE, sendBuf |-> <<>>,
                              missed |-> 0]]
  /\ UNCHANGED out

Join(c) ==
  /\ st[c].pc = "new"
  /\ st' = [st EXCEPT ![c].pc = "joined"]
  /\ UNCHANGED out

SetOnPacket(c) ==
  /\ st[c].pc = "joined"
  /\ st' = [st EXCEPT ![c].pc = "run"]
  /\ UNCHANGED out

\* The player goes away; Write fails from then on.
PlayerLeaves(c) ==
  /\ st[c].pc \in {"joined", "run"} /\ st[c].conn = "open"
  /\ st' = [st EXCEPT ![c].conn = "left"]
  /\ UNCHANGED out

-----------------------------------------------------------------------------
\* The first message: demuxers for the headers there are.  With audio that is not AAC the
\* subscriber stays without, and tries again with every message.
Initialised(s, videoheader, audioheader) ==
  IF s.hasInit \/ audioheader.kind = "rawAudio" THEN s
  ELSE [s EXCEPT !.hasInit = TRUE, !.video = videoheader # NoMsg,
                 !.audio = audioheader # NoMsg]

Muxed(s, e) ==
  \/ s.video /\ e.kind \in {"key", "inter"}
  \/ s.audio /\ e.kind = "aac"

\* Mutant: what was written stays in the buffer.
PacketKeepsSent(w, e) ==
  IF Len(w.sub.sendBuf) < MaxSend THEN [w EXCEPT !.sub.sendBuf = Append(@, e)]
  ELSE [w EXCEPT !.sub.sendBuf = Append(@, e), !.sent = @ \o w.sub.sendBuf]

\* OnPacket: a full buffer is written before the packet is kept; when that fails the
\* subscriber is to leave.
OnPacket(w, e) ==
  IF Len(w.sub.sendBuf) < MaxSend THEN [w EXCEPT !.sub.sendBuf = Append(@, e)]
  ELSE IF w.sub.conn # "open" THEN [w EXCEPT !.sub.conn = "failed"]
  ELSE [w EXCEPT !.sub.sendBuf = <<e>>, !.sent = @ \o w.sub.sendBuf]

\* "missed" counts the messages that came before there was OnPacket or a demuxer.
Packet(w, e) ==
  IF w.sub.pc = "joined" \/ ~w.sub.hasInit THEN [w EXCEPT !.sub.missed = @ + 1]
  ELSE IF Muxed(w.sub, e) THEN OnPacket(w, e) ELSE w

\* The messages of one call, one after another: the subscriber, and what it writes.  (Sets of
\* one: TLC evaluates it once.)
PacketAll(s, entries) ==
  LET f[i \in 0 .. Len(entries)] ==
        IF i = 0 THEN {[sub |-> s, sent |-> <<>>]} ELSE {Packet(w, entries[i]) : w \in f[i - 1]}
  IN f[Len(entries)]

OnMsg(c, entries, videoheader, audioheader) ==
  \E w \in PacketAll(Initialised(st[c], videoheader, audioheader), entries) :
      /\ st' = [st EXCEPT ![c] = w.sub]
      /\ out' = [out EXCEPT ![c] = @ \o w.sent]

\* OnPacket removes the subscriber and closes its connection; OnStop closes it.
Failed(c) == st[c].conn = "failed"

Close(c) ==
  /\ st' = [st EXCEPT ![c].conn = "closed"]
  /\ UNCHANGED out
=============================================================================
