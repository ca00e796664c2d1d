------------------------------ MODULE WhepSession ------------------------------
(***************************************************************************)
(* rtc/whepsession.go and HandleWHEP of rtc/server.go: a browser that      *)
(* watches a stream.  NewWhepSession finds the hook session; GetAnswerSDP  *)
(* takes the tracks from its headers; Run joins its consumers, and its     *)
(* loop takes messages from an unbounded channel to the tracks until there *)
(* is something on closeChan.                                              *)
(*                                                                         *)
(* The calls into the hook session are conjoined where the modules are     *)
(* composed (Sessions).                                                    *)
(***************************************************************************)
EXTENDS PeerConnection

CONSTANTS
  MaxPayload, \* 1200, the bytes of a frame in one RTP packet
  FrameSize   \* the bytes of the n-th message of a stream

\* closeChan
CloseSize == 2

NewWhepSession(c) ==
  /\ st[c].pc = "idle"
  /\ st' = [st EXCEPT ![c] = [pc |-> "new", ice |-> "new", losses |-> 0, close |-> 0,
                              senders |-> 0, video |-> "none", audio |-> "none", header |-> 0,
                              box |-> <<>>]]
  /\ UNCHANGED out

\* The tracks: H.264, HEVC for Safari only, G711 and Opus, but no AAC.
VideoTrack(header, codec, safari) ==
  IF header # NoMsg /\ (codec = "h264" \/ safari) THEN codec ELSE "none"
AudioTrack(header, raw) == IF header.kind = "rawAudio" THEN raw ELSE "none"

\* GetAnswerSDP reads one header after the other.
AddVideoTrack(c, videoheader, setup) ==
  /\ st[c].pc = "new"
  /\ st' = [st EXCEPT ![c].pc = "half",
                      ![c].video = VideoTrack(videoheader, setup.video, setup.safari),
                      ![c].header = videoheader.seq]
  /\ UNCHANGED out

AddAudioTrack(c, audioheader, setup) ==
  /\ st[c].pc = "half"
  /\ st' = [st EXCEPT ![c].pc = "answered", ![c].audio = AudioTrack(audioheader, setup.raw)]
  /\ UNCHANGED out

\* pion makes nothing of the offer: there is no answer and HandleWHEP gives up.
NoAnswer(c) ==
  /\ st[c].pc = "half"
  /\ st' = [st EXCEPT ![c].pc = "refused"]
  /\ UNCHANGED out

Run(c) ==
  /\ st[c].pc = "answered"
  /\ st' = [st EXCEPT ![c].pc = "run"]
  /\ UNCHANGED out

\* Whether the callback is registered.
Heard(c) == st[c].pc \in {"run", "returned"}

-----------------------------------------------------------------------------
(* rtc/packer.go *)

\* The payloads doPacketNaluForSafariHevc cuts n bytes into, without their first byte.
SafariPayloads(n) ==
  LET splitNum  == n \div MaxPayload + 1
      remainder == n % splitNum
  IN  [k \in 1 .. splitNum |->
         n \div splitNum + (IF splitNum + 1 - k < remainder THEN 1 ELSE 0)]

Total(sizes) ==
  LET sum[k \in 0 .. Len(sizes)] == IF k = 0 THEN 0 ELSE sum[k - 1] + sizes[k]
  IN sum[Len(sizes)]

\* The bytes of message n that are sent on a track.
Carried(codec, n) ==
  IF codec = "hevc" THEN Total(SafariPayloads(FrameSize[n])) ELSE FrameSize[n]

\* A key frame goes with the parameter sets of the header the session was answered with.
Encode(c, e) ==
  [kind |-> e.kind, seq |-> e.seq, via |-> e.via,
   bytes |-> Carried(IF IsVideo(e) THEN st[c].video ELSE st[c].audio, e.seq),
   header |-> IF e.kind = "key" THEN st[c].header ELSE 0]

-----------------------------------------------------------------------------
\* One round of the loop: sendAudio and sendVideo, or the end.
TakeMsg(c) ==
  /\ st[c].pc = "run" /\ st[c].box # <<>>
  /\ st' = [st EXCEPT ![c].box = Tail(@)]
  /\ out' = [out EXCEPT ![c] = Append(@, Encode(c, Head(st[c].box)))]

TakeClose(c) ==
  /\ st[c].pc = "run" /\ st[c].close > 0
  /\ st' = [st EXCEPT ![c].pc = "returned", ![c].close = @ - 1]
  /\ UNCHANGED out

\* What OnMsg keeps of the messages it is called with.
Wanted(c) ==
  (IF st[c].audio = "none" THEN {} ELSE AudioKinds)
  \cup (IF st[c].video = "none" THEN {} ELSE VideoKinds \ {"videoHeader"})

OnMsg(c, entries) ==
  /\ st' = [st EXCEPT ![c].box = @ \o OfKinds(entries, Wanted(c))]
  /\ UNCHANGED out

OnStop(c) == Signal(c, CloseSize, st[c].senders)
=============================================================================
