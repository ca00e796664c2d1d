------------------------------- MODULE HlsServer -------------------------------
(***************************************************************************)
(* fmp4/hls: the HLS session of a stream.  The hook session calls the      *)
(* server before it walks its consumers.  A session keeps the first frames *)
(* until it knows both codecs, or has MaxEarly of them; then it starts its *)
(* muxer (gohlslib), writes what it kept, and from then on every frame.    *)
(* The sessions of streams that stopped are closed by a ticker.            *)
(*                                                                         *)
(* A player only reads: HandleRequest is left to the muxer.                *)
(***************************************************************************)
EXTENDS RtmpMsg, Sequences

CONSTANTS
  HlsSessions, \* numbers of HLS sessions, those of the hook sessions
  MaxEarly     \* maxMsgSize, 128

VARIABLES
  current, \* HlsServer.sessions under the stream name, 0 for none
  invalid, \* HlsServer.invalidSessions
  hls      \* the sessions

hlsVars == <<current, invalid, hls>>

\* NewHlsSession
NewSession ==
  [done |-> FALSE, data |-> <<>>, video |-> FALSE, audio |-> "none", header |-> 0, asc |-> 0,
   muxed |-> <<>>, muxer |-> "new"]

Init ==
  /\ current = 0 /\ invalid = {}
  /\ hls = [i \in HlsSessions |-> NewSession]

New(i) ==
  /\ current' = i
  /\ hls' = [hls EXCEPT ![i] = NewSession]
  /\ UNCHANGED invalid

-----------------------------------------------------------------------------
\* An access unit: a key frame goes with the parameter sets of the session.
Unit(s, m) == [kind |-> m.kind, seq |-> m.seq, header |-> IF m.kind = "key" THEN s.header ELSE 0]

\* What the muxer has a track for: gohlslib knows AAC and Opus.
HasTrack(s) ==
  (IF s.video THEN {"key", "inter"} ELSE {})
  \cup (IF s.audio \in {"aac", "opus"} THEN {"aac", "rawAudio"} ELSE {})

\* A message of a session that has not started its muxer; "raw" is the codec of raw audio.
Early(s, m, raw) ==
  CASE m.kind = "videoHeader"       -> [s EXCEPT !.video = TRUE, !.header = m.seq]
    [] m.kind \in {"key", "inter"}  -> [s EXCEPT !.data = Append(@, Unit(s, m))]
    [] m.kind = "aacHeader"         -> [s EXCEPT !.audio = "aac", !.asc = m.seq]
    [] m.kind = "aac"               -> [s EXCEPT !.audio = "aac", !.data = Append(@, Unit(s, m))]
    [] m.kind = "rawAudio" /\ raw = "opus" ->
         [s EXCEPT !.audio = raw, !.data = Append(@, Unit(s, m))]
    [] m.kind = "rawAudio" /\ raw # "opus" -> [s EXCEPT !.audio = raw]
    [] OTHER                        -> s

\* G711 returns before the codecs are looked at.
DrainDue(s, m) ==
  /\ m.kind = "rawAudio" => s.audio = "opus"
  /\ (s.video /\ s.audio # "none") \/ Len(s.data) >= MaxEarly

\* Mutant: the frames that were kept are forgotten.
DrainFresh(s) == [s EXCEPT !.done = TRUE, !.muxer = "started"]

\* Without the AAC header, or without a track, drain fails and is tried again.
Drain(s) ==
  IF \/ s.audio = "aac" /\ s.asc = 0
     \/ ~s.video /\ s.audio \notin {"aac", "opus"}
  THEN s
  ELSE [s EXCEPT !.done = TRUE, !.muxer = "started",
                 !.muxed = OfKinds(s.data, HasTrack(s))]

\* A message of a session that has: whatever is not video counts as audio.
Later(s, m) ==
  CASE m.kind = "videoHeader"      -> [s EXCEPT !.header = m.seq]
    [] m.kind \in {"key", "inter"} -> [s EXCEPT !.muxed = Append(@, Unit(s, m))]
    [] OTHER -> IF s.audio \in {"aac", "opus"}
                THEN [s EXCEPT !.muxed = Append(@, Unit(s, m))] ELSE s

SessionOnMsg(s, m, raw) ==
  IF s.done THEN Later(s, m)
  ELSE LET e == Early(s, m, raw) IN IF DrainDue(e, m) THEN Drain(e) ELSE e

OnMsg(m, raw) ==
  /\ hls' = IF current = 0 THEN hls
            ELSE [hls EXCEPT ![current] = SessionOnMsg(@, m, raw)]
  /\ UNCHANGED <<current, invalid>>

-----------------------------------------------------------------------------
\* Mutant: the session is only taken from the map.
OnStopForgets ==
  /\ current' = 0
  /\ UNCHANGED <<invalid, hls>>

OnStop ==
  /\ invalid' = IF current = 0 THEN invalid ELSE invalid \cup {current}
  /\ current' = 0
  /\ UNCHANGED hls

\* The ticker closes a session of a stream that stopped.
CleanInvalidSession(i) ==
  /\ i \in invalid
  /\ invalid' = invalid \ {i}
  /\ hls' = [hls EXCEPT ![i].muxer = IF hls[i].done THEN "closed" ELSE @]
  /\ UNCHANGED current
=============================================================================
