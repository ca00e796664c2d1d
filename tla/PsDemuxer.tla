------------------------------ MODULE PsDemuxer ------------------------------
(***************************************************************************)
(* How the media of a GB28181 camera gets from its program stream to lal   *)
(* (gb28181/mpegps, Serve and OnFrame of mediaserver/conn.go): Input gets  *)
(* the payload of one RTP packet, keeps what is not complete in a cache,   *)
(* and takes the units out: pack, system header, stream map, PES.  Video   *)
(* is collected as long as its PTS does not change and then cut at the     *)
(* start codes of its NALs; audio goes on at once.                         *)
(*                                                                         *)
(* A unit has three atoms: the first half of its start code, the rest of   *)
(* the start code with the first half of its header, and what follows.     *)
(* Packets end between atoms: every comparison of RemainBytes in a Decode  *)
(* tells the same about all ends in one of the gaps.  The data of a video  *)
(* PES are tokens: the head of a NAL, with its start code, and its tail.   *)
(*                                                                         *)
(* The camera: MPEG-2, H.264, a stream that begins with a pack header, no  *)
(* packet lost or damaged, no program end code, no PES of length 0.        *)
(* PTS values are multiples of 90; audio and video have one clock.         *)
(***************************************************************************)
EXTENDS Integers, Sequences, FiniteSets, SequencesExt

CONSTANTS
  Settings,   \* what cameras do: [psm, first]: they send a stream map; the first PTS
  Shapes,     \* the frames of a camera: [tokens, cuts], the tokens a sequence of [type, head],
              \* cuts the tokens that can be the last of the first of two PES
  VerifyMax,  \* 256 bytes, counted in tokens
  ZeroLimit,  \* 10, the zero PTSs after which the RTP timestamp counts
  MaxFrames,  \* bound: video frames
  MaxAudio,   \* bound: audio PES
  MaxUnits,   \* bound: units of any kind
  MaxWire     \* bound: atoms under way when the camera sends on

NoPts == -1  \* a PES without PTS, a camera that sends none

ASSUME PsDemuxerAssumption ==
  /\ Settings \subseteq [psm : BOOLEAN, first : Nat \cup {NoPts}]
  /\ \A s \in Shapes :
       /\ s.tokens \in Seq([type : {"aud", "sps", "pps", "idr", "p"}, head : BOOLEAN])
       /\ s.tokens # <<>> /\ s.tokens[1].head
       /\ s.cuts \subseteq 1 .. Len(s.tokens) - 1
  /\ {VerifyMax, ZeroLimit, MaxFrames, MaxAudio, MaxUnits, MaxWire} \subseteq Nat

VARIABLES
  setting, \* of this camera
  units,   \* history: the units sent
  frames,  \* history: the tokens of each video frame
  rest,    \* the tokens of the last frame that are still to be sent
  torn,    \* history: frames whose second part, without PTS, comes after audio of another PTS
  wire,    \* atoms under way: <<unit, 1 .. 3>>
  cache,   \* psDemuxer.cache
  bs,      \* what Input has not read yet
  busy,    \* Input runs
  pesPts,  \* pkg.Pes.Pts, of the last PES that had one
  cid,     \* streamMap: whether the codec of video and audio is known
  buf,     \* streamBuf and pts of the video stream
  pts,
  verify,  \* verifyBuf
  zeros,   \* psPtsZeroTimes
  rtpPts,  \* the timestamp of the last RTP packet
  init,    \* initPts of video and audio
  fed      \* FeedAvPacket: [stream, data, pts, ts]

camera == <<setting, units, frames, rest, torn>>
reader == <<cache, bs, busy>>
demuxer == <<pesPts, cid, buf, pts, verify>>
conn == <<zeros, rtpPts, init, fed>>
vars == <<camera, wire, reader, demuxer, conn>>

Streams == {"video", "audio"}

Init ==
  /\ setting \in Settings
  /\ units = <<[kind |-> "pack", pts |-> NoPts, data |-> <<>>, time |-> 0]>>
  /\ frames = <<>> /\ rest = <<>> /\ torn = {}
  /\ wire = <<<<1, 1>>, <<1, 2>>, <<1, 3>>>>
  /\ cache = <<>> /\ bs = <<>> /\ busy = FALSE
  /\ pesPts = 0
  /\ cid = [s \in Streams |-> FALSE]
  /\ buf = <<>> /\ pts = 0 /\ verify = <<>>
  /\ zeros = 0 /\ rtpPts = 0
  /\ init = [s \in Streams |-> 0]
  /\ fed = <<>>

-----------------------------------------------------------------------------
(* The camera *)

Count(kinds) == Cardinality({n \in DOMAIN units : units[n].kind \in kinds})

\* The PTS of a frame, or of audio sent at that time
PtsAt(frame) == IF setting.first = NoPts THEN NoPts ELSE setting.first + frame - 1

Send(kind, stamp, data) ==
  /\ ~busy /\ Len(wire) < MaxWire /\ Len(units) < MaxUnits
  /\ units' = Append(units, [kind |-> kind, pts |-> stamp, data |-> data, time |-> Len(frames')])
  /\ wire' = wire \o [i \in 1 .. 3 |-> <<Len(units) + 1, i>>]
  /\ UNCHANGED <<setting, reader, demuxer, conn>>

\* A system header, a private stream or a directory is passed over; the camera repeats
\* its stream map.
SendOther(kind) ==
  /\ rest = <<>>
  /\ kind = "psm" => setting.psm
  /\ UNCHANGED <<frames, rest, torn>>
  /\ Send(kind, NoPts, <<>>)

\* A camera with a stream map sends it before its first frame.
SendFrame(shape, n) ==
  /\ rest = <<>> /\ Len(frames) < MaxFrames
  /\ setting.psm => Count({"psm"}) > 0
  /\ LET f == Len(frames) + 1
         tokens == [i \in DOMAIN shape.tokens |->
                      [frame |-> f, n |-> i, type |-> shape.tokens[i].type,
                       head |-> shape.tokens[i].head]] IN
       /\ frames' = Append(frames, tokens)
       /\ rest' = SubSeq(tokens, n + 1, Len(tokens))
       /\ UNCHANGED torn
       /\ Send("video", PtsAt(f), SubSeq(tokens, 1, n))

\* The rest of a frame, with the PTS of the frame or without
SendRest(stamp) ==
  /\ rest # <<>> /\ stamp \in {PtsAt(Len(frames)), NoPts}
  /\ rest' = <<>>
  /\ torn' = IF stamp = NoPts /\ Last(units).pts # PtsAt(Len(frames)) THEN torn \cup {Len(frames)} ELSE torn
  /\ UNCHANGED frames
  /\ Send("video", stamp, rest)

\* Audio of the time of the last frame or of the next, also inside a frame
SendAudio(stamp) ==
  /\ Count({"audio"}) < MaxAudio /\ frames # <<>>
  /\ stamp \in {PtsAt(Len(frames)), PtsAt(Len(frames) + 1)}
  /\ UNCHANGED <<frames, rest, torn>>
  /\ Send("audio", stamp, <<>>)

Camera ==
  \/ \E kind \in {"pack", "psm", "passed"} : SendOther(kind)
  \/ \E shape \in Shapes : \E n \in shape.cuts \cup {Len(shape.tokens)} : SendFrame(shape, n)
  \/ \E stamp \in {NoPts, PtsAt(Len(frames)), PtsAt(Len(frames) + 1)} :
       SendRest(stamp) \/ SendAudio(stamp)

-----------------------------------------------------------------------------
(* OnFrame *)

\* Mutant: video looks whether audio has started.
StartByAudio(s, p) == [init EXCEPT ![s] = IF init["audio"] = 0 THEN p ELSE @]

\* initPts
Start(s, p) == [init EXCEPT ![s] = IF @ = 0 THEN p ELSE @]

\* Mutant: a PTS lowers the count of the zero ones.
OnFrameCountsDown(s, items, stamp) ==
  LET p == IF stamp = 0 /\ zeros >= ZeroLimit THEN rtpPts ELSE stamp IN
  /\ zeros' = IF stamp # 0 THEN zeros - 1 ELSE IF zeros >= 0 THEN zeros + 1 ELSE zeros
  /\ init' = Start(s, p)
  /\ fed' = fed \o [i \in DOMAIN items |->
                      [stream |-> s, data |-> items[i], pts |-> stamp, ts |-> p - init'[s]]]
  /\ UNCHANGED rtpPts

\* The units of one PES or frame are fed one by one; only audio can have a PTS of zero.
OnFrame(s, items, stamp) ==
  LET p == IF stamp = 0 /\ zeros >= ZeroLimit THEN rtpPts ELSE stamp IN
  /\ zeros' = IF stamp # 0 THEN -1 ELSE IF zeros >= 0 THEN zeros + 1 ELSE zeros
  /\ init' = Start(s, p)
  /\ fed' = fed \o [i \in DOMAIN items |->
                      [stream |-> s, data |-> items[i], pts |-> stamp, ts |-> p - init'[s]]]
  /\ UNCHANGED rtpPts
-----------------------------------------------------------------------------
(* demuxPespacket *)

\* FindStartCode: the data from each start code to the next, without access unit delimiters
StartCodes(data) == {i \in DOMAIN data : data[i].head}

\* The k-th smallest of a set of positions
Nth(S, k) == CHOOSE i \in S : Cardinality({j \in S : j < i}) = k - 1

NalEnd(data, i) ==
  CHOOSE e \in i .. Len(data) : /\ e = Len(data) \/ e + 1 \in StartCodes(data)
                                /\ \A j \in StartCodes(data) : j <= i \/ e < j

Nals(data) ==
  LET begins == {i \in StartCodes(data) : data[i].type # "aud"}
  IN  [k \in 1 .. Cardinality(begins) |->
         SubSeq(data, Nth(begins, k), NalEnd(data, Nth(begins, k)))]

\* Mutant: the NALs get the PTS of the PES that ends their frame.
DemuxH26xLate(data, stamp) ==
  IF pts = 0 \/ stamp \in {pts, 0}
  THEN /\ buf' = buf \o data
       /\ pts' = IF pts = 0 THEN stamp ELSE pts
       /\ UNCHANGED conn
  ELSE /\ buf' = data
       /\ pts' = stamp
       /\ IF Nals(buf) = <<>> THEN UNCHANGED conn ELSE OnFrame("video", Nals(buf), stamp)

\* A PTS of zero means that there is none, in the stream and in the PES.
DemuxH26x(data, stamp) ==
  IF pts = 0 \/ stamp \in {pts, 0}
  THEN /\ buf' = buf \o data
       /\ pts' = IF pts = 0 THEN stamp ELSE pts
       /\ UNCHANGED conn
  ELSE /\ buf' = data
       /\ pts' = stamp
       /\ IF Nals(buf) = <<>> THEN UNCHANGED conn ELSE OnFrame("video", Nals(buf), pts)

-----------------------------------------------------------------------------
(* Input *)

\* Decode of a PES: without a PTS it has that of the last PES that had one.
PesPts(u) == IF u.pts = NoPts THEN pesPts ELSE u.pts

\* mpegH26xVerify finds SPS, PPS and IDR.
IsH264(data) == {"sps", "pps", "idr"} \subseteq {data[i].type : i \in DOMAIN data}

\* Without a stream map, the PES that shows the codec is the first to be demuxed.
VideoPes(u) ==
  IF cid["video"]
  THEN DemuxH26x(u.data, PesPts(u)) /\ UNCHANGED <<cid, verify>>
  ELSE LET seen == (IF Len(verify) > VerifyMax THEN <<>> ELSE verify) \o u.data IN
       /\ verify' = seen
       /\ cid' = [cid EXCEPT !["video"] = IsH264(seen)]
       /\ IF IsH264(seen) THEN DemuxH26x(u.data, PesPts(u)) ELSE UNCHANGED <<buf, pts, conn>>

\* demuxAudio.  Without a stream map there is no audio before the video is known.
AudioPes(n) ==
  /\ UNCHANGED <<buf, pts, verify>>
  /\ cid' = [cid EXCEPT !["audio"] = @ \/ cid["video"]]
  /\ IF cid'["audio"] THEN OnFrame("audio", <<n>>, PesPts(units[n])) ELSE UNCHANGED conn

\* Mutant: the streams of the map are always new.
StreamMapAnew(u) ==
  /\ cid' = [s \in Streams |-> TRUE]
  /\ buf' = <<>> /\ pts' = 0
  /\ UNCHANGED <<pesPts, verify, conn>>

StreamMap(u) ==
  /\ cid' = [s \in Streams |-> TRUE]
  /\ UNCHANGED <<pesPts, buf, pts, verify, conn>>

Pes(n) ==
  /\ pesPts' = PesPts(units[n])
  /\ IF units[n].kind = "video" THEN VideoPes(units[n]) ELSE AudioPes(n)

\* Nothing of a pack header or a system header is used, nor of a directory or of another
\* stream.
PackHeader   == UNCHANGED <<demuxer, conn>>
SystemHeader == UNCHANGED <<demuxer, conn>>
OtherUnit    == UNCHANGED <<demuxer, conn>>

\* NextBits finds a start code.
AtUnit == bs # <<>> /\ bs[1][2] = 1

\* A unit that is there as a whole
Unit ==
  /\ busy /\ AtUnit /\ Len(bs) >= 3
  /\ bs' = SubSeq(bs, 4, Len(bs))
  /\ LET n == bs[1][1] IN
       CASE units[n].kind = "pack"   -> PackHeader
         [] units[n].kind = "passed" -> SystemHeader \/ OtherUnit
         [] units[n].kind = "psm" -> StreamMap(units[n])
         [] units[n].kind \in Streams -> Pes(n)
  /\ UNCHANGED <<camera, wire, cache, busy>>

\* SkipBits(8): what is left of a pack header whose start code was read already
Skip ==
  /\ busy /\ bs # <<>> /\ ~AtUnit /\ Len(bs) > 1
  /\ bs' = Tail(bs)
  /\ UNCHANGED <<camera, wire, cache, busy, demuxer, conn>>

\* Mutant: no Decode gives back what it has read.
UnreadNothing == IF AtUnit /\ Len(bs) > 1 THEN Tail(bs) ELSE bs

\* A Decode that lacks bytes gives back what it has read, that of the pack header does not.
Unread == IF AtUnit /\ units[bs[1][1]].kind = "pack" /\ Len(bs) > 1 THEN Tail(bs) ELSE bs

\* saveReseved, and Input returns
NeedMore ==
  /\ busy /\ bs # <<>>
  /\ IF AtUnit THEN Len(bs) < 3 ELSE Len(bs) = 1
  /\ cache' = Unread
  /\ bs' = <<>> /\ busy' = FALSE
  /\ UNCHANGED <<camera, wire, demuxer, conn>>

EndInput ==
  /\ busy /\ bs = <<>>
  /\ cache' = <<>> /\ busy' = FALSE
  /\ UNCHANGED <<camera, wire, bs, demuxer, conn>>

\* Serve reads an RTP packet of n atoms.
Input(n) ==
  /\ ~busy
  /\ bs' = cache \o SubSeq(wire, 1, n)
  /\ cache' = IF cache = <<>> THEN <<>> ELSE bs'
  /\ busy' = TRUE
  /\ rtpPts' = units[wire[1][1]].time
  /\ wire' = SubSeq(wire, n + 1, Len(wire))
  /\ UNCHANGED <<camera, demuxer, zeros, init, fed>>

Next ==
  \/ Camera
  \/ \E n \in DOMAIN wire : Input(n)
  \/ Unit \/ Skip \/ NeedMore \/ EndInput

Spec == Init /\ [][Next]_vars

-----------------------------------------------------------------------------
\* Every variable has its type; between packets the cache has a part of one unit, never
\* what was demuxed already.
TypeOK ==
  /\ setting \in Settings
  /\ torn \subseteq DOMAIN frames
  /\ busy \in BOOLEAN
  /\ \A atoms \in {wire, cache, bs} : \A k \in DOMAIN atoms : atoms[k] \in (DOMAIN units) \X (1 .. 3)
  /\ cid \in [Streams -> BOOLEAN]
  /\ pesPts \in Nat /\ pts \in Nat /\ init \in [Streams -> Nat]
  /\ zeros \in Nat \cup {-1}
  /\ ~busy => Len(cache) < 3 /\ \A k \in DOMAIN cache : cache[k][1] = cache[1][1]

Fed(s) == SelectSeq(fed, LAMBDA item : item.stream = s)

\* Every NAL the camera has sent, and every one lal was given, by its head
Sent == FlattenSeq([f \in DOMAIN frames |-> Nals(frames[f])])
Heads(nals) == [k \in DOMAIN nals |-> <<nals[k][1].frame, nals[k][1].n>>]
Given == [k \in DOMAIN Fed("video") |-> Fed("video")[k].data]

\* Between two packets: the units read as a whole, the frames begun in them
Under == cache \o bs \o wire
UnitsRead == IF Under = <<>> THEN DOMAIN units ELSE 1 .. Under[1][1] - 1
FramesBegun == {units[n].data[1].frame : n \in {m \in UnitsRead : units[m].kind = "video"}}

\* Wherever the packets end: lal gets the NALs in the order of the stream, none twice and
\* none left out; all of them from the first when there is a stream map
\* (ps_demuxer.go:61, ps_demuxer.go:270).
EveryNalOnce ==
  \E k \in 0 .. Len(Sent) :
    /\ setting.psm => k = 0
    /\ Heads(Given) = SubSeq(Heads(Sent), k + 1, k + Len(Given))

\* A NAL is not cut, although it comes in several packets and PES; only a part without PTS
\* behind audio of another PTS is taken for the next frame (ps_demuxer.go:267, pes_proto.go:170).
NalsAreWhole ==
  \A k \in DOMAIN Given : Given[k][1].frame \in torn \/ Given[k] \in ToSet(Sent)

\* lal has every frame but the last, as soon as the packet is read in which the last begins;
\* a PTS of zero only delays the first frame (ps_demuxer.go:263).
NothingWithheld ==
  ~busy /\ setting.psm /\ setting.first # NoPts /\ torn = {} =>
    LET last == Cardinality(FramesBegun) - 1
        ready == IF setting.first = 0 /\ last = 1 THEN 0 ELSE last IN
    Given = FlattenSeq([f \in 1 .. ready |-> Nals(frames[f])])

\* Each NAL has the PTS of its frame; a frame of PTS zero that of the next frame.
PtsOfFrame ==
  \A k \in DOMAIN fed : fed[k].stream = "video" =>
    LET f == fed[k].data[1].frame IN
    f \in torn \/ fed[k].pts = PtsAt(f) \/ (PtsAt(f) = 0 /\ fed[k].pts = PtsAt(f + 1))

\* Audio is fed in order, none twice, and none is left out from the first one on, which comes
\* when the streams are known.
AudioInOrder ==
  LET sent == SetToSortSeq({n \in DOMAIN units : units[n].kind = "audio"}, <)
      given == [k \in DOMAIN Fed("audio") |-> Fed("audio")[k].data] IN
  \E k \in 0 .. Len(sent) :
    /\ setting.psm => k = 0
    /\ given = SubSeq(sent, k + 1, k + Len(given))
    /\ ~busy /\ cid["audio"] => k + Len(given) = Cardinality(UnitsRead \cap ToSet(sent))

\* lal is given the NALs and the audio of the camera each once and in order.
EverythingOnce == EveryNalOnce /\ AudioInOrder

\* Of a pack header that came in two packets, and of nothing else, Input passes over bytes
\* looking for a start code (ps_demuxer.go:197, bitstream.go:172).
OnlyPackHeadersSkipped == [][Skip => units[bs[1][1]].kind = "pack"]_vars

\* The timestamps lal gets are as far apart as the PTSs, within each stream.
TimestampsKeepDistance ==
  \A i, j \in DOMAIN fed :
    fed[i].stream = fed[j].stream /\ fed[i].pts # 0 /\ fed[j].pts # 0 =>
      fed[i].ts - fed[j].ts = fed[i].pts - fed[j].pts
=============================================================================
