------------------------------- MODULE GopCache -------------------------------
(***************************************************************************)
(* hook/gop_cache.go: the ring buffer in which a hook session keeps the    *)
(* last GOPs of its stream, and the last sequence headers, for the         *)
(* subscribers that join later.                                            *)
(*                                                                         *)
(* The ring has gopSize = gop_cache_num + 1 slots; [first, last) are in    *)
(* use.  A slot that falls out of the ring keeps its old frames until it   *)
(* is opened again, so the ring indices alone say what is cached.          *)
(***************************************************************************)
EXTENDS RtmpMsg, Sequences, FiniteSets

CONSTANTS
  GopCacheNum,          \* hook_config.gop_cache_num
  SingleGopMaxFrameNum, \* hook_config.single_gop_max_frame_num
  Kinds,                \* the kinds of message the stream carries
  MaxMsgs               \* bound: messages fed to the cache

ASSUME GopCacheAssumption ==
  /\ GopCacheNum \in Int
  /\ SingleGopMaxFrameNum \in Nat
  /\ Kinds \subseteq MsgKinds
  /\ MaxMsgs \in Nat

VARIABLES
  videoheader, audioheader, data, first, last,
  fed, \* history: how many messages were fed
  hist \* history: the messages fed since the cache was last cleared

ring      == <<data, first, last>>
cacheVars == <<videoheader, audioheader, data, first, last, fed, hist>>

-----------------------------------------------------------------------------
\* How many GOPs the ring can hold: one slot less than it has.
Keep    == IF GopCacheNum < 0 THEN 0 ELSE GopCacheNum
gopSize == Keep + 1
Slots   == 0 .. gopSize - 1

\* NewGopCache
Init ==
  /\ videoheader = NoMsg
  /\ audioheader = NoMsg
  /\ data = [s \in Slots |-> << >>]
  /\ first = 0
  /\ last = 0
  /\ fed = 0
  /\ hist = << >>

\* NewGopCache for the next stream.
Renew ==
  /\ videoheader' = NoMsg
  /\ audioheader' = NoMsg
  /\ data' = [s \in Slots |-> << >>]
  /\ first' = 0
  /\ last' = 0
  /\ fed' = 0
  /\ hist' = << >>

IsGopRingFull  == (last + 1) % gopSize = first
IsGopRingEmpty == first = last

GetGopCount == (last + gopSize - first) % gopSize

\* nil for a position outside the ring, the frames of the GOP otherwise.
GetGopDataAt(pos) ==
  IF pos \in 0 .. GetGopCount - 1
  THEN data[(first + pos) % gopSize]
  ELSE << >>

-----------------------------------------------------------------------------
\* Mutants: the write index never wraps; a reopened slot keeps its frames;
\* the frame limit is strict; the ring never makes room.
FeedNewGopNoWrap(msg) ==
  /\ first' = IF IsGopRingFull THEN (first + 1) % gopSize ELSE first
  /\ data' = [data EXCEPT ![last] = <<msg>>]
  /\ last' = last + 1

FeedNewGopNoClear(msg) ==
  /\ first' = IF IsGopRingFull THEN (first + 1) % gopSize ELSE first
  /\ data' = [data EXCEPT ![last] = Append(@, msg)]
  /\ last' = (last + 1) % gopSize

FeedNewGopNoEvict(msg) ==
  /\ data' = [data EXCEPT ![last] = <<msg>>]
  /\ last' = (last + 1) % gopSize
  /\ UNCHANGED first

FeedLastGopStrict(msg) ==
  LET idx == (last - 1 + gopSize) % gopSize
      takes == /\ ~IsGopRingEmpty
               /\ \/ SingleGopMaxFrameNum = 0
                  \/ Len(data[idx]) < SingleGopMaxFrameNum
  IN  /\ data' = IF takes THEN [data EXCEPT ![idx] = Append(@, msg)] ELSE data
      /\ UNCHANGED <<first, last>>

FeedNewGop(msg) ==
  /\ first' = IF IsGopRingFull THEN (first + 1) % gopSize ELSE first
  /\ data' = [data EXCEPT ![last] = <<msg>>]
  /\ last' = (last + 1) % gopSize

\* The newest GOP takes the frame unless there is none or it is full.
FeedLastGop(msg) ==
  LET idx == (last - 1 + gopSize) % gopSize
      takes == /\ ~IsGopRingEmpty
               /\ \/ SingleGopMaxFrameNum = 0
                  \/ Len(data[idx]) <= SingleGopMaxFrameNum
  IN  /\ data' = IF takes THEN [data EXCEPT ![idx] = Append(@, msg)] ELSE data
      /\ UNCHANGED <<first, last>>

\* Sequence headers and metadata are never cached as frames; a G711 or Opus
\* frame is a header and a frame.
FeedHeader(msg) ==
  /\ audioheader' = IF msg.kind \in {"aacHeader", "rawAudio"} THEN msg
                    ELSE audioheader
  /\ videoheader' = IF msg.kind = "videoHeader" THEN msg ELSE videoheader

IsFrame(msg) == msg.kind \in {"key", "inter", "aac", "rawAudio"}

Feed(msg) ==
  /\ FeedHeader(msg)
  /\ IF gopSize > 1 /\ IsFrame(msg)
     THEN IF IsVideoKeyNalu(msg) THEN FeedNewGop(msg) ELSE FeedLastGop(msg)
     ELSE UNCHANGED ring
  /\ fed' = fed + 1
  /\ hist' = Append(hist, msg)

\* Exported, but nothing in lalmax calls it.  The headers survive it.
Clear ==
  /\ first' = 0
  /\ last' = 0
  /\ hist' = << >>
  /\ UNCHANGED <<videoheader, audioheader, data, fed>>

FeedNext ==
  /\ fed < MaxMsgs
  /\ \E k \in Kinds : Feed([kind |-> k, seq |-> fed + 1])

Next == FeedNext \/ Clear

Spec == Init /\ [][Next]_cacheVars

-----------------------------------------------------------------------------
(***************************************************************************)
(* Properties.                                                             *)
(***************************************************************************)

\* The ring indices stay inside the ring and every slot holds a sequence of
\* messages.
TypeOK ==
  /\ videoheader \in Message \cup {NoMsg}
  /\ audioheader \in Message \cup {NoMsg}
  /\ data \in [Slots -> Seq(Message)]
  /\ first \in Slots
  /\ last \in Slots
  /\ fed \in 0 .. MaxMsgs
  /\ hist \in Seq(Message)

\* The GOPs that GetGopDataAt hands out, oldest first.
CachedGops == [i \in 1 .. GetGopCount |-> GetGopDataAt(i - 1)]

\* A sequence of GOPs that can be replayed: every GOP starts with a key frame
\* and holds no other, and no frame is older than one before it.
Replayable(gops) ==
  \A g \in DOMAIN gops :
    /\ gops[g] # << >>
    /\ \A i \in DOMAIN gops[g] : IsVideoKeyNalu(gops[g][i]) <=> i = 1
    /\ \A i, j \in DOMAIN gops[g] : i < j => gops[g][i].seq < gops[g][j].seq
    /\ \A h \in DOMAIN gops : g < h =>
         \A i \in DOMAIN gops[g], j \in DOMAIN gops[h] :
           gops[g][i].seq < gops[h][j].seq

\* What the cache hands out for position 0, 1, ... up to GetGopCount can be
\* replayed, although a slot is reused many times and keeps its frames when it
\* leaves the ring.
GopsReplayable == Replayable(CachedGops)

\* How many frames a GOP of the cache may hold: feedLastGop compares with <=
\* before it appends, so it is one more than the limit.
GopFrameBound ==
  SingleGopMaxFrameNum > 0 =>
    \A g \in DOMAIN CachedGops : Len(CachedGops[g]) <= SingleGopMaxFrameNum + 1

\* Reference: the GOPs of the stream, cut out of the history.
KeyPositions == {p \in 1 .. Len(hist) : IsVideoKeyNalu(hist[p])}

GopStartingAt(p) ==
  LET next == {q \in KeyPositions : q > p}
      upto == IF next = {} THEN Len(hist)
              ELSE (CHOOSE q \in next : \A r \in next : q <= r) - 1
      frames == SelectSeq(SubSeq(hist, p, upto), IsFrame)
  IN  IF SingleGopMaxFrameNum = 0 \/ Len(frames) <= SingleGopMaxFrameNum + 1
      THEN frames
      ELSE SubSeq(frames, 1, SingleGopMaxFrameNum + 1)

LatestGops ==
  LET keys == Cardinality(KeyPositions)
      n == IF keys < Keep THEN keys ELSE Keep
      \* the key frame that opens the i-th of the last n GOPs
      Opening(i) == CHOOSE p \in KeyPositions :
                      Cardinality({q \in KeyPositions : q > p}) = n - i
  IN  [i \in 1 .. n |-> GopStartingAt(Opening(i))]

\* The cache holds exactly the last gop_cache_num GOPs of the stream, each
\* with the frames that were published after its key frame, in order and
\* without a hole, cut at the frame limit.
CachedGopsAreLatest == CachedGops = LatestGops

\* The ring implements the window of GOPs.
Window == INSTANCE GopWindow WITH
            Messages <- [kind : Kinds, seq : 1 .. MaxMsgs],
            window <- CachedGops
RefinesGopWindow == Window!Spec

\* document/config.md: single_gop_max_frame_num is the number of frames that
\* are cached of one GOP.
DocGopFrameLimit ==
  SingleGopMaxFrameNum > 0 =>
    \A g \in DOMAIN CachedGops : Len(CachedGops[g]) <= SingleGopMaxFrameNum
=============================================================================
