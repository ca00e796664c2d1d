------------------------------- MODULE Sessions -------------------------------
(***************************************************************************)
(* One stream name with everything that hangs on it: lal's goroutine and   *)
(* the hook session it drives, the HLS server, the viewers of the four     *)
(* protocols and the publishers of two.  A step of a session that calls    *)
(* into another component is the conjunction of both components' actions.  *)
(*                                                                         *)
(* lal's goroutine makes its calls into a viewer one after another and is  *)
(* held up as long as one of them waits ("calling").                       *)
(***************************************************************************)
EXTENDS RtmpMsg, Sequences, FiniteSets

CONSTANTS
  Subscribers, GopCacheNum, SingleGopMaxFrameNum, Kinds, MaxMsgs, MaxSessions,
  Publishers,  \* clients that publish by WHIP or SRT
  Setups,      \* what meets: [viewer, publisher, hls, script, video, safari, raw]: protocols,
               \* whether HLS is on, the messages of each stream, the video codec, whether the
               \* browser is Safari, the codec of raw audio
  MaxLosses, MaxPayload, FrameSize, FragmentSamples, WriteChanSize, EncodeWrites, MaxSend,
  MaxEarly, PktChanSize

ASSUME SessionsAssumption ==
  /\ GopCacheNum \in Int /\ SingleGopMaxFrameNum \in Nat /\ Kinds \subseteq MsgKinds
  /\ MaxMsgs \in Nat /\ MaxSessions \in Nat
  /\ Subscribers \cap Publishers = {} /\ "none" \notin Subscribers \cup Publishers
  /\ \A s \in Setups :
       /\ s.viewer \in {"none", "whep", "jessibuca", "fmp4", "srt"}
       /\ s.publisher \in {"lal", "whip", "srt"}
       /\ s.hls \in BOOLEAN /\ s.safari \in BOOLEAN
       /\ s.script \in Seq(Kinds) /\ Len(s.script) <= MaxMsgs
       /\ s.video \in {"h264", "hevc"} /\ s.raw \in {"opus", "pcma", "pcmu"}
  /\ {FragmentSamples, MaxSend, MaxEarly, PktChanSize, MaxPayload} \subseteq Nat \ {0}
  /\ EncodeWrites \in Nat \ {0} /\ WriteChanSize \in Nat /\ EncodeWrites <= WriteChanSize
  /\ FrameSize \in Seq(Nat) /\ Len(FrameSize) >= MaxMsgs

VARIABLES
  videoheader, audioheader, data, first, last, fed, hist,
  session, registry, at, msg, hasVideo, owed, reachable,
  sub, home, hasSendVideo, got, stops,  \* of HookSession
  current, invalid, hls,                \* of HlsServer
  setup,    \* what meets here
  st, out,  \* of the sessions of viewers and publishers
  owner,    \* the client that has the stream name at lal, or None
  calling   \* the viewer lal's goroutine is inside a call of, or None

None == "none"

Hook == INSTANCE HookSession
Hls  == INSTANCE HlsServer WITH HlsSessions <- 1 .. MaxSessions
Whep == INSTANCE WhepSession
Jessibuca == INSTANCE JessibucaSession
Fmp4 == INSTANCE Fmp4Session
Srt  == INSTANCE SrtSubscriber
Whip == INSTANCE WhipSession
SrtPub == INSTANCE SrtPublisher

hookVars == <<videoheader, audioheader, data, first, last, fed, hist, session, registry, at, msg,
              hasVideo, owed, reachable, sub, home, hasSendVideo, got, stops>>
hlsVars == <<current, invalid, hls>>
sessionVars == <<st, out>>
vars == <<hookVars, hlsVars, sessionVars, setup, owner, calling>>

Init ==
  /\ Hook!Init /\ Hls!Init
  /\ setup \in Setups
  /\ st = [c \in Subscribers \cup Publishers |-> Whep!NoSession]
  /\ out = [c \in Subscribers \cup Publishers |-> <<>>]
  /\ owner = None /\ calling = None

-----------------------------------------------------------------------------
(* lal's goroutine *)

HlsDoes(A) == IF setup.hls THEN A ELSE UNCHANGED hlsVars

\* A stream begins, for a client of this program or for another.  A handler that is between
\* its lookup and the last header reads them first: the headers of a stream that has stopped do
\* not change, so what it reads is the same.
BeginStream(who) ==
  /\ \A c \in Subscribers : st[c].pc \notin {"new", "half"}
  /\ owner = None
  /\ Hook!NewHookSession
  /\ HlsDoes(Hls!New(session + 1))
  /\ owner' = who
  /\ UNCHANGED <<setup, calling>>

BeginMsg(kind) ==
  LET m == [kind |-> kind, seq |-> fed + 1] IN
  /\ Hook!OnMsg(m)
  /\ HlsDoes(Hls!OnMsg(m, setup.raw))
  /\ UNCHANGED <<setup, owner, calling>>

EndStream ==
  /\ Hook!OnStop
  /\ HlsDoes(Hls!OnStop)
  /\ UNCHANGED <<setup, owner, calling>>

\* OnMsg of the viewer, for all the messages it gets at once.
ViewerOnMsg(c, entries) ==
  CASE setup.viewer = "whep"      -> Whep!OnMsg(c, entries)
    [] setup.viewer = "jessibuca" -> Jessibuca!OnMsg(c, entries)
    [] setup.viewer = "fmp4"      -> Fmp4!OnMsg(c, entries)
    [] setup.viewer = "srt"       -> IF entries = <<>> THEN UNCHANGED sessionVars
                                     ELSE Srt!OnMsg(c, entries, videoheader, audioheader)
    [] OTHER                      -> FALSE

Deliver(c) ==
  /\ calling = None
  /\ Hook!Deliver(c)
  /\ ViewerOnMsg(c, Hook!Replay(c) \o Hook!Live(c))
  /\ calling' = IF setup.viewer = "srt" /\ Srt!Failed(c)' THEN c ELSE None
  /\ UNCHANGED <<hlsVars, setup, owner>>

\* The SRT viewer whose write failed removes itself inside the call.
SrtFails(c) ==
  /\ calling = c /\ at = "OnMsg"
  /\ Hook!RemoveConsumer(c) /\ Srt!Close(c)
  /\ calling' = None
  /\ UNCHANGED <<hlsVars, setup, owner>>

EndOnMsg ==
  /\ calling = None
  /\ Hook!EndOnMsg
  /\ UNCHANGED <<hlsVars, sessionVars, setup, owner, calling>>

\* Range reads the entry, which a removal has emptied, and calls OnStop.
CallOnStop(c) ==
  /\ calling = None /\ at = "OnStop" /\ c \in reachable /\ sub[c] = "added"
  /\ calling' = c
  /\ UNCHANGED <<hookVars, hlsVars, sessionVars, setup, owner>>

\* The fMP4 viewer removes itself inside the call.
Fmp4OnStop(c) ==
  /\ calling = c /\ at = "OnStop" /\ setup.viewer = "fmp4" /\ sub[c] = "added"
  /\ Hook!RemoveConsumer(c)
  /\ UNCHANGED <<hlsVars, sessionVars, setup, owner, calling>>

ViewerOnStop(c) ==
  CASE setup.viewer = "whep"      -> Whep!OnStop(c)
    [] setup.viewer = "jessibuca" -> Jessibuca!OnStop(c)
    [] setup.viewer = "fmp4"      -> sub[c] # "added" /\ UNCHANGED sessionVars
    [] setup.viewer = "srt"       -> Srt!Close(c)
    [] OTHER                      -> FALSE

OnStopReturns(c) ==
  /\ calling = c /\ at = "OnStop"
  /\ Hook!StopConsumer(c) /\ ViewerOnStop(c)
  /\ calling' = None
  /\ UNCHANGED <<hlsVars, setup, owner>>

EndOnStop ==
  /\ calling = None
  /\ Hook!EndOnStop
  /\ owner' = None
  /\ UNCHANGED <<hlsVars, sessionVars, setup, calling>>

LalStep ==
  \/ EndOnMsg \/ EndOnStop
  \/ \E c \in Subscribers :
       Deliver(c) \/ SrtFails(c) \/ CallOnStop(c) \/ Fmp4OnStop(c) \/ OnStopReturns(c)

-----------------------------------------------------------------------------
(* The goroutines of the viewers *)

HookUnchanged == UNCHANGED hookVars
Others == UNCHANGED <<hlsVars, setup, owner, calling>>

\* A viewer asks for the stream, and there is one.
ViewerArrives(c) ==
  /\ CASE setup.viewer = "whep"      -> Whep!NewWhepSession(c)
       [] setup.viewer = "jessibuca" -> Jessibuca!NewJessibucaSession(c)
       [] setup.viewer = "fmp4"      -> Fmp4!NewFmp4Session(c)
       [] setup.viewer = "srt"       -> Srt!NewSubscriber(c)
       [] OTHER                      -> FALSE
  /\ Hook!GetHookSession(c)
  /\ Others

WhepHandler(c) ==
  \/ Whep!AddVideoTrack(c, videoheader, setup) /\ HookUnchanged
  \/ Whep!AddAudioTrack(c, audioheader, setup) /\ HookUnchanged
  \/ Whep!NoAnswer(c) /\ HookUnchanged
  \/ Whep!Run(c) /\ Hook!AddConsumer(c)

\* Mutant: a session whose loop has ended stays among the consumers.
WhepLoopStays(c) == (Whep!TakeMsg(c) \/ Whep!TakeClose(c)) /\ HookUnchanged

WhepLoop(c) ==
  \/ Whep!TakeMsg(c) /\ HookUnchanged
  \/ Whep!TakeClose(c) /\ Hook!RemoveConsumer(c)

JessibucaHandler(c) ==
  \/ Jessibuca!GetAnswerSDP(c) /\ HookUnchanged
  \/ Jessibuca!Run(c, IF registry # 0 THEN "found" ELSE "returned") /\ HookUnchanged
  \/ Jessibuca!Join(c) /\ Hook!AddConsumer(c)

JessibucaLoop(c) ==
  \/ (Jessibuca!TakeMsg(c) \/ Jessibuca!TakeClose(c) \/ Jessibuca!ClosePeer(c)) /\ HookUnchanged
  \/ Jessibuca!Leave(c) /\ Hook!RemoveConsumer(c)

Fmp4Handler(c) ==
  \/ Fmp4!ReadVideoHeader(c, videoheader) /\ HookUnchanged
  \/ Fmp4!Answer(c, audioheader) /\ HookUnchanged
  \/ Fmp4!Join(c) /\ Hook!AddConsumer(c)
  \/ Fmp4!WriteInit(c) /\ HookUnchanged
  \/ st[c].pc = "disposed" /\ sub[c] = "added" /\ Hook!RemoveConsumer(c) /\ UNCHANGED sessionVars
  \/ sub[c] # "added" /\ Fmp4!Close(c) /\ HookUnchanged

SrtHandler(c) ==
  \/ Srt!Join(c) /\ Hook!AddConsumer(c)
  \/ Srt!SetOnPacket(c) /\ HookUnchanged

\* What the program does for a viewer.
ViewerStep(c) ==
  /\ CASE setup.viewer = "whep"      -> WhepHandler(c) \/ WhepLoop(c)
       [] setup.viewer = "jessibuca" -> JessibucaHandler(c) \/ JessibucaLoop(c)
       [] setup.viewer = "fmp4"      -> Fmp4Handler(c)
       [] setup.viewer = "srt"       -> SrtHandler(c)
       [] OTHER                      -> FALSE
  /\ Others

\* A callback of pion sends on closeChan.
Callback(c) ==
  /\ CASE setup.viewer = "whep" /\ c \in Subscribers -> Whep!CallbackSends(c, Whep!CloseSize)
       [] setup.viewer = "jessibuca" /\ c \in Subscribers ->
            Jessibuca!CallbackSends(c, Jessibuca!CloseSize)
       [] setup.publisher = "whip" /\ c \in Publishers -> Whip!CallbackSends(c, Whip!CloseSize)
       [] OTHER -> FALSE
  /\ HookUnchanged /\ Others

\* Nothing that takes no time is left to do: a callback or lal can send, the loop can take
\* what was sent.
Settled(c, size) ==
  /\ st[c].close < size => calling # c /\ st[c].senders = 0
  /\ st[c].pc \in {"run", "loop"} => st[c].close = 0
  /\ st[c].pc \notin {"leaving", "removed"}

WebRtcClient(c) ==
  \/ setup.viewer = "whep" /\ Whep!Heard(c) /\ Settled(c, Whep!CloseSize)
     /\ (Whep!Ice(c) \/ Whep!IceReturns(c))
  \/ setup.viewer = "jessibuca" /\ Jessibuca!Heard(c) /\ Settled(c, Jessibuca!CloseSize)
     /\ (Jessibuca!Ice(c) \/ Jessibuca!IceReturns(c) \/ Jessibuca!OnOpen(c))

\* What the client does, and its network.
ViewerClient(c) ==
  /\ CASE setup.viewer \in {"whep", "jessibuca"} -> WebRtcClient(c)
       [] setup.viewer = "fmp4"      -> Fmp4!ReadReturns(c)
       [] setup.viewer = "srt"       -> Srt!PlayerLeaves(c)
       [] OTHER                      -> FALSE
  /\ HookUnchanged /\ Others

-----------------------------------------------------------------------------
(* Publishers *)

MoreToSend(n) == n < Len(setup.script)

\* lal gets a stream from elsewhere.
Elsewhere ==
  /\ setup.publisher = "lal"
  /\ \/ BeginStream(None) /\ UNCHANGED sessionVars
     \/ MoreToSend(fed) /\ BeginMsg(setup.script[fed + 1]) /\ UNCHANGED sessionVars
     \/ EndStream /\ UNCHANGED sessionVars

NoCall == HookUnchanged /\ Others

PublisherBegins(p) ==
  \/ setup.publisher = "whip" /\ Whip!NewWhipSession(p) /\ BeginStream(p)
  \/ setup.publisher = "srt" /\ SrtPub!HandlePublish(p) /\ BeginStream(p)
  \/ /\ setup.publisher = "srt" /\ owner # None /\ at # "OnStop"
     /\ SrtPub!HandleTaken(p) /\ NoCall

\* The goroutine that feeds lal, and gives the name back in the end.
PublisherStep(p) ==
  \/ /\ setup.publisher = "whip"
     /\ \/ Whip!GetAnswerSDP(p) /\ NoCall
        \/ Whip!TakePkt(p) /\ BeginMsg(Head(st[p].pktChan).kind)
        \/ Whip!TakeClose(p) /\ EndStream
  \/ setup.publisher = "srt" /\ SrtPub!Remove(p) /\ EndStream

PublisherClient(p) ==
  \/ /\ setup.publisher = "whip"
     /\ Whip!Heard(p) /\ NoCall
     /\ \/ Settled(p, Whip!CloseSize) /\ (Whip!Ice(p) \/ Whip!IceReturns(p))
        \/ MoreToSend(st[p].read) /\ Whip!UnPack(p, setup.script[st[p].read + 1], setup.raw)
  \/ /\ setup.publisher = "srt"
     /\ \/ SrtPub!OnFrame(p) /\ MoreToSend(fed) /\ BeginMsg(setup.script[fed + 1])
        \/ (SrtPub!ConnectionEnds(p) \/ SrtPub!CallNil(p)) /\ NoCall

-----------------------------------------------------------------------------
Clean ==
  /\ \E i \in 1 .. MaxSessions : Hls!CleanInvalidSession(i)
  /\ HookUnchanged /\ UNCHANGED <<sessionVars, setup, owner, calling>>

\* A goroutine of a publisher has panicked, which ends the process.
Crashed == \E p \in Publishers : st[p].pc = "panicked"

Next ==
  /\ ~Crashed
  /\ \/ LalStep \/ Elsewhere \/ Clean
     \/ \E c \in Subscribers : ViewerArrives(c) \/ ViewerStep(c) \/ ViewerClient(c)
     \/ \E p \in Publishers : PublisherBegins(p) \/ PublisherStep(p) \/ PublisherClient(p)
     \/ \E c \in Subscribers \cup Publishers : Callback(c)

\* Goroutines run on as long as the process does; viewers, publishers and their networks do
\* as they like.
Fairness ==
  /\ WF_vars(~Crashed /\ LalStep) /\ WF_vars(~Crashed /\ Clean)
  /\ \A c \in Subscribers : WF_vars(~Crashed /\ ViewerStep(c))
  /\ \A p \in Publishers : WF_vars(~Crashed /\ PublisherStep(p))
  /\ \A c \in Subscribers \cup Publishers : WF_vars(~Crashed /\ Callback(c))

Spec == Init /\ [][Next]_vars /\ Fairness
-----------------------------------------------------------------------------
(* Properties *)

PcType == {"idle", "new", "half", "answered", "refused", "found", "joined", "run", "returned",
           "loop", "headless", "leaving", "removed", "closed", "reading", "disposed", "nil",
           "panicked"}

PeerType(c, size) ==
  Whep!HasPeer(c) =>
    /\ st[c].ice \in {"new", "connected"} \cup Whep!Lost
    /\ st[c].close \in 0 .. size /\ st[c].senders \in Nat

\* Types, and what no channel or buffer may outgrow.
TypeOK ==
  /\ Hook!TypeOK
  /\ owner \in Publishers \cup {None} /\ calling \in Subscribers \cup {None}
  /\ \A c \in Subscribers \cup Publishers : st[c].pc \in PcType
  /\ \A p \in Publishers :
       setup.publisher = "whip" /\ st[p].pc # "idle" =>
         PeerType(p, Whip!CloseSize) /\ Len(st[p].pktChan) <= PktChanSize
  /\ \A c \in Subscribers : st[c].pc # "idle" =>
       CASE setup.viewer = "whep"      -> PeerType(c, Whep!CloseSize)
         [] setup.viewer = "jessibuca" -> PeerType(c, Jessibuca!CloseSize)
         [] setup.viewer = "fmp4"      ->
              /\ Len(st[c].vfragment.samples) <= FragmentSamples + 1
              /\ Len(st[c].afragment.samples) <= FragmentSamples + 1
              /\ st[c].queued \in 0 .. WriteChanSize
         [] setup.viewer = "srt"       -> Len(st[c].sendBuf) <= MaxSend
  /\ current \in {0, session} /\ invalid \subseteq 1 .. session
  /\ current = session \/ at \in {"gone", "OnStop"} \/ ~setup.hls

-----------------------------------------------------------------------------
(* What the hook session calls a viewer with is either with the client or waiting, in order,  *)
(* once.                                                                                       *)

Core(e) == [kind |-> e.kind, seq |-> e.seq]
Cores(es) == [i \in DOMAIN es |-> Core(es[i])]
Picked(c, kinds) == Cores(OfKinds(got[c], kinds))

\* A WHEP client gets the pictures if it has a track for them, and all audio if it has one for
\* audio, whole.  (How much of a frame is in its packets for Safari is another matter:
\* SafariTotal of SessionsProofs.)
WhepConserves(c) ==
  LET kinds == (IF st[c].video = "none" THEN {} ELSE {"key", "inter"})
               \cup (IF st[c].audio = "none" THEN {} ELSE AudioKinds)
  IN  /\ Cores(out[c] \o st[c].box) = Picked(c, kinds)
      /\ \A i \in DOMAIN out[c] :
           ~(IsVideo(out[c][i]) /\ st[c].video = "hevc")
             => out[c][i].bytes = FrameSize[out[c][i].seq]

\* A Jessibuca client with a data channel gets everything behind the FLV header, as long as the
\* session has not begun to leave.
JessibucaConserves(c) ==
  st[c].dc /\ st[c].pc \in {"joined", "headless", "loop"} =>
    Cores((IF st[c].pc = "loop" THEN Tail(out[c]) ELSE <<>>) \o st[c].box) = Picked(c, MsgKinds)

\* Each message of an fMP4 client's tracks is in one fragment that was handed to Encode, or in
\* the unfinished one, in order, and no two fragments have one number.  How much of an encoded
\* fragment the connection takes is in its "writes".
Samples(c, box) ==
  Concatenation([i \in DOMAIN out[c] |-> IF out[c][i].box = box THEN out[c][i].samples ELSE <<>>])

Fmp4Conserves(c) ==
  st[c].pc # "closed" =>
    /\ Samples(c, "video") \o st[c].vfragment.samples = Picked(c, VideoKinds)
    /\ Samples(c, "audio") \o st[c].afragment.samples = Picked(c, {"aac", "aacHeader"})
    /\ \A i, j \in DOMAIN out[c] : out[c][i].number = out[c][j].number => i = j

\* An SRT client gets what came after OnPacket was set, of the kinds whose header was known
\* when the first message came; nothing as long as the stream has other audio.
SrtConserves(c) ==
  st[c].pc = "run" /\ st[c].conn \in {"open", "left"} =>
    LET kinds == (IF st[c].video THEN {"key", "inter"} ELSE {})
                 \cup (IF st[c].audio THEN {"aac"} ELSE {})
        late  == SubSeq(got[c], st[c].missed + 1, Len(got[c]))
    IN  Cores(out[c] \o st[c].sendBuf)
          = Cores(OfKinds(late, kinds))

\* The frames that came of a WHIP client's packets are with lal or in pktChan, in order, once,
\* as long as its session runs.
WhipConserves(p) ==
  st[p].pc = "run" =>
    out[p] = hist \o (IF at = "OnMsg" THEN <<msg>> ELSE <<>>) \o st[p].pktChan

\* Between the hook session and the samples, packets and writes made for the client of any
\* protocol, and between the track of a WHIP client and lal, no message is lost, repeated or
\* moved, whatever the sizes of the channels and buffers on the way and the turns the
\* goroutines take: exactly the messages above are left out.  (What a connection loses of the
\* writes made to it is not in this.)
NothingLostOnTheWay ==
  /\ \A c \in Subscribers :
       st[c].pc \notin {"idle", "new", "half", "answered", "refused", "found"} =>
         CASE setup.viewer = "whep"      -> WhepConserves(c)
           [] setup.viewer = "jessibuca" -> JessibucaConserves(c)
           [] setup.viewer = "fmp4"      -> Fmp4Conserves(c)
           [] setup.viewer = "srt"       -> calling # c => SrtConserves(c)
           [] OTHER                      -> TRUE
  /\ setup.publisher = "whip" => \A p \in Publishers : owner = p => WhipConserves(p)

-----------------------------------------------------------------------------
(* HLS *)

\* The number of the last message of that kind before n.
InForce(kind, n) == Hook!InForce(kind, n)

\* From its first message on, the frames of the stream, each key frame with the parameter sets
\* in force, are in the muxer once it is started, and before that wait for it: what it was kept
\* for is neither lost nor written twice when the second codec shows.  Audio counts when its
\* codec was known at the start and is one that HLS has.
HlsHasEveryFrame ==
  setup.hls /\ current = session /\ at = "live" =>
    LET s     == hls[session]
        kinds == (IF s.video \/ ~s.done THEN {"key", "inter"} ELSE {})
                 \cup (IF s.audio = "aac" THEN {"aac"} ELSE {})
                 \cup (IF s.audio = "opus" THEN {"rawAudio"} ELSE {})
        frame(m) == [kind |-> m.kind, seq |-> m.seq,
                     header |-> IF m.kind = "key" THEN InForce("videoHeader", m.seq) ELSE 0]
        units == OfKinds(IF s.done THEN s.muxed ELSE s.data, kinds)
        sent  == OfKinds(hist, kinds)
    IN  units = [i \in DOMAIN sent |-> frame(sent[i])]

\* The muxer of a stream that stopped is closed in the end, unless the process ends first.
HlsMuxersClosed ==
  \A i \in 1 .. MaxSessions : []<>(Crashed \/ (hls[i].muxer = "started" => current = i))

-----------------------------------------------------------------------------
(* Ends *)

\* A viewer that was told of the end of the stream, or whose connection has failed, does not
\* stay: a WHEP session leaves the consumers, an SRT connection is closed, an fMP4 session
\* leaves the consumers (its connection stays until the player closes it), and so does a
\* Jessibuca session whose data channel was open.
Released(c) ==
  CASE setup.viewer = "whep"      -> st[c].pc \in {"returned", "refused"} \/ sub[c] = "idle"
    [] setup.viewer = "jessibuca" -> st[c].pc # "loop"
    [] setup.viewer = "fmp4"      -> sub[c] = "removed"
    [] setup.viewer = "srt"       -> st[c].conn = "closed"

ViewerReleased ==
  \A c \in Subscribers :
    []<>(Crashed \/ (stops[c] > 0 \/ Whep!IceFailed(c) => Released(c)))

\* lal's goroutine comes out of every call into a viewer, so that the stream can go on and end,
\* except out of OnStop of a Jessibuca session whose loop does not run: the data channel never
\* opened, or the loop has ended while the walk was at this session.
LalMovesOn ==
  []<>(Crashed \/ calling = None
       \/ \E c \in Subscribers : setup.viewer = "jessibuca" /\ st[c].pc # "loop")

\* A publisher whose connection has gone gives the stream name back, unless it never got an
\* answer.
Gone(p) ==
  CASE setup.publisher = "whip" -> Whip!IceFailed(p)
    [] setup.publisher = "srt"  -> st[p].pc = "run" /\ st[p].conn = "ended"
    [] OTHER                    -> FALSE

=============================================================================
