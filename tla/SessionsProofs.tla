---------------------------- MODULE SessionsProofs ----------------------------
(***************************************************************************)
(* Proofs about one stream name with everything that hangs on it, for      *)
(* every set of viewers and publishers, every setup and every bound:       *)
(*   - the fan-out of HookSession, with all that is proved of it           *)
(*     (FanOutHolds, FanOutHeaders);                                       *)
(*   - what each protocol's session does with the messages it is called    *)
(*     with, one by one (WhepStep, JessibucaStep, Fmp4Step, SrtStep and    *)
(*     the lemmas ...Given), and a WHIP session with the frames of its     *)
(*     track (WhipMoves), hence NothingLostAlways;                         *)
(*   - the same of the HLS server (HlsHasEveryFrameAlways);                *)
(*   - the types and limits of all of it (TypeOKAlways).                   *)
(***************************************************************************)
EXTENDS Sessions, TLAPS

-----------------------------------------------------------------------------
(***************************************************************************)
(* Who changes whose session.                                              *)
(***************************************************************************)

Clients == Subscribers \cup Publishers

\* A step that changes no session but that of c, nor what another client was sent.
Only(c) ==
  /\ DOMAIN st' = DOMAIN st /\ DOMAIN out' = DOMAIN out
  /\ \A d \in DOMAIN st : d # c => st'[d] = st[d]
  /\ \A d \in DOMAIN out : d # c => out'[d] = out[d]

LEMMA OnlyExcept ==
  ASSUME NEW c, NEW r, st' = [st EXCEPT ![c] = r], UNCHANGED out
  PROVE  Only(c)
BY DEF Only

LEMMA OnlyNone ==
  ASSUME NEW c, UNCHANGED <<st, out>>
  PROVE  Only(c)
BY DEF Only

LEMMA PeerOnly ==
  ASSUME NEW c
  PROVE  /\ \A size : Whep!CallbackSends(c, size) => Only(c)
         /\ \A size : Jessibuca!CallbackSends(c, size) => Only(c)
         /\ \A size : Whip!CallbackSends(c, size) => Only(c)
         /\ Whep!Ice(c) \/ Whep!IceReturns(c) => Only(c)
         /\ Jessibuca!Ice(c) \/ Jessibuca!IceReturns(c) => Only(c)
         /\ Whip!Ice(c) \/ Whip!IceReturns(c) => Only(c)
<1>1. \A size : Whep!CallbackSends(c, size) => Only(c)
  BY DEF Whep!CallbackSends, Whep!Signal, Only
<1>2. \A size : Jessibuca!CallbackSends(c, size) => Only(c)
  BY DEF Jessibuca!CallbackSends, Jessibuca!Signal, Only
<1>3. \A size : Whip!CallbackSends(c, size) => Only(c)
  BY DEF Whip!CallbackSends, Whip!Signal, Only
<1>4. Whep!Ice(c) \/ Whep!IceReturns(c) => Only(c)
  BY DEF Whep!Ice, Whep!Change, Whep!IceReturns, Only
<1>5. Jessibuca!Ice(c) \/ Jessibuca!IceReturns(c) => Only(c)
  BY DEF Jessibuca!Ice, Jessibuca!Change, Jessibuca!IceReturns, Only
<1>6. Whip!Ice(c) \/ Whip!IceReturns(c) => Only(c)
  BY DEF Whip!Ice, Whip!Change, Whip!IceReturns, Only
<1>. QED BY <1>1, <1>2, <1>3, <1>4, <1>5, <1>6

LEMMA WhepOnly ==
  ASSUME NEW c
  PROVE  /\ Whep!NewWhepSession(c) => Only(c)
         /\ \A h, s : Whep!AddVideoTrack(c, h, s) \/ Whep!AddAudioTrack(c, h, s) => Only(c)
         /\ Whep!NoAnswer(c) \/ Whep!Run(c) \/ Whep!TakeMsg(c) \/ Whep!TakeClose(c) => Only(c)
         /\ \A es : Whep!OnMsg(c, es) => Only(c)
         /\ Whep!OnStop(c) => Only(c)
<1>1. Whep!NewWhepSession(c) => Only(c)
  BY Zenon, OnlyExcept DEF Whep!NewWhepSession
<1>2. \A h, s : Whep!AddVideoTrack(c, h, s) \/ Whep!AddAudioTrack(c, h, s) => Only(c)
  BY DEF Whep!AddVideoTrack, Whep!AddAudioTrack, Only
<1>3. Whep!NoAnswer(c) \/ Whep!Run(c) \/ Whep!TakeMsg(c) \/ Whep!TakeClose(c) => Only(c)
  BY DEF Whep!NoAnswer, Whep!Run, Whep!TakeMsg, Whep!TakeClose, Only
<1>4. \A es : Whep!OnMsg(c, es) => Only(c)
  BY Zenon DEF Whep!OnMsg, Only
<1>5. Whep!OnStop(c) => Only(c)
  BY DEF Whep!OnStop, Whep!Signal, Only
<1>. QED BY <1>1, <1>2, <1>3, <1>4, <1>5

LEMMA JessibucaOnly ==
  ASSUME NEW c
  PROVE  /\ Jessibuca!NewJessibucaSession(c) => Only(c)
         /\ Jessibuca!GetAnswerSDP(c) \/ Jessibuca!Join(c) \/ Jessibuca!OnOpen(c) => Only(c)
         /\ \A pc : Jessibuca!Run(c, pc) => Only(c)
         /\ Jessibuca!TakeMsg(c) \/ Jessibuca!TakeClose(c) => Only(c)
         /\ Jessibuca!Leave(c) \/ Jessibuca!ClosePeer(c) => Only(c)
         /\ \A es : Jessibuca!OnMsg(c, es) => Only(c)
         /\ Jessibuca!OnStop(c) => Only(c)
<1>1. Jessibuca!NewJessibucaSession(c) => Only(c)
  BY Zenon, OnlyExcept DEF Jessibuca!NewJessibucaSession
<1>2. Jessibuca!GetAnswerSDP(c) \/ Jessibuca!Join(c) \/ Jessibuca!OnOpen(c) => Only(c)
  BY DEF Jessibuca!GetAnswerSDP, Jessibuca!Join, Jessibuca!OnOpen, Only
<1>3. \A pc : Jessibuca!Run(c, pc) => Only(c)
  BY DEF Jessibuca!Run, Only
<1>4. Jessibuca!TakeMsg(c) \/ Jessibuca!TakeClose(c) => Only(c)
  BY DEF Jessibuca!TakeMsg, Jessibuca!TakeClose, Only
<1>5. Jessibuca!Leave(c) \/ Jessibuca!ClosePeer(c) => Only(c)
  BY DEF Jessibuca!Leave, Jessibuca!ClosePeer, Only
<1>6. \A es : Jessibuca!OnMsg(c, es) => Only(c)
  BY DEF Jessibuca!OnMsg, Only
<1>7. Jessibuca!OnStop(c) => Only(c)
  BY DEF Jessibuca!OnStop, Only
<1>. QED BY <1>1, <1>2, <1>3, <1>4, <1>5, <1>6, <1>7

LEMMA Fmp4Only ==
  ASSUME NEW c
  PROVE  /\ Fmp4!NewFmp4Session(c) => Only(c)
         /\ \A h : Fmp4!ReadVideoHeader(c, h) \/ Fmp4!Answer(c, h) => Only(c)
         /\ Fmp4!Join(c) \/ Fmp4!WriteInit(c) \/ Fmp4!ReadReturns(c) \/ Fmp4!Close(c) => Only(c)
         /\ \A es : Fmp4!OnMsg(c, es) => Only(c)
<1>1. Fmp4!NewFmp4Session(c) => Only(c)
  BY DEF Fmp4!NewFmp4Session, Only
<1>2. \A h : Fmp4!ReadVideoHeader(c, h) \/ Fmp4!Answer(c, h) => Only(c)
  BY DEF Fmp4!ReadVideoHeader, Fmp4!Answer, Only
<1>3. Fmp4!Join(c) \/ Fmp4!WriteInit(c) \/ Fmp4!ReadReturns(c) \/ Fmp4!Close(c) => Only(c)
  BY DEF Fmp4!Join, Fmp4!WriteInit, Fmp4!ReadReturns, Fmp4!Close, Only
<1>4. \A es : Fmp4!OnMsg(c, es) => Only(c)
  BY DEF Fmp4!OnMsg, Only
<1>. QED BY <1>1, <1>2, <1>3, <1>4

LEMMA SrtOnly ==
  ASSUME NEW c
  PROVE  /\ Srt!NewSubscriber(c) => Only(c)
         /\ Srt!SetOnPacket(c) => Only(c)
         /\ Srt!Join(c) \/ Srt!PlayerLeaves(c) \/ Srt!Close(c) => Only(c)
         /\ \A es, v, a : Srt!OnMsg(c, es, v, a) => Only(c)
<1>1. Srt!NewSubscriber(c) => Only(c)
  BY DEF Srt!NewSubscriber, Only
<1>2. Srt!SetOnPacket(c) => Only(c)
  BY DEF Srt!SetOnPacket, Only
<1>3. Srt!Join(c) \/ Srt!PlayerLeaves(c) \/ Srt!Close(c) => Only(c)
  BY DEF Srt!Join, Srt!PlayerLeaves, Srt!Close, Only
<1>4. \A es, v, a : Srt!OnMsg(c, es, v, a) => Only(c)
  BY Zenon DEF Srt!OnMsg, Only
<1>. QED BY <1>1, <1>2, <1>3, <1>4


LEMMA SrtPubOnly ==
  ASSUME NEW p
  PROVE  SrtPub!HandlePublish(p) \/ SrtPub!HandleTaken(p) \/ SrtPub!CallNil(p)
         \/ SrtPub!OnFrame(p) \/ SrtPub!ConnectionEnds(p) \/ SrtPub!Remove(p) => Only(p)
BY DEF SrtPub!HandlePublish, SrtPub!HandleTaken, SrtPub!CallNil, SrtPub!OnFrame,
      SrtPub!ConnectionEnds, SrtPub!Remove, Only

-----------------------------------------------------------------------------
(***************************************************************************)
(* Publishers by WHIP: what they put in pktChan are messages of the        *)
(* stream.                                                                 *)
(***************************************************************************)

Frame == [kind : Kinds, seq : Nat]

WhipRecord ==
  [pc : {"new", "run", "refused", "returned", "panicked"},
   ice : {"new", "connected"} \cup Whip!Lost,
   losses : Nat, close : 0 .. Whip!CloseSize, senders : Nat, pktChan : Seq(Frame), read : Nat]

WhipSound(p) == st[p] = Whip!NoSession \/ st[p] \in WhipRecord

Shape ==
  /\ DOMAIN st = Clients /\ DOMAIN out = Clients
  /\ setup.publisher = "whip" => \A p \in Publishers : WhipSound(p) /\ out[p] \in Seq(Frame)

\* The invariant of this module.
Sound ==
  /\ setup \in Setups
  /\ fed \in Nat
  /\ Shape

LEMMA ScriptKinds ==
  ASSUME setup \in Setups, NEW n \in Nat, MoreToSend(n)
  PROVE  setup.script[n + 1] \in Kinds
<1>1. setup.script \in Seq(Kinds) /\ n < Len(setup.script)
  BY SessionsAssumption DEF SessionsAssumption, MoreToSend
<1>2. n + 1 \in 1 .. Len(setup.script)
  BY <1>1
<1>. QED BY <1>1, <1>2

\* What a step of a WHIP session makes of its record.
LEMMA WhipKeeps ==
  ASSUME NEW p \in Clients, DOMAIN st = Clients, DOMAIN out = Clients,
         WhipSound(p), out[p] \in Seq(Frame),
         \/ Whip!NewWhipSession(p) \/ Whip!GetAnswerSDP(p)
         \/ Whip!TakePkt(p) \/ Whip!TakeClose(p)
         \/ Whip!Heard(p) /\ (Whip!Ice(p) \/ Whip!IceReturns(p))
         \/ Whip!Heard(p) /\ \E kind \in Kinds : Whip!UnPack(p, kind, setup.raw)
         \/ st[p] \in WhipRecord /\ Whip!CallbackSends(p, Whip!CloseSize)
  PROVE  Only(p) /\ st'[p] \in WhipRecord /\ out'[p] \in Seq(Frame)
<1>. USE DEF WhipSound
<1>. Clients # {}
  OBVIOUS
<1>1. CASE Whip!NewWhipSession(p)
  BY <1>1 DEF Whip!NewWhipSession, Only, Whip!CloseSize, WhipRecord
<1>2. CASE Whip!GetAnswerSDP(p)
  BY <1>2 DEF Whip!GetAnswerSDP, Whip!NoSession, Only, WhipRecord
<1>3. CASE Whip!TakePkt(p)
  <2>1. st[p] \in WhipRecord /\ Tail(st[p].pktChan) \in Seq(Frame)
    BY <1>3 DEF Whip!TakePkt, Whip!NoSession, WhipRecord
  <2>. QED BY <1>3, <2>1 DEF Whip!TakePkt, Only, WhipRecord
<1>4. CASE Whip!TakeClose(p)
  BY <1>4 DEF Whip!TakeClose, Whip!NoSession, Only, WhipRecord
<1>5. CASE Whip!Heard(p) /\ (Whip!Ice(p) \/ Whip!IceReturns(p))
  <2>1. st[p] \in WhipRecord
    BY <1>5 DEF Whip!Heard, Whip!NoSession
  <2>2. CASE Whip!Ice(p)
    BY <2>1, <2>2, SMTT(30) DEF Whip!Ice, Whip!Change, Whip!Lost, Only, WhipRecord
  <2>3. CASE Whip!IceReturns(p)
    BY <2>1, <2>3 DEF Whip!IceReturns, Whip!Change, Whip!Lost, Only, WhipRecord
  <2>. QED BY <1>5, <2>2, <2>3
<1>6. CASE Whip!Heard(p) /\ \E kind \in Kinds : Whip!UnPack(p, kind, setup.raw)
  <2>1. PICK kind \in Kinds : Whip!UnPack(p, kind, setup.raw)
    BY <1>6
  <2>2. st[p] \in WhipRecord
    BY <1>6 DEF Whip!Heard, Whip!NoSession
  <2>3. PICK m : m = [kind |-> kind, seq |-> Len(out[p]) + 1]
    OBVIOUS
  <2>4. m \in Frame
    BY <2>3 DEF Frame
  <2>5. CASE st' = [st EXCEPT ![p].read = @ + 1] /\ UNCHANGED out
    BY <2>2, <2>5, SMTT(30) DEF Only, WhipRecord
  <2>6. CASE st' = [st EXCEPT ![p].pc = "panicked"] /\ UNCHANGED out
    BY <2>2, <2>6 DEF Only, WhipRecord
  <2>7. CASE /\ st' = [st EXCEPT ![p].read = @ + 1, ![p].pktChan = Append(@, m)]
             /\ out' = [out EXCEPT ![p] = Append(@, m)]
    <3>1. Append(st[p].pktChan, m) \in Seq(Frame) /\ Append(out[p], m) \in Seq(Frame)
      BY <2>2, <2>4 DEF WhipRecord
    <3>. DEFINE n == st[p].read + 1
                q == Append(st[p].pktChan, m)
                t == [st[p] EXCEPT !.read = n, !.pktChan = q]
    <3>2. st' = [st EXCEPT ![p] = t]
      BY <2>7
    <3>3. n \in Nat /\ q \in Seq(Frame)
      BY <2>2, <3>1 DEF WhipRecord
    <3>. HIDE DEF n, q
    <3>4. t \in WhipRecord
      BY <2>2, <3>3 DEF WhipRecord
    <3>. HIDE DEF t
    <3>. QED BY <2>7, <3>1, <3>2, <3>4 DEF Only
  <2>. QED BY Zenon, <2>1, <2>3, <2>5, <2>6, <2>7 DEF Whip!UnPack
<1>7. CASE st[p] \in WhipRecord /\ Whip!CallbackSends(p, Whip!CloseSize)
  BY <1>7 DEF Whip!CallbackSends, Whip!Signal, Only, WhipRecord
<1>. QED BY <1>1, <1>2, <1>3, <1>4, <1>5, <1>6, <1>7

\* A step of a viewer leaves the publishers alone.
LEMMA ViewerKeeps ==
  ASSUME Sound, NEW c \in Subscribers, Only(c), UNCHANGED setup
  PROVE  Shape'
<1>1. \A p \in Publishers : p # c /\ p \in Clients
  BY SessionsAssumption DEF SessionsAssumption, Clients
<1>2. \A p \in Publishers : st'[p] = st[p] /\ out'[p] = out[p]
  BY <1>1 DEF Only, Sound, Shape
<1>. QED BY <1>2 DEF Only, Sound, Shape, WhipSound

\* So does a step of a publisher by WHIP, but for its own record, and any step of another
\* publisher when none is by WHIP.
LEMMA WhipStep ==
  ASSUME Sound, NEW p \in Publishers, Only(p), st'[p] \in WhipRecord, out'[p] \in Seq(Frame),
         UNCHANGED setup
  PROVE  Shape'
<1>1. \A q \in Publishers : q # p => st'[q] = st[q] /\ out'[q] = out[q]
  BY DEF Only, Sound, Shape, Clients
<1>. QED BY <1>1 DEF Only, Sound, Shape, WhipSound

LEMMA OtherStep ==
  ASSUME Sound, NEW p \in Publishers, Only(p), setup.publisher # "whip", UNCHANGED setup
  PROVE  Shape'
BY DEF Only, Sound, Shape

\* A step that changes no session.
LEMMA NoStep ==
  ASSUME Sound, UNCHANGED <<st, out, setup>>
  PROVE  Shape'
BY DEF Sound, Shape, WhipSound

-----------------------------------------------------------------------------
(***************************************************************************)
(* What each step does to the hook session.                                *)
(***************************************************************************)

HookStep == Hook!Next \/ UNCHANGED hookVars

LEMMA BeginMsgStep ==
  ASSUME NEW kind \in Kinds, BeginMsg(kind)
  PROVE  Hook!Next
BY DEF BeginMsg, Hook!Next, Hook!Publisher

\* lal's goroutine.
LEMMA LalStepMaps ==
  ASSUME Sound, LalStep
  PROVE  HookStep /\ Shape' /\ UNCHANGED setup
<1>1. CASE EndOnMsg
  BY <1>1, NoStep DEF EndOnMsg, HookStep, Hook!Next, Hook!Publisher, sessionVars
<1>2. CASE EndOnStop
  BY <1>2, NoStep DEF EndOnStop, HookStep, Hook!Next, Hook!Publisher, sessionVars
<1>3. ASSUME NEW c \in Subscribers, Deliver(c)
      PROVE  HookStep /\ Shape' /\ UNCHANGED setup
  <2>1. Hook!Deliver(c) /\ UNCHANGED setup /\ ViewerOnMsg(c, Hook!Replay(c) \o Hook!Live(c))
    BY <1>3 DEF Deliver
  <2>2. \A es : ViewerOnMsg(c, es) => Only(c)
    BY WhepOnly, JessibucaOnly, Fmp4Only, SrtOnly, OnlyNone DEF ViewerOnMsg, sessionVars
  <2>3. Only(c)
    BY <2>1, <2>2
  <2>. QED BY <2>1, <2>3, ViewerKeeps DEF HookStep, Hook!Next, Hook!Publisher
<1>4. ASSUME NEW c \in Subscribers, SrtFails(c)
      PROVE  HookStep /\ Shape' /\ UNCHANGED setup
  <2>1. Only(c) /\ Hook!RemoveConsumer(c) /\ UNCHANGED setup
    BY <1>4, SrtOnly DEF SrtFails
  <2>. QED BY <2>1, ViewerKeeps DEF HookStep, Hook!Next
<1>5. ASSUME NEW c \in Subscribers, CallOnStop(c) \/ Fmp4OnStop(c)
      PROVE  HookStep /\ Shape' /\ UNCHANGED setup
  <2>1. UNCHANGED <<st, out, setup>>
    BY <1>5 DEF CallOnStop, Fmp4OnStop, sessionVars
  <2>2. UNCHANGED hookVars \/ Hook!RemoveConsumer(c)
    BY <1>5 DEF CallOnStop, Fmp4OnStop
  <2>. QED BY <2>1, <2>2, NoStep DEF HookStep, Hook!Next
<1>6. ASSUME NEW c \in Subscribers, OnStopReturns(c)
      PROVE  HookStep /\ Shape' /\ UNCHANGED setup
  <2>1. Hook!StopConsumer(c) /\ UNCHANGED setup /\ ViewerOnStop(c)
    BY <1>6 DEF OnStopReturns
  <2>2. ViewerOnStop(c) => Only(c)
    BY WhepOnly, JessibucaOnly, SrtOnly, OnlyNone DEF ViewerOnStop, sessionVars
  <2>. QED BY <2>1, <2>2, ViewerKeeps DEF HookStep, Hook!Next, Hook!Publisher
<1>. QED BY <1>1, <1>2, <1>3, <1>4, <1>5, <1>6 DEF LalStep

\* A viewer, its client and the callbacks of its connection.
LEMMA ViewerMaps ==
  ASSUME Sound, NEW c \in Subscribers,
         ViewerArrives(c) \/ ViewerStep(c) \/ ViewerClient(c)
  PROVE  HookStep /\ Shape' /\ UNCHANGED setup
<1>1. CASE ViewerArrives(c)
  <2>1. Only(c)
    BY <1>1, WhepOnly, JessibucaOnly, Fmp4Only, SrtOnly DEF ViewerArrives
  <2>2. Hook!GetHookSession(c) /\ UNCHANGED setup
    BY <1>1 DEF ViewerArrives, Others
  <2>. QED BY <2>1, <2>2, ViewerKeeps DEF HookStep, Hook!Next
<1>2. CASE ViewerStep(c)
  <2>1. UNCHANGED setup
    BY <1>2 DEF ViewerStep, Others
  <2>2. CASE WhepHandler(c) \/ WhepLoop(c)
    <3>1. Only(c)
      BY <2>2, WhepOnly DEF WhepHandler, WhepLoop
    <3>2. HookStep
      BY <2>2 DEF WhepHandler, WhepLoop, HookUnchanged, HookStep, Hook!Next
    <3>. QED BY <2>1, <3>1, <3>2, ViewerKeeps
  <2>3. CASE JessibucaHandler(c) \/ JessibucaLoop(c)
    <3>1. Only(c)
      BY <2>3, JessibucaOnly DEF JessibucaHandler, JessibucaLoop
    <3>2. HookStep
      BY <2>3 DEF JessibucaHandler, JessibucaLoop, HookUnchanged, HookStep, Hook!Next
    <3>. QED BY <2>1, <3>1, <3>2, ViewerKeeps
  <2>4. CASE Fmp4Handler(c)
    <3>1. Only(c)
      BY <2>4, Fmp4Only, OnlyNone DEF Fmp4Handler, sessionVars
    <3>2. HookStep
      BY <2>4 DEF Fmp4Handler, HookUnchanged, HookStep, Hook!Next
    <3>. QED BY <2>1, <3>1, <3>2, ViewerKeeps
  <2>5. CASE SrtHandler(c)
    <3>1. Only(c)
      BY <2>5, SrtOnly DEF SrtHandler
    <3>2. HookStep
      BY <2>5 DEF SrtHandler, HookUnchanged, HookStep, Hook!Next
    <3>. QED BY <2>1, <3>1, <3>2, ViewerKeeps
  <2>. QED BY <1>2, <2>2, <2>3, <2>4, <2>5 DEF ViewerStep
<1>3. CASE ViewerClient(c)
  <2>1. Only(c)
    BY <1>3, PeerOnly, JessibucaOnly, Fmp4Only, SrtOnly DEF ViewerClient, WebRtcClient
  <2>2. UNCHANGED hookVars /\ UNCHANGED setup
    BY <1>3 DEF ViewerClient, HookUnchanged, Others
  <2>. QED BY <2>1, <2>2, ViewerKeeps DEF HookStep
<1>. QED BY <1>1, <1>2, <1>3

\* Publishers.
LEMMA PublisherMaps ==
  ASSUME Sound, NEW p \in Publishers,
         PublisherBegins(p) \/ PublisherStep(p) \/ PublisherClient(p)
  PROVE  HookStep /\ Shape' /\ UNCHANGED setup
<1>. p \in Clients
  BY DEF Clients
<1>1. UNCHANGED setup
  BY DEF PublisherBegins, BeginStream, PublisherStep, NoCall, Others, BeginMsg, EndStream,
         PublisherClient
<1>2. CASE setup.publisher = "whip"
  <2>1. WhipSound(p) /\ out[p] \in Seq(Frame)
    BY <1>2 DEF Sound, Shape
  <2>2. CASE PublisherBegins(p)
    <3>1. Whip!NewWhipSession(p) /\ Hook!NewHookSession
      BY <1>2, <2>2 DEF PublisherBegins, BeginStream
    <3>2. Only(p) /\ st'[p] \in WhipRecord /\ out'[p] \in Seq(Frame)
      BY <2>1, <3>1, WhipKeeps DEF Sound, Shape
    <3>. QED BY <1>1, <3>1, <3>2, WhipStep DEF HookStep, Hook!Next, Hook!Publisher
  <2>3. CASE PublisherStep(p)
    <3>1. Whip!GetAnswerSDP(p) \/ Whip!TakePkt(p) \/ Whip!TakeClose(p)
      BY <1>2, <2>3 DEF PublisherStep
    <3>2. Only(p) /\ st'[p] \in WhipRecord /\ out'[p] \in Seq(Frame)
      BY <2>1, <3>1, WhipKeeps DEF Sound, Shape
    <3>3. Whip!TakePkt(p) => Head(st[p].pktChan).kind \in Kinds
      <4>. SUFFICES ASSUME Whip!TakePkt(p)
                    PROVE  Head(st[p].pktChan).kind \in Kinds
        OBVIOUS
      <4>1. st[p].pktChan \in Seq(Frame) /\ st[p].pktChan # <<>>
        BY <2>1 DEF Whip!TakePkt, WhipSound, WhipRecord, Whip!NoSession
      <4>2. Head(st[p].pktChan) \in Frame
        BY <4>1
      <4>. QED BY <4>2 DEF Frame
    <3>4. HookStep
      BY <1>2, <2>3, <3>3, BeginMsgStep
      DEF PublisherStep, NoCall, HookUnchanged, EndStream, HookStep, Hook!Next, Hook!Publisher
    <3>. QED BY <1>1, <3>2, <3>4, WhipStep
  <2>4. CASE PublisherClient(p)
    <3>1. Whip!Heard(p) /\ UNCHANGED hookVars
      BY <1>2, <2>4 DEF PublisherClient, NoCall, HookUnchanged
    <3>2. \/ Whip!Ice(p) \/ Whip!IceReturns(p)
          \/ MoreToSend(st[p].read) /\ Whip!UnPack(p, setup.script[st[p].read + 1], setup.raw)
      BY <1>2, <2>4 DEF PublisherClient
    <3>3. st[p].read \in Nat
      BY <2>1, <3>1 DEF WhipSound, Whip!Heard, Whip!NoSession, WhipRecord
    <3>4. \/ Whip!Ice(p) \/ Whip!IceReturns(p)
          \/ \E kind \in Kinds : Whip!UnPack(p, kind, setup.raw)
      BY <3>2, <3>3, ScriptKinds DEF Sound
    <3>5. Only(p) /\ st'[p] \in WhipRecord /\ out'[p] \in Seq(Frame)
      BY <2>1, <3>1, <3>4, WhipKeeps DEF Sound, Shape
    <3>. QED BY <1>1, <3>1, <3>5, WhipStep DEF HookStep
  <2>. QED BY <2>2, <2>3, <2>4
<1>3. CASE setup.publisher # "whip"
  <2>1. Only(p)
    BY <1>3, SrtPubOnly DEF PublisherBegins, PublisherStep, PublisherClient
  <2>2. MoreToSend(fed) => setup.script[fed + 1] \in Kinds
    BY ScriptKinds DEF Sound
  <2>3. HookStep
    BY <1>3, <2>2, BeginMsgStep
    DEF PublisherBegins, BeginStream, PublisherStep, PublisherClient, NoCall, HookUnchanged,
        EndStream, HookStep, Hook!Next, Hook!Publisher
  <2>. QED BY <1>1, <1>3, <2>1, <2>3, OtherStep
<1>. QED BY <1>2, <1>3

\* A callback of pion.
LEMMA CallbackMaps ==
  ASSUME Sound, NEW c \in Clients, Callback(c)
  PROVE  HookStep /\ Shape' /\ UNCHANGED setup
<1>1. UNCHANGED hookVars /\ UNCHANGED setup
  BY DEF Callback, HookUnchanged, Others
<1>2. CASE c \in Subscribers
  <2>1. Only(c)
    BY <1>2, PeerOnly, SessionsAssumption DEF Callback, SessionsAssumption
  <2>. QED BY <1>1, <1>2, <2>1, ViewerKeeps DEF HookStep
<1>3. CASE c \notin Subscribers
  <2>1. c \in Publishers /\ setup.publisher = "whip" /\ Whip!CallbackSends(c, Whip!CloseSize)
    BY <1>3 DEF Callback, Clients
  <2>2. st[c] \in WhipRecord
    <3>1. st[c] = Whip!NoSession \/ st[c] \in WhipRecord
      BY <2>1 DEF Sound, Shape, WhipSound
    <3>. QED BY <2>1, <3>1 DEF Whip!CallbackSends, Whip!HasPeer, Whip!NoSession
  <2>3. Only(c) /\ st'[c] \in WhipRecord /\ out'[c] \in Seq(Frame)
    BY <2>1, <2>2, WhipKeeps DEF Sound, Shape, WhipSound
  <2>. QED BY <1>1, <2>1, <2>3, WhipStep DEF HookStep
<1>. QED BY <1>2, <1>3

-----------------------------------------------------------------------------
(***************************************************************************)
(* The fan-out below is the one of HookSession.                            *)
(***************************************************************************)

\* The number of messages lal has fed only grows, or begins again.
LEMMA FedStep ==
  ASSUME fed \in Nat, HookStep
  PROVE  fed' \in Nat
<1>1. CASE Hook!NewHookSession
  BY <1>1 DEF Hook!NewHookSession, Hook!Cache!Renew, Hook!Cache!Init
<1>2. CASE Hook!EndOnMsg
  BY <1>2 DEF Hook!EndOnMsg, Hook!Cache!Feed
<1>3. CASE UNCHANGED Hook!cacheVars
  BY <1>3 DEF Hook!cacheVars
<1>4. CASE UNCHANGED hookVars
  BY <1>4 DEF hookVars
<1>. QED
  BY <1>1, <1>2, <1>3, <1>4
  DEF HookStep, Hook!Next, Hook!Publisher, Hook!OnMsg, Hook!OnStop, Hook!EndOnStop, Hook!Deliver,
      Hook!StopConsumer, Hook!GetHookSession, Hook!AddConsumer, Hook!RemoveConsumer

LEMMA SoundInit == Init => Sound
BY DEF Init, Hook!Init, Hook!Cache!Init, Sound, Shape, WhipSound, Clients, Whip!NoSession,
      Whep!NoSession

LEMMA SoundStep ==
  ASSUME Sound, [Next]_vars
  PROVE  Sound' /\ HookStep
<1>1. CASE UNCHANGED vars
  BY <1>1 DEF vars, hookVars, sessionVars, Sound, Shape, WhipSound, HookStep
<1>2. CASE LalStep
  BY <1>2, LalStepMaps, FedStep DEF Sound
<1>3. CASE Elsewhere
  <2>1. UNCHANGED <<st, out, setup>>
    BY <1>3 DEF Elsewhere, BeginStream, BeginMsg, EndStream, sessionVars
  <2>2. MoreToSend(fed) => setup.script[fed + 1] \in Kinds
    BY ScriptKinds DEF Sound
  <2>3. HookStep
    BY <1>3, <2>2, BeginMsgStep
    DEF Elsewhere, BeginStream, EndStream, HookStep, Hook!Next, Hook!Publisher
  <2>. QED BY <2>1, <2>3, NoStep, FedStep DEF Sound
<1>4. CASE Clean
  <2>1. UNCHANGED <<st, out, setup>> /\ UNCHANGED hookVars
    BY <1>4 DEF Clean, HookUnchanged, sessionVars
  <2>. QED BY <2>1, NoStep, FedStep DEF Sound, HookStep
<1>5. CASE \E c \in Subscribers : ViewerArrives(c) \/ ViewerStep(c) \/ ViewerClient(c)
  BY <1>5, ViewerMaps, FedStep DEF Sound
<1>6. CASE \E p \in Publishers : PublisherBegins(p) \/ PublisherStep(p) \/ PublisherClient(p)
  BY <1>6, PublisherMaps, FedStep DEF Sound
<1>7. CASE \E c \in Subscribers \cup Publishers : Callback(c)
  BY <1>7, CallbackMaps, FedStep DEF Sound, Clients
<1>. QED BY <1>1, <1>2, <1>3, <1>4, <1>5, <1>6, <1>7 DEF Next

\* Nobody reaches into the fan-out but through OnMsg, OnStop, AddConsumer and RemoveConsumer,
\* and everything lal is fed is a message: what is proved of HookSession can be used here.
LEMMA HookRefinement == Spec => Hook!Spec
<1>1. Init => Hook!Init
  BY DEF Init
<1>2. Sound /\ [Next]_vars => [Hook!Next]_(Hook!vars)
  BY SoundStep DEF HookStep, hookVars, Hook!vars, Hook!cacheVars, Hook!walkVars, Hook!subVars
<1>3. Sound /\ [Next]_vars => Sound'
  BY SoundStep
<1>. QED BY <1>1, <1>2, <1>3, SoundInit, PTL DEF Spec, Hook!Spec

\* The proofs about the fan-out, on the hook session of the stream.
H == INSTANCE HookSessionProofs

LEMMA FanOutAssumption == H!HookSessionAssumption
BY SessionsAssumption DEF SessionsAssumption, H!HookSessionAssumption, MsgKinds, H!MsgKinds,
      AudioKinds, H!AudioKinds, VideoKinds, H!VideoKinds

\* The two names of every definition of HookSession mean the same.
LEMMA SameCache ==
  /\ Hook!Cache!Init <=> H!Cache!Init
  /\ Hook!Cache!Renew <=> H!Cache!Renew
  /\ Hook!Cache!GetGopCount = H!Cache!GetGopCount
  /\ Hook!Cache!CachedGops = H!Cache!CachedGops
BY Zenon DEF Hook!Cache!Init, H!Cache!Init, Hook!Cache!Renew, H!Cache!Renew,
      Hook!Cache!GetGopCount, H!Cache!GetGopCount, Hook!Cache!CachedGops, H!Cache!CachedGops,
      Hook!Cache!GetGopDataAt, H!Cache!GetGopDataAt, Hook!Cache!gopSize, H!Cache!gopSize,
      Hook!Cache!Keep, H!Cache!Keep, Hook!Cache!Slots, H!Cache!Slots, Hook!Cache!NoMsg,
      H!Cache!NoMsg

LEMMA SameFeed ==
  ASSUME NEW m
  PROVE  /\ Hook!Cache!Feed(m) <=> H!Cache!Feed(m)
         /\ Hook!Cache!IsFrame(m) <=> H!Cache!IsFrame(m)
         /\ Hook!IsVideoKeyNalu(m) <=> H!IsVideoKeyNalu(m)
         /\ Hook!IsVideo(m) <=> H!IsVideo(m)
         /\ Hook!IsAudio(m) <=> H!IsAudio(m)
BY Zenon DEF Hook!Cache!Feed, H!Cache!Feed, Hook!Cache!FeedHeader, H!Cache!FeedHeader,
      Hook!Cache!IsFrame, H!Cache!IsFrame, Hook!Cache!FeedNewGop, H!Cache!FeedNewGop,
      Hook!Cache!FeedLastGop, H!Cache!FeedLastGop, Hook!Cache!IsGopRingFull,
      H!Cache!IsGopRingFull, Hook!Cache!IsGopRingEmpty, H!Cache!IsGopRingEmpty,
      Hook!Cache!gopSize, H!Cache!gopSize, Hook!Cache!Keep, H!Cache!Keep, Hook!Cache!ring,
      H!Cache!ring, Hook!Cache!IsVideoKeyNalu, H!Cache!IsVideoKeyNalu, Hook!IsVideoKeyNalu,
      H!IsVideoKeyNalu, Hook!IsVideo, H!IsVideo, Hook!IsAudio, H!IsAudio, Hook!AudioKinds,
      H!AudioKinds, Hook!VideoKinds, H!VideoKinds

LEMMA SameVars ==
  /\ Hook!cacheVars = H!cacheVars /\ Hook!walkVars = H!walkVars
  /\ Hook!subVars = H!subVars /\ Hook!vars = H!vars
  /\ Hook!NoMsg = H!NoMsg /\ Hook!Consumers = H!Consumers
BY Zenon DEF Hook!cacheVars, H!cacheVars, Hook!walkVars, H!walkVars, Hook!subVars, H!subVars,
      Hook!vars, H!vars, Hook!NoMsg, H!NoMsg, Hook!Consumers, H!Consumers

LEMMA SameInit == Hook!Init <=> H!Init
BY Zenon, SameCache, SameVars DEF Hook!Init, H!Init

LEMMA SameVisit ==
  ASSUME NEW c
  PROVE  /\ Hook!Replay(c) = H!Replay(c) /\ Hook!Live(c) = H!Live(c)
         /\ Hook!Started(c) <=> H!Started(c)
<1>1. Hook!SeqHeaders = H!SeqHeaders
  BY Zenon, SameVars DEF Hook!SeqHeaders, H!SeqHeaders, Hook!Entry, H!Entry
<1>2. Hook!CachedFrames = H!CachedFrames
  <2>1. \A g : Hook!Concatenation(g) = H!Concatenation(g)
    BY Zenon DEF Hook!Concatenation, H!Concatenation
  <2>2. \A g : Hook!Entries(g, "cache") = H!Entries(g, "cache")
    BY Zenon DEF Hook!Entries, H!Entries, Hook!Entry, H!Entry
  <2>. QED BY Zenon, <2>1, <2>2, SameCache DEF Hook!CachedFrames, H!CachedFrames
<1>3. Hook!ReplayDue(c) <=> H!ReplayDue(c)
  BY Zenon, SameCache DEF Hook!ReplayDue, H!ReplayDue
<1>4. Hook!Started(c) <=> H!Started(c)
  BY Zenon, <1>3 DEF Hook!Started, H!Started
<1>5. Hook!Replay(c) = H!Replay(c)
  BY Zenon, <1>1, <1>2, <1>3 DEF Hook!Replay, H!Replay
<1>6. Hook!Live(c) = H!Live(c)
  BY Zenon, <1>1, SameCache DEF Hook!Live, H!Live, Hook!Entry, H!Entry, Hook!Started, H!Started,
    Hook!ReplayDue, H!ReplayDue, Hook!IsVideo, H!IsVideo, Hook!IsAudio, H!IsAudio, Hook!AudioKinds,
    H!AudioKinds, Hook!VideoKinds, H!VideoKinds, Hook!IsVideoKeyNalu, H!IsVideoKeyNalu
<1>. QED BY <1>4, <1>5, <1>6

LEMMA SameNext == Hook!Next <=> H!Next
<1>1. Hook!NewHookSession <=> H!NewHookSession
  BY Zenon, SameCache, SameVars DEF Hook!cacheVars, H!cacheVars, Hook!walkVars, H!walkVars, Hook!subVars, H!subVars,
    Hook!NewHookSession, H!NewHookSession
<1>2. \A m : Hook!OnMsg(m) <=> H!OnMsg(m)
  BY Zenon, SameVars DEF Hook!cacheVars, H!cacheVars, Hook!walkVars, H!walkVars, Hook!subVars, H!subVars,
    Hook!OnMsg, H!OnMsg, Hook!BeginWalk, H!BeginWalk
<1>3. Hook!EndOnMsg <=> H!EndOnMsg
  BY Zenon, SameFeed, SameVars DEF Hook!cacheVars, H!cacheVars, Hook!walkVars, H!walkVars, Hook!subVars, H!subVars,
    Hook!EndOnMsg, H!EndOnMsg
<1>4. Hook!OnStop <=> H!OnStop
  BY Zenon, SameVars DEF Hook!cacheVars, H!cacheVars, Hook!walkVars, H!walkVars, Hook!subVars, H!subVars,
    Hook!OnStop, H!OnStop, Hook!BeginWalk, H!BeginWalk
<1>5. Hook!EndOnStop <=> H!EndOnStop
  BY Zenon, SameVars DEF Hook!cacheVars, H!cacheVars, Hook!walkVars, H!walkVars, Hook!subVars, H!subVars,
    Hook!EndOnStop, H!EndOnStop
<1>6. \A c : Hook!Deliver(c) <=> H!Deliver(c)
  BY Zenon, SameVisit, SameFeed, SameVars DEF Hook!cacheVars, H!cacheVars, Hook!walkVars, H!walkVars, Hook!subVars, H!subVars,
    Hook!Deliver, H!Deliver
<1>7. \A c : Hook!StopConsumer(c) <=> H!StopConsumer(c)
  BY Zenon, SameVars DEF Hook!cacheVars, H!cacheVars, Hook!walkVars, H!walkVars, Hook!subVars, H!subVars,
    Hook!StopConsumer, H!StopConsumer
<1>8. \A c : /\ Hook!GetHookSession(c) <=> H!GetHookSession(c)
             /\ Hook!AddConsumer(c) <=> H!AddConsumer(c)
             /\ Hook!RemoveConsumer(c) <=> H!RemoveConsumer(c)
  BY Zenon, SameVars DEF Hook!cacheVars, H!cacheVars, Hook!walkVars, H!walkVars, Hook!subVars, H!subVars,
    Hook!GetHookSession, H!GetHookSession, Hook!AddConsumer,
    H!AddConsumer, Hook!RemoveConsumer, H!RemoveConsumer
<1>. QED
  BY Zenon, <1>1, <1>2, <1>3, <1>4, <1>5, <1>6, <1>7, <1>8
  DEF Hook!Next, H!Next, Hook!Publisher, H!Publisher

LEMMA SameProperties ==
  /\ Hook!StartsOnKeyFrame <=> H!StartsOnKeyFrame
  /\ Hook!InOrderOnce <=> H!InOrderOnce
  /\ Hook!NoGapWhileAttached <=> H!NoGapWhileAttached
  /\ Hook!HeadersInForce <=> H!HeadersInForce
<1>1. /\ Hook!Watching = H!Watching
      /\ \A c : Hook!Pictures(c) = H!Pictures(c)
  BY Zenon DEF Hook!Watching, H!Watching, Hook!Pictures, H!Pictures, Hook!IsPicture, H!IsPicture
<1>2. \A c : Hook!FirstPicture(c) = H!FirstPicture(c)
  BY Zenon, <1>1 DEF Hook!FirstPicture, H!FirstPicture
<1>3. Hook!StartsOnKeyFrame <=> H!StartsOnKeyFrame
  BY Zenon, <1>1, <1>2 DEF Hook!StartsOnKeyFrame, H!StartsOnKeyFrame
<1>4. Hook!InOrderOnce <=> H!InOrderOnce
  BY Zenon, <1>1 DEF Hook!InOrderOnce, H!InOrderOnce
<1>5. Hook!NoGapWhileAttached <=> H!NoGapWhileAttached
  BY Zenon, <1>1, <1>2, SameFeed, SameVars DEF Hook!NoGapWhileAttached, H!NoGapWhileAttached
<1>6. /\ \A k, n : Hook!InForce(k, n) = H!InForce(k, n)
      /\ \A c, k, i : Hook!Announced(c, k, i) = H!Announced(c, k, i)
  BY Zenon DEF Hook!InForce, H!InForce, Hook!Announced, H!Announced
<1>7. Hook!HeadersInForce <=> H!HeadersInForce
  BY Zenon, <1>1, <1>2, <1>6
  DEF Hook!HeadersInForce, H!HeadersInForce, Hook!HeaderKind, H!HeaderKind, Hook!IsPicture,
    H!IsPicture
<1>. QED BY <1>3, <1>4, <1>5, <1>7

LEMMA SameSpec == Hook!Spec <=> H!Spec
<1>1. [Hook!Next]_(Hook!vars) <=> [H!Next]_(H!vars)
  BY Zenon, SameNext, SameVars
  DEF Hook!vars, H!vars, Hook!cacheVars, H!cacheVars, Hook!walkVars, H!walkVars, Hook!subVars,
      H!subVars
<1>. QED BY <1>1, SameInit, PTL DEF Hook!Spec, H!Spec

\* What a viewer is given is a stream it can decode from its first picture on, in order, once,
\* and without a gap, whatever the viewers, publishers and their connections do.
THEOREM FanOutHolds ==
  Spec => [](Hook!StartsOnKeyFrame /\ Hook!InOrderOnce /\ Hook!NoGapWhileAttached)
<1>1. H!Spec => []H!StartsOnKeyFrame
  BY FanOutAssumption, H!StartsOnKeyFrameAlways
<1>2. H!Spec => []H!InOrderOnce
  BY FanOutAssumption, H!InOrderOnceAlways
<1>3. H!Spec => []H!NoGapWhileAttached
  BY FanOutAssumption, H!NoGapAlways
<1>. QED BY <1>1, <1>2, <1>3, SameSpec, SameProperties, HookRefinement, PTL

\* And with the headers that were in force, in a stream with one audio codec.
THEOREM FanOutHeaders ==
  ASSUME ~({"aacHeader", "rawAudio"} \subseteq Kinds)
  PROVE  Spec => []Hook!HeadersInForce
<1>1. H!OneAudioCodec
  BY DEF H!OneAudioCodec
<1>2. H!Spec => []H!HeadersInForce
  BY <1>1, FanOutAssumption, H!HeadersInForceAlways
<1>. QED BY <1>2, SameSpec, SameProperties, HookRefinement, PTL

\* The recursion of OfKinds
Selects(f, s, K, n) ==
  f = [i \in 0 .. n |-> IF i = 0 THEN <<>> ELSE (IF s[i].kind \in K THEN Append(f[i - 1], s[i]) ELSE f[i - 1])]

LEMMA SelectsStep ==
  ASSUME NEW f, NEW s, NEW K, NEW n \in Nat, Selects(f, s, K, n)
  PROVE  /\ f[0] = <<>>
         /\ \A i \in 1 .. n : f[i] = (IF s[i].kind \in K THEN Append(f[i - 1], s[i]) ELSE f[i - 1])
<1>. DEFINE F(i) == IF i = 0 THEN <<>> ELSE (IF s[i].kind \in K THEN Append(f[i - 1], s[i]) ELSE f[i - 1])
<1>1. f = [i \in 0 .. n |-> F(i)]
  BY DEF Selects
<1>2. \A i \in 0 .. n : f[i] = F(i)
  <2>. HIDE DEF F
  <2>. QED BY <1>1
<1>3. 0 \in 0 .. n /\ \A i \in 1 .. n : i \in 0 .. n /\ i # 0
  OBVIOUS
<1>4. f[0] = <<>>
  BY <1>2, <1>3, Zenon
<1>5. ASSUME NEW i \in 1 .. n
      PROVE  f[i] = (IF s[i].kind \in K THEN Append(f[i - 1], s[i]) ELSE f[i - 1])
  <2>1. i \in 0 .. n /\ i # 0
    OBVIOUS
  <2>2. f[i] = F(i)
    <3>. HIDE DEF F
    <3>. QED BY <1>2, <2>1
  <2>. QED BY <2>1, <2>2, Zenon
<1>. QED BY <1>4, <1>5

LEMMA SelectsExists ==
  ASSUME NEW s, NEW K, NEW n \in Nat
  PROVE  \E f : Selects(f, s, K, n)
<1>. DEFINE T == {m \in Nat : \E f : Selects(f, s, K, m)}
<1>1. 0 \in T
  <2>. DEFINE g == [i \in 0 .. 0 |-> <<>>]
  <2>1. g = [i \in 0 .. 0 |-> IF i = 0 THEN <<>> ELSE (IF s[i].kind \in K THEN Append(g[i - 1], s[i]) ELSE g[i - 1])]
    <3>1. \A i \in 0 .. 0 : i = 0
      OBVIOUS
    <3>. QED BY <3>1, Zenon
  <2>2. Selects(g, s, K, 0)
    <3>. HIDE DEF g
    <3>. QED BY <2>1 DEF Selects
  <2>. QED BY <2>2
<1>2. ASSUME NEW m \in Nat, m \in T
      PROVE  m + 1 \in T
  <2>1. PICK f : Selects(f, s, K, m)
    BY <1>2
  <2>. DEFINE g == [i \in 0 .. m + 1 |-> IF i <= m THEN f[i] ELSE (IF s[i].kind \in K THEN Append(f[i - 1], s[i]) ELSE f[i - 1])]
  <2>2. \A i \in 0 .. m : g[i] = f[i]
    OBVIOUS
  <2>3. g[m + 1] = (IF s[m + 1].kind \in K THEN Append(f[(m + 1) - 1], s[m + 1]) ELSE f[(m + 1) - 1])
    <3>1. m + 1 \in 0 .. m + 1 /\ ~(m + 1 <= m)
      OBVIOUS
    <3>. QED BY <3>1, Zenon
  <2>4. g = [i \in 0 .. m + 1 |-> g[i]]
    OBVIOUS
  <2>. HIDE DEF g
  <2>5. ASSUME NEW i \in 0 .. m + 1
        PROVE  g[i] = IF i = 0 THEN <<>> ELSE (IF s[i].kind \in K THEN Append(g[i - 1], s[i]) ELSE g[i - 1])
    <3>1. CASE i = 0
      <4>1. 0 \in 0 .. m /\ f[0] = <<>>
        BY <2>1, SelectsStep
      <4>. QED BY <2>2, <3>1, <4>1
    <3>2. CASE i # 0 /\ i <= m
      <4>1. i \in 1 .. m /\ i \in 0 .. m /\ i - 1 \in 0 .. m
        BY <3>2
      <4>2. \A j \in 1 .. m : f[j] = (IF s[j].kind \in K THEN Append(f[j - 1], s[j]) ELSE f[j - 1])
        BY <2>1, SelectsStep
      <4>3. f[i] = (IF s[i].kind \in K THEN Append(f[i - 1], s[i]) ELSE f[i - 1])
        BY <4>1, <4>2, Zenon
      <4>4. g[i] = f[i] /\ g[i - 1] = f[i - 1]
        BY <2>2, <4>1, Zenon
      <4>. QED BY <3>2, <4>3, <4>4, Zenon
    <3>3. CASE i = m + 1
      <4>1. m \in 0 .. m /\ i - 1 = m /\ (m + 1) - 1 = m /\ i # 0
        BY <3>3
      <4>2. g[m] = f[m]
        BY <2>2, <4>1, Zenon
      <4>. QED BY <2>3, <3>3, <4>1, <4>2, Zenon
    <3>4. i # 0 /\ ~(i <= m) => i = m + 1
      OBVIOUS
    <3>. QED BY <3>1, <3>2, <3>3, <3>4, Zenon
  <2>6. g = [i \in 0 .. m + 1 |-> IF i = 0 THEN <<>> ELSE (IF s[i].kind \in K THEN Append(g[i - 1], s[i]) ELSE g[i - 1])]
    BY <2>4, <2>5, Zenon
  <2>7. Selects(g, s, K, m + 1)
    BY <2>6, Zenon DEF Selects
  <2>. QED BY <2>7
<1>. QED
  <2>. HIDE DEF T
  <2>1. n \in T
    BY <1>1, <1>2, FanOutAssumption, H!SetInduction
  <2>. QED BY <2>1 DEF T

LEMMA SelectsSame ==
  ASSUME NEW s, NEW K, NEW t, NEW n \in Nat, NEW m \in Nat, n <= m,
         NEW f, NEW g, Selects(f, s, K, n), Selects(g, t, K, m),
         \A i \in 1 .. n : s[i] = t[i]
  PROVE  f[n] = g[n]
<1>. DEFINE T == {i \in Nat : i <= n => f[i] = g[i]}
<1>1. 0 \in T
  <2>1. f[0] = <<>> /\ g[0] = <<>>
    BY SelectsStep
  <2>. QED BY <2>1
<1>2. ASSUME NEW j \in Nat, j \in T
      PROVE  j + 1 \in T
  <2>. SUFFICES ASSUME j + 1 <= n PROVE f[j + 1] = g[j + 1]
    OBVIOUS
  <2>1. PICK i : i = j + 1
    OBVIOUS
  <2>2. i \in 1 .. n /\ i \in 1 .. m /\ f[i - 1] = g[i - 1]
    BY <1>2, <2>1
  <2>3. \A k \in 1 .. n : f[k] = (IF s[k].kind \in K THEN Append(f[k - 1], s[k]) ELSE f[k - 1])
    BY SelectsStep
  <2>4. \A k \in 1 .. m : g[k] = (IF t[k].kind \in K THEN Append(g[k - 1], t[k]) ELSE g[k - 1])
    BY SelectsStep
  <2>5. f[i] = (IF s[i].kind \in K THEN Append(f[i - 1], s[i]) ELSE f[i - 1]) /\ g[i] = (IF t[i].kind \in K THEN Append(g[i - 1], t[i]) ELSE g[i - 1]) /\ s[i] = t[i]
    BY <2>2, <2>3, <2>4, Zenon
  <2>. QED BY <2>1, <2>2, <2>5, Zenon
<1>. QED
  <2>. HIDE DEF T
  <2>1. n \in T
    BY <1>1, <1>2, FanOutAssumption, H!SetInduction
  <2>. QED BY <2>1 DEF T

LEMMA SelectsIs ==
  ASSUME NEW s, NEW K, Len(s) \in Nat
  PROVE  \E f : Selects(f, s, K, Len(s)) /\ OfKinds(s, K) = f[Len(s)]
<1>. DEFINE f == CHOOSE h : Selects(h, s, K, Len(s))
<1>1. \E h : Selects(h, s, K, Len(s))
  BY SelectsExists
<1>2. Selects(f, s, K, Len(s))
  BY <1>1
<1>3. OfKinds(s, K) = f[Len(s)]
  BY DEF OfKinds, Selects
<1>. QED BY <1>2, <1>3

\* OfKinds of nothing, and of one message more
LEMMA OfKindsEmpty ==
  ASSUME NEW K
  PROVE  OfKinds(<<>>, K) = <<>>
<1>1. PICK f : Selects(f, <<>>, K, 0) /\ OfKinds(<<>>, K) = f[0]
  <2>1. Len(<<>>) = 0
    OBVIOUS
  <2>. QED BY <2>1, SelectsIs
<1>. QED BY <1>1, SelectsStep

LEMMA OfKindsAppend ==
  ASSUME NEW S, NEW s \in Seq(S), NEW K, NEW e \in S
  PROVE  OfKinds(Append(s, e), K) = (IF e.kind \in K THEN Append(OfKinds(s, K), e) ELSE OfKinds(s, K))
<1>. DEFINE t == Append(s, e)
            n == Len(s)
<1>1. /\ n \in Nat /\ n + 1 \in Nat /\ Len(t) = n + 1 /\ t[n + 1] = e /\ n <= n + 1
      /\ n + 1 \in 1 .. n + 1 /\ (n + 1) - 1 = n /\ \A i \in 1 .. n : s[i] = t[i]
  OBVIOUS
<1>. HIDE DEF t
<1>2. PICK f : Selects(f, s, K, n) /\ OfKinds(s, K) = f[n]
  BY <1>1, SelectsIs
<1>. HIDE DEF n
<1>3. PICK g : Selects(g, t, K, n + 1) /\ OfKinds(t, K) = g[n + 1]
  BY <1>1, SelectsIs
<1>4. f[n] = g[n]
  BY <1>1, <1>2, <1>3, SelectsSame
<1>5. \A k \in 1 .. n + 1 : g[k] = (IF t[k].kind \in K THEN Append(g[k - 1], t[k]) ELSE g[k - 1])
  <2>1. PICK m : m = n + 1
    OBVIOUS
  <2>2. m \in Nat /\ Selects(g, t, K, m)
    BY <1>1, <1>3, <2>1, Zenon
  <2>3. \A k \in 1 .. m : g[k] = (IF t[k].kind \in K THEN Append(g[k - 1], t[k]) ELSE g[k - 1])
    BY <2>2, SelectsStep
  <2>. QED BY <2>1, <2>3, Zenon
<1>6. g[n + 1] = (IF t[n + 1].kind \in K THEN Append(g[n], t[n + 1]) ELSE g[n])
  BY <1>1, <1>5, Zenon
<1>7. OfKinds(t, K) = (IF e.kind \in K THEN Append(OfKinds(s, K), e) ELSE OfKinds(s, K))
  BY <1>1, <1>2, <1>3, <1>4, <1>6, Zenon
<1>. QED BY <1>7 DEF t

\* FeedMsg for each of S, and the recursion of FeedAll
FeedEach(S, e) == UNION {Fmp4!FeedMsg(w, e) : w \in S}

Feeds(f, r, s, n) ==
  f = [i \in 0 .. n |-> IF i = 0 THEN {r} ELSE FeedEach(f[i - 1], s[i])]

LEMMA FeedsStep ==
  ASSUME NEW f, NEW r, NEW s, NEW n \in Nat, Feeds(f, r, s, n)
  PROVE  /\ f[0] = {r}
         /\ \A i \in 1 .. n : f[i] = FeedEach(f[i - 1], s[i])
<1>. DEFINE F(i) == IF i = 0 THEN {r} ELSE FeedEach(f[i - 1], s[i])
<1>1. f = [i \in 0 .. n |-> F(i)]
  BY DEF Feeds
<1>2. \A i \in 0 .. n : f[i] = F(i)
  <2>. HIDE DEF F
  <2>. QED BY <1>1
<1>3. 0 \in 0 .. n /\ \A i \in 1 .. n : i \in 0 .. n /\ i # 0
  OBVIOUS
<1>4. f[0] = {r}
  BY <1>2, <1>3, Zenon
<1>5. ASSUME NEW i \in 1 .. n
      PROVE  f[i] = FeedEach(f[i - 1], s[i])
  <2>1. i \in 0 .. n /\ i # 0
    OBVIOUS
  <2>2. f[i] = F(i)
    <3>. HIDE DEF F
    <3>. QED BY <1>2, <2>1
  <2>. QED BY <2>1, <2>2, Zenon
<1>. QED BY <1>4, <1>5

LEMMA FeedsExists ==
  ASSUME NEW r, NEW s, NEW n \in Nat
  PROVE  \E f : Feeds(f, r, s, n)
<1>. DEFINE T == {m \in Nat : \E f : Feeds(f, r, s, m)}
<1>1. 0 \in T
  <2>. DEFINE g == [i \in 0 .. 0 |-> {r}]
  <2>1. g = [i \in 0 .. 0 |-> IF i = 0 THEN {r} ELSE FeedEach(g[i - 1], s[i])]
    <3>1. \A i \in 0 .. 0 : i = 0
      OBVIOUS
    <3>. QED BY <3>1, Zenon
  <2>2. Feeds(g, r, s, 0)
    <3>. HIDE DEF g
    <3>. QED BY <2>1 DEF Feeds
  <2>. QED BY <2>2
<1>2. ASSUME NEW m \in Nat, m \in T
      PROVE  m + 1 \in T
  <2>1. PICK f : Feeds(f, r, s, m)
    BY <1>2
  <2>. DEFINE g == [i \in 0 .. m + 1 |-> IF i <= m THEN f[i] ELSE FeedEach(f[i - 1], s[i])]
  <2>2. \A i \in 0 .. m : g[i] = f[i]
    OBVIOUS
  <2>3. g[m + 1] = FeedEach(f[(m + 1) - 1], s[m + 1])
    <3>1. m + 1 \in 0 .. m + 1 /\ ~(m + 1 <= m)
      OBVIOUS
    <3>. QED BY <3>1, Zenon
  <2>4. g = [i \in 0 .. m + 1 |-> g[i]]
    OBVIOUS
  <2>. HIDE DEF g
  <2>5. ASSUME NEW i \in 0 .. m + 1
        PROVE  g[i] = IF i = 0 THEN {r} ELSE FeedEach(g[i - 1], s[i])
    <3>1. CASE i = 0
      <4>1. 0 \in 0 .. m /\ f[0] = {r}
        BY <2>1, FeedsStep
      <4>. QED BY <2>2, <3>1, <4>1
    <3>2. CASE i # 0 /\ i <= m
      <4>1. i \in 1 .. m /\ i \in 0 .. m /\ i - 1 \in 0 .. m
        BY <3>2
      <4>2. \A j \in 1 .. m : f[j] = FeedEach(f[j - 1], s[j])
        BY <2>1, FeedsStep
      <4>3. f[i] = FeedEach(f[i - 1], s[i])
        BY <4>1, <4>2, Zenon
      <4>4. g[i] = f[i] /\ g[i - 1] = f[i - 1]
        BY <2>2, <4>1, Zenon
      <4>. QED BY <3>2, <4>3, <4>4, Zenon
    <3>3. CASE i = m + 1
      <4>1. m \in 0 .. m /\ i - 1 = m /\ (m + 1) - 1 = m /\ i # 0
        BY <3>3
      <4>2. g[m] = f[m]
        BY <2>2, <4>1, Zenon
      <4>. QED BY <2>3, <3>3, <4>1, <4>2, Zenon
    <3>4. i # 0 /\ ~(i <= m) => i = m + 1
      OBVIOUS
    <3>. QED BY <3>1, <3>2, <3>3, <3>4, Zenon
  <2>6. g = [i \in 0 .. m + 1 |-> IF i = 0 THEN {r} ELSE FeedEach(g[i - 1], s[i])]
    BY <2>4, <2>5, Zenon
  <2>7. Feeds(g, r, s, m + 1)
    BY <2>6, Zenon DEF Feeds
  <2>. QED BY <2>7
<1>. QED
  <2>. HIDE DEF T
  <2>1. n \in T
    BY <1>1, <1>2, FanOutAssumption, H!SetInduction
  <2>. QED BY <2>1 DEF T

LEMMA FeedsSame ==
  ASSUME NEW r, NEW s, NEW t, NEW n \in Nat, NEW m \in Nat, n <= m,
         NEW f, NEW g, Feeds(f, r, s, n), Feeds(g, r, t, m),
         \A i \in 1 .. n : s[i] = t[i]
  PROVE  f[n] = g[n]
<1>. DEFINE T == {i \in Nat : i <= n => f[i] = g[i]}
<1>1. 0 \in T
  <2>1. f[0] = {r} /\ g[0] = {r}
    BY FeedsStep
  <2>. QED BY <2>1
<1>2. ASSUME NEW j \in Nat, j \in T
      PROVE  j + 1 \in T
  <2>. SUFFICES ASSUME j + 1 <= n PROVE f[j + 1] = g[j + 1]
    OBVIOUS
  <2>1. PICK i : i = j + 1
    OBVIOUS
  <2>2. i \in 1 .. n /\ i \in 1 .. m /\ f[i - 1] = g[i - 1]
    BY <1>2, <2>1
  <2>3. \A k \in 1 .. n : f[k] = FeedEach(f[k - 1], s[k])
    BY FeedsStep
  <2>4. \A k \in 1 .. m : g[k] = FeedEach(g[k - 1], t[k])
    BY FeedsStep
  <2>5. f[i] = FeedEach(f[i - 1], s[i]) /\ g[i] = FeedEach(g[i - 1], t[i]) /\ s[i] = t[i]
    BY <2>2, <2>3, <2>4, Zenon
  <2>. QED BY <2>1, <2>2, <2>5, Zenon
<1>. QED
  <2>. HIDE DEF T
  <2>1. n \in T
    BY <1>1, <1>2, FanOutAssumption, H!SetInduction
  <2>. QED BY <2>1 DEF T

LEMMA FeedsIs ==
  ASSUME NEW r, NEW s, Len(s) \in Nat
  PROVE  \E f : Feeds(f, r, s, Len(s)) /\ Fmp4!FeedAll(r, s) = f[Len(s)]
<1>. DEFINE f == CHOOSE h : Feeds(h, r, s, Len(s))
<1>1. \E h : Feeds(h, r, s, Len(s))
  BY FeedsExists
<1>2. Feeds(f, r, s, Len(s))
  BY <1>1
<1>3. Fmp4!FeedAll(r, s) = f[Len(s)]
  BY DEF Fmp4!FeedAll, Feeds, FeedEach
<1>. QED BY <1>2, <1>3

\* FeedAll of nothing, and of one message more
LEMMA FeedAllEmpty ==
  ASSUME NEW r
  PROVE  Fmp4!FeedAll(r, <<>>) = {r}
<1>1. PICK f : Feeds(f, r, <<>>, 0) /\ Fmp4!FeedAll(r, <<>>) = f[0]
  <2>1. Len(<<>>) = 0
    OBVIOUS
  <2>. QED BY <2>1, FeedsIs
<1>. QED BY <1>1, FeedsStep

LEMMA FeedAllAppend ==
  ASSUME NEW S, NEW r, NEW s \in Seq(S), NEW e \in S
  PROVE  Fmp4!FeedAll(r, Append(s, e)) = FeedEach(Fmp4!FeedAll(r, s), e)
<1>. DEFINE t == Append(s, e)
            n == Len(s)
<1>1. /\ n \in Nat /\ n + 1 \in Nat /\ Len(t) = n + 1 /\ t[n + 1] = e /\ n <= n + 1
      /\ n + 1 \in 1 .. n + 1 /\ (n + 1) - 1 = n /\ \A i \in 1 .. n : s[i] = t[i]
  OBVIOUS
<1>. HIDE DEF t
<1>2. PICK f : Feeds(f, r, s, n) /\ Fmp4!FeedAll(r, s) = f[n]
  BY <1>1, FeedsIs
<1>. HIDE DEF n
<1>3. PICK g : Feeds(g, r, t, n + 1) /\ Fmp4!FeedAll(r, t) = g[n + 1]
  BY <1>1, FeedsIs
<1>4. f[n] = g[n]
  BY <1>1, <1>2, <1>3, FeedsSame
<1>5. \A k \in 1 .. n + 1 : g[k] = FeedEach(g[k - 1], t[k])
  <2>1. PICK m : m = n + 1
    OBVIOUS
  <2>2. m \in Nat /\ Feeds(g, r, t, m)
    BY <1>1, <1>3, <2>1, Zenon
  <2>3. \A k \in 1 .. m : g[k] = FeedEach(g[k - 1], t[k])
    BY <2>2, FeedsStep
  <2>. QED BY <2>1, <2>3, Zenon
<1>6. g[n + 1] = FeedEach(g[n], t[n + 1])
  BY <1>1, <1>5, Zenon
<1>7. Fmp4!FeedAll(r, t) = FeedEach(Fmp4!FeedAll(r, s), e)
  BY <1>1, <1>2, <1>3, <1>4, <1>6, Zenon
<1>. QED BY <1>7 DEF t

\* The recursion of PacketAll
Packets(f, r, s, n) ==
  f = [i \in 0 .. n |-> IF i = 0 THEN {[sub |-> r, sent |-> <<>>]} ELSE {Srt!Packet(w, s[i]) : w \in f[i - 1]}]

LEMMA PacketsStep ==
  ASSUME NEW f, NEW r, NEW s, NEW n \in Nat, Packets(f, r, s, n)
  PROVE  /\ f[0] = {[sub |-> r, sent |-> <<>>]}
         /\ \A i \in 1 .. n : f[i] = {Srt!Packet(w, s[i]) : w \in f[i - 1]}
<1>. DEFINE F(i) == IF i = 0 THEN {[sub |-> r, sent |-> <<>>]} ELSE {Srt!Packet(w, s[i]) : w \in f[i - 1]}
<1>1. f = [i \in 0 .. n |-> F(i)]
  BY DEF Packets
<1>2. \A i \in 0 .. n : f[i] = F(i)
  <2>. HIDE DEF F
  <2>. QED BY <1>1
<1>3. 0 \in 0 .. n /\ \A i \in 1 .. n : i \in 0 .. n /\ i # 0
  OBVIOUS
<1>4. f[0] = {[sub |-> r, sent |-> <<>>]}
  BY <1>2, <1>3, Zenon
<1>5. ASSUME NEW i \in 1 .. n
      PROVE  f[i] = {Srt!Packet(w, s[i]) : w \in f[i - 1]}
  <2>1. i \in 0 .. n /\ i # 0
    OBVIOUS
  <2>2. f[i] = F(i)
    <3>. HIDE DEF F
    <3>. QED BY <1>2, <2>1
  <2>. QED BY <2>1, <2>2, Zenon
<1>. QED BY <1>4, <1>5

LEMMA PacketsExists ==
  ASSUME NEW r, NEW s, NEW n \in Nat
  PROVE  \E f : Packets(f, r, s, n)
<1>. DEFINE T == {m \in Nat : \E f : Packets(f, r, s, m)}
<1>1. 0 \in T
  <2>. DEFINE g == [i \in 0 .. 0 |-> {[sub |-> r, sent |-> <<>>]}]
  <2>1. g = [i \in 0 .. 0 |-> IF i = 0 THEN {[sub |-> r, sent |-> <<>>]} ELSE {Srt!Packet(w, s[i]) : w \in g[i - 1]}]
    <3>1. \A i \in 0 .. 0 : i = 0
      OBVIOUS
    <3>. QED BY <3>1, Zenon
  <2>2. Packets(g, r, s, 0)
    <3>. HIDE DEF g
    <3>. QED BY <2>1 DEF Packets
  <2>. QED BY <2>2
<1>2. ASSUME NEW m \in Nat, m \in T
      PROVE  m + 1 \in T
  <2>1. PICK f : Packets(f, r, s, m)
    BY <1>2
  <2>. DEFINE g == [i \in 0 .. m + 1 |-> IF i <= m THEN f[i] ELSE {Srt!Packet(w, s[i]) : w \in f[i - 1]}]
  <2>2. \A i \in 0 .. m : g[i] = f[i]
    OBVIOUS
  <2>3. g[m + 1] = {Srt!Packet(w, s[m + 1]) : w \in f[(m + 1) - 1]}
    <3>1. m + 1 \in 0 .. m + 1 /\ ~(m + 1 <= m)
      OBVIOUS
    <3>. QED BY <3>1, Zenon
  <2>4. g = [i \in 0 .. m + 1 |-> g[i]]
    OBVIOUS
  <2>. HIDE DEF g
  <2>5. ASSUME NEW i \in 0 .. m + 1
        PROVE  g[i] = IF i = 0 THEN {[sub |-> r, sent |-> <<>>]} ELSE {Srt!Packet(w, s[i]) : w \in g[i - 1]}
    <3>1. CASE i = 0
      <4>1. 0 \in 0 .. m /\ f[0] = {[sub |-> r, sent |-> <<>>]}
        BY <2>1, PacketsStep
      <4>. QED BY <2>2, <3>1, <4>1
    <3>2. CASE i # 0 /\ i <= m
      <4>1. i \in 1 .. m /\ i \in 0 .. m /\ i - 1 \in 0 .. m
        BY <3>2
      <4>2. \A j \in 1 .. m : f[j] = {Srt!Packet(w, s[j]) : w \in f[j - 1]}
        BY <2>1, PacketsStep
      <4>3. f[i] = {Srt!Packet(w, s[i]) : w \in f[i - 1]}
        BY <4>1, <4>2, Zenon
      <4>4. g[i] = f[i] /\ g[i - 1] = f[i - 1]
        BY <2>2, <4>1, Zenon
      <4>. QED BY <3>2, <4>3, <4>4, Zenon
    <3>3. CASE i = m + 1
      <4>1. m \in 0 .. m /\ i - 1 = m /\ (m + 1) - 1 = m /\ i # 0
        BY <3>3
      <4>2. g[m] = f[m]
        BY <2>2, <4>1, Zenon
      <4>. QED BY <2>3, <3>3, <4>1, <4>2, Zenon
    <3>4. i # 0 /\ ~(i <= m) => i = m + 1
      OBVIOUS
    <3>. QED BY <3>1, <3>2, <3>3, <3>4, Zenon
  <2>6. g = [i \in 0 .. m + 1 |-> IF i = 0 THEN {[sub |-> r, sent |-> <<>>]} ELSE {Srt!Packet(w, s[i]) : w \in g[i - 1]}]
    BY <2>4, <2>5, Zenon
  <2>7. Packets(g, r, s, m + 1)
    BY <2>6, Zenon DEF Packets
  <2>. QED BY <2>7
<1>. QED
  <2>. HIDE DEF T
  <2>1. n \in T
    BY <1>1, <1>2, FanOutAssumption, H!SetInduction
  <2>. QED BY <2>1 DEF T

LEMMA PacketsSame ==
  ASSUME NEW r, NEW s, NEW t, NEW n \in Nat, NEW m \in Nat, n <= m,
         NEW f, NEW g, Packets(f, r, s, n), Packets(g, r, t, m),
         \A i \in 1 .. n : s[i] = t[i]
  PROVE  f[n] = g[n]
<1>. DEFINE T == {i \in Nat : i <= n => f[i] = g[i]}
<1>1. 0 \in T
  <2>1. f[0] = {[sub |-> r, sent |-> <<>>]} /\ g[0] = {[sub |-> r, sent |-> <<>>]}
    BY PacketsStep
  <2>. QED BY <2>1
<1>2. ASSUME NEW j \in Nat, j \in T
      PROVE  j + 1 \in T
  <2>. SUFFICES ASSUME j + 1 <= n PROVE f[j + 1] = g[j + 1]
    OBVIOUS
  <2>1. PICK i : i = j + 1
    OBVIOUS
  <2>2. i \in 1 .. n /\ i \in 1 .. m /\ f[i - 1] = g[i - 1]
    BY <1>2, <2>1
  <2>3. \A k \in 1 .. n : f[k] = {Srt!Packet(w, s[k]) : w \in f[k - 1]}
    BY PacketsStep
  <2>4. \A k \in 1 .. m : g[k] = {Srt!Packet(w, t[k]) : w \in g[k - 1]}
    BY PacketsStep
  <2>5. f[i] = {Srt!Packet(w, s[i]) : w \in f[i - 1]} /\ g[i] = {Srt!Packet(w, t[i]) : w \in g[i - 1]} /\ s[i] = t[i]
    BY <2>2, <2>3, <2>4, Zenon
  <2>. QED BY <2>1, <2>2, <2>5, Zenon
<1>. QED
  <2>. HIDE DEF T
  <2>1. n \in T
    BY <1>1, <1>2, FanOutAssumption, H!SetInduction
  <2>. QED BY <2>1 DEF T

LEMMA PacketsIs ==
  ASSUME NEW r, NEW s, Len(s) \in Nat
  PROVE  \E f : Packets(f, r, s, Len(s)) /\ Srt!PacketAll(r, s) = f[Len(s)]
<1>. DEFINE f == CHOOSE h : Packets(h, r, s, Len(s))
<1>1. \E h : Packets(h, r, s, Len(s))
  BY PacketsExists
<1>2. Packets(f, r, s, Len(s))
  BY <1>1
<1>3. Srt!PacketAll(r, s) = f[Len(s)]
  BY DEF Srt!PacketAll, Packets
<1>. QED BY <1>2, <1>3

\* PacketAll of nothing, and of one message more
LEMMA PacketAllEmpty ==
  ASSUME NEW r
  PROVE  Srt!PacketAll(r, <<>>) = {[sub |-> r, sent |-> <<>>]}
<1>1. PICK f : Packets(f, r, <<>>, 0) /\ Srt!PacketAll(r, <<>>) = f[0]
  <2>1. Len(<<>>) = 0
    OBVIOUS
  <2>. QED BY <2>1, PacketsIs
<1>. QED BY <1>1, PacketsStep

LEMMA PacketAllAppend ==
  ASSUME NEW S, NEW r, NEW s \in Seq(S), NEW e \in S
  PROVE  Srt!PacketAll(r, Append(s, e)) = {Srt!Packet(w, e) : w \in Srt!PacketAll(r, s)}
<1>. DEFINE t == Append(s, e)
            n == Len(s)
<1>1. /\ n \in Nat /\ n + 1 \in Nat /\ Len(t) = n + 1 /\ t[n + 1] = e /\ n <= n + 1
      /\ n + 1 \in 1 .. n + 1 /\ (n + 1) - 1 = n /\ \A i \in 1 .. n : s[i] = t[i]
  OBVIOUS
<1>. HIDE DEF t
<1>2. PICK f : Packets(f, r, s, n) /\ Srt!PacketAll(r, s) = f[n]
  BY <1>1, PacketsIs
<1>. HIDE DEF n
<1>3. PICK g : Packets(g, r, t, n + 1) /\ Srt!PacketAll(r, t) = g[n + 1]
  BY <1>1, PacketsIs
<1>4. f[n] = g[n]
  BY <1>1, <1>2, <1>3, PacketsSame
<1>5. \A k \in 1 .. n + 1 : g[k] = {Srt!Packet(w, t[k]) : w \in g[k - 1]}
  <2>1. PICK m : m = n + 1
    OBVIOUS
  <2>2. m \in Nat /\ Packets(g, r, t, m)
    BY <1>1, <1>3, <2>1, Zenon
  <2>3. \A k \in 1 .. m : g[k] = {Srt!Packet(w, t[k]) : w \in g[k - 1]}
    BY <2>2, PacketsStep
  <2>. QED BY <2>1, <2>3, Zenon
<1>6. g[n + 1] = {Srt!Packet(w, t[n + 1]) : w \in g[n]}
  BY <1>1, <1>5, Zenon
<1>7. Srt!PacketAll(r, t) = {Srt!Packet(w, e) : w \in Srt!PacketAll(r, s)}
  BY <1>1, <1>2, <1>3, <1>4, <1>6, Zenon
<1>. QED BY <1>7 DEF t

\* The recursion of Total
Adds(f, s, n) ==
  f = [i \in 0 .. n |-> IF i = 0 THEN 0 ELSE f[i - 1] + s[i]]

LEMMA AddsStep ==
  ASSUME NEW f, NEW s, NEW n \in Nat, Adds(f, s, n)
  PROVE  /\ f[0] = 0
         /\ \A i \in 1 .. n : f[i] = f[i - 1] + s[i]
<1>. DEFINE F(i) == IF i = 0 THEN 0 ELSE f[i - 1] + s[i]
<1>1. f = [i \in 0 .. n |-> F(i)]
  BY DEF Adds
<1>2. \A i \in 0 .. n : f[i] = F(i)
  <2>. HIDE DEF F
  <2>. QED BY <1>1
<1>3. 0 \in 0 .. n /\ \A i \in 1 .. n : i \in 0 .. n /\ i # 0
  OBVIOUS
<1>4. f[0] = 0
  BY <1>2, <1>3, Zenon
<1>5. ASSUME NEW i \in 1 .. n
      PROVE  f[i] = f[i - 1] + s[i]
  <2>1. i \in 0 .. n /\ i # 0
    OBVIOUS
  <2>2. f[i] = F(i)
    <3>. HIDE DEF F
    <3>. QED BY <1>2, <2>1
  <2>. QED BY <2>1, <2>2, Zenon
<1>. QED BY <1>4, <1>5

LEMMA AddsExists ==
  ASSUME NEW s, NEW n \in Nat
  PROVE  \E f : Adds(f, s, n)
<1>. DEFINE T == {m \in Nat : \E f : Adds(f, s, m)}
<1>1. 0 \in T
  <2>. DEFINE g == [i \in 0 .. 0 |-> 0]
  <2>1. g = [i \in 0 .. 0 |-> IF i = 0 THEN 0 ELSE g[i - 1] + s[i]]
    <3>1. \A i \in 0 .. 0 : i = 0
      OBVIOUS
    <3>. QED BY <3>1, Zenon
  <2>2. Adds(g, s, 0)
    <3>. HIDE DEF g
    <3>. QED BY <2>1 DEF Adds
  <2>. QED BY <2>2
<1>2. ASSUME NEW m \in Nat, m \in T
      PROVE  m + 1 \in T
  <2>1. PICK f : Adds(f, s, m)
    BY <1>2
  <2>. DEFINE g == [i \in 0 .. m + 1 |-> IF i <= m THEN f[i] ELSE f[i - 1] + s[i]]
  <2>2. \A i \in 0 .. m : g[i] = f[i]
    OBVIOUS
  <2>3. g[m + 1] = f[(m + 1) - 1] + s[m + 1]
    <3>1. m + 1 \in 0 .. m + 1 /\ ~(m + 1 <= m)
      OBVIOUS
    <3>. QED BY <3>1, Zenon
  <2>4. g = [i \in 0 .. m + 1 |-> g[i]]
    OBVIOUS
  <2>. HIDE DEF g
  <2>5. ASSUME NEW i \in 0 .. m + 1
        PROVE  g[i] = IF i = 0 THEN 0 ELSE g[i - 1] + s[i]
    <3>1. CASE i = 0
      <4>1. 0 \in 0 .. m /\ f[0] = 0
        BY <2>1, AddsStep
      <4>. QED BY <2>2, <3>1, <4>1
    <3>2. CASE i # 0 /\ i <= m
      <4>1. i \in 1 .. m /\ i \in 0 .. m /\ i - 1 \in 0 .. m
        BY <3>2
      <4>2. \A j \in 1 .. m : f[j] = f[j - 1] + s[j]
        BY <2>1, AddsStep
      <4>3. f[i] = f[i - 1] + s[i]
        BY <4>1, <4>2, Zenon
      <4>4. g[i] = f[i] /\ g[i - 1] = f[i - 1]
        BY <2>2, <4>1, Zenon
      <4>. QED BY <3>2, <4>3, <4>4, Zenon
    <3>3. CASE i = m + 1
      <4>1. m \in 0 .. m /\ i - 1 = m /\ (m + 1) - 1 = m /\ i # 0
        BY <3>3
      <4>2. g[m] = f[m]
        BY <2>2, <4>1, Zenon
      <4>. QED BY <2>3, <3>3, <4>1, <4>2, Zenon
    <3>4. i # 0 /\ ~(i <= m) => i = m + 1
      OBVIOUS
    <3>. QED BY <3>1, <3>2, <3>3, <3>4, Zenon
  <2>6. g = [i \in 0 .. m + 1 |-> IF i = 0 THEN 0 ELSE g[i - 1] + s[i]]
    BY <2>4, <2>5, Zenon
  <2>7. Adds(g, s, m + 1)
    BY <2>6, Zenon DEF Adds
  <2>. QED BY <2>7
<1>. QED
  <2>. HIDE DEF T
  <2>1. n \in T
    BY <1>1, <1>2, FanOutAssumption, H!SetInduction
  <2>. QED BY <2>1 DEF T

LEMMA AddsSame ==
  ASSUME NEW s, NEW t, NEW n \in Nat, NEW m \in Nat, n <= m,
         NEW f, NEW g, Adds(f, s, n), Adds(g, t, m),
         \A i \in 1 .. n : s[i] = t[i]
  PROVE  f[n] = g[n]
<1>. DEFINE T == {i \in Nat : i <= n => f[i] = g[i]}
<1>1. 0 \in T
  <2>1. f[0] = 0 /\ g[0] = 0
    BY AddsStep
  <2>. QED BY <2>1
<1>2. ASSUME NEW j \in Nat, j \in T
      PROVE  j + 1 \in T
  <2>. SUFFICES ASSUME j + 1 <= n PROVE f[j + 1] = g[j + 1]
    OBVIOUS
  <2>1. PICK i : i = j + 1
    OBVIOUS
  <2>2. i \in 1 .. n /\ i \in 1 .. m /\ f[i - 1] = g[i - 1]
    BY <1>2, <2>1
  <2>3. \A k \in 1 .. n : f[k] = f[k - 1] + s[k]
    BY AddsStep
  <2>4. \A k \in 1 .. m : g[k] = g[k - 1] + t[k]
    BY AddsStep
  <2>5. f[i] = f[i - 1] + s[i] /\ g[i] = g[i - 1] + t[i] /\ s[i] = t[i]
    BY <2>2, <2>3, <2>4, Zenon
  <2>. QED BY <2>1, <2>2, <2>5, Zenon
<1>. QED
  <2>. HIDE DEF T
  <2>1. n \in T
    BY <1>1, <1>2, FanOutAssumption, H!SetInduction
  <2>. QED BY <2>1 DEF T

LEMMA AddsIs ==
  ASSUME NEW s, Len(s) \in Nat
  PROVE  \E f : Adds(f, s, Len(s)) /\ Whep!Total(s) = f[Len(s)]
<1>. DEFINE f == CHOOSE h : Adds(h, s, Len(s))
<1>1. \E h : Adds(h, s, Len(s))
  BY AddsExists
<1>2. Adds(f, s, Len(s))
  BY <1>1
<1>3. Whep!Total(s) = f[Len(s)]
  BY DEF Whep!Total, Adds
<1>. QED BY <1>2, <1>3

\* Total of nothing, and of one size more
LEMMA TotalEmpty ==
  Whep!Total(<<>>) = 0
<1>1. PICK f : Adds(f, <<>>, 0) /\ Whep!Total(<<>>) = f[0]
  <2>1. Len(<<>>) = 0
    OBVIOUS
  <2>. QED BY <2>1, AddsIs
<1>. QED BY <1>1, AddsStep

LEMMA TotalAppend ==
  ASSUME NEW S, NEW s \in Seq(S), NEW e \in S
  PROVE  Whep!Total(Append(s, e)) = Whep!Total(s) + e
<1>. DEFINE t == Append(s, e)
            n == Len(s)
<1>1. /\ n \in Nat /\ n + 1 \in Nat /\ Len(t) = n + 1 /\ t[n + 1] = e /\ n <= n + 1
      /\ n + 1 \in 1 .. n + 1 /\ (n + 1) - 1 = n /\ \A i \in 1 .. n : s[i] = t[i]
  OBVIOUS
<1>. HIDE DEF t
<1>2. PICK f : Adds(f, s, n) /\ Whep!Total(s) = f[n]
  BY <1>1, AddsIs
<1>. HIDE DEF n
<1>3. PICK g : Adds(g, t, n + 1) /\ Whep!Total(t) = g[n + 1]
  BY <1>1, AddsIs
<1>4. f[n] = g[n]
  BY <1>1, <1>2, <1>3, AddsSame
<1>5. \A k \in 1 .. n + 1 : g[k] = g[k - 1] + t[k]
  <2>1. PICK m : m = n + 1
    OBVIOUS
  <2>2. m \in Nat /\ Adds(g, t, m)
    BY <1>1, <1>3, <2>1, Zenon
  <2>3. \A k \in 1 .. m : g[k] = g[k - 1] + t[k]
    BY <2>2, AddsStep
  <2>. QED BY <2>1, <2>3, Zenon
<1>6. g[n + 1] = g[n] + t[n + 1]
  BY <1>1, <1>5, Zenon
<1>7. Whep!Total(t) = Whep!Total(s) + e
  BY <1>1, <1>2, <1>3, <1>4, <1>6, Zenon
<1>. QED BY <1>7 DEF t

-----------------------------------------------------------------------------
(***************************************************************************)
(* Sequences of messages, of some kinds and without how they came.         *)
(***************************************************************************)

\* A sequence is empty or one longer than another.
LEMMA LastOut ==
  ASSUME NEW S, NEW s \in Seq(S), NEW n \in Nat, Len(s) = n + 1
  PROVE  \E u \in Seq(S) : \E e \in S : s = Append(u, e) /\ Len(u) = n
<1>. DEFINE u == [i \in 1 .. n |-> s[i]]
<1>1. u \in Seq(S) /\ Len(u) = n /\ s[n + 1] \in S
  OBVIOUS
<1>2. s = Append(u, s[n + 1])
  OBVIOUS
<1>. QED BY <1>1, <1>2

LEMMA OfKindsIn ==
  ASSUME NEW S, NEW s \in Seq(S), NEW K
  PROVE  OfKinds(s, K) \in Seq(S)
<1>. DEFINE T == {n \in Nat : \A t \in Seq(S) : Len(t) = n => OfKinds(t, K) \in Seq(S)}
<1>1. 0 \in T
  <2>1. \A t \in Seq(S) : Len(t) = 0 => t = <<>>
    OBVIOUS
  <2>. QED BY <2>1, OfKindsEmpty
<1>2. ASSUME NEW n \in Nat, n \in T
      PROVE  n + 1 \in T
  <2>1. ASSUME NEW t \in Seq(S), Len(t) = n + 1
        PROVE  OfKinds(t, K) \in Seq(S)
    <3>1. PICK u \in Seq(S), e \in S : t = Append(u, e) /\ Len(u) = n
      BY <2>1, LastOut
    <3>2. OfKinds(u, K) \in Seq(S)
      BY <1>2, <3>1
    <3>3. OfKinds(t, K) = IF e.kind \in K THEN Append(OfKinds(u, K), e) ELSE OfKinds(u, K)
      BY <3>1, OfKindsAppend
    <3>. QED BY <3>2, <3>3
  <2>. QED BY <2>1
<1>. QED
  <2>. HIDE DEF T
  <2>0. Len(s) \in Nat
    OBVIOUS
  <2>1. Len(s) \in T
    BY <1>1, <1>2, <2>0, FanOutAssumption, H!SetInduction
  <2>. QED BY <2>1 DEF T

LEMMA OfKindsConcat ==
  ASSUME NEW S, NEW s \in Seq(S), NEW t \in Seq(S), NEW K
  PROVE  OfKinds(s \o t, K) = OfKinds(s, K) \o OfKinds(t, K)
<1>. DEFINE P(z) == OfKinds(s \o z, K) = OfKinds(s, K) \o OfKinds(z, K)
            T == {n \in Nat : \A z \in Seq(S) : Len(z) = n => P(z)}
<1>1. 0 \in T
  <2>1. \A z \in Seq(S) : Len(z) = 0 => z = <<>>
    OBVIOUS
  <2>2. P(<<>>)
    <3>1. OfKinds(s, K) \in Seq(S)
      BY OfKindsIn
    <3>2. s \o <<>> = s /\ OfKinds(s, K) \o <<>> = OfKinds(s, K)
      BY <3>1
    <3>. QED BY <3>2, OfKindsEmpty
  <2>. HIDE DEF P
  <2>. QED BY <2>1, <2>2
<1>2. ASSUME NEW n \in Nat, n \in T
      PROVE  n + 1 \in T
  <2>1. ASSUME NEW z \in Seq(S), Len(z) = n + 1
        PROVE  P(z)
    <3>1. PICK u \in Seq(S), e \in S : z = Append(u, e) /\ Len(u) = n
      BY <2>1, LastOut
    <3>2. P(u)
      BY <1>2, <3>1
    <3>3. OfKinds(z, K) = IF e.kind \in K THEN Append(OfKinds(u, K), e) ELSE OfKinds(u, K)
      BY <3>1, OfKindsAppend
    <3>4. s \o z = Append(s \o u, e) /\ s \o u \in Seq(S)
      BY <3>1
    <3>5. PICK w \in Seq(S) : w = s \o u
      BY <3>4
    <3>6. OfKinds(Append(w, e), K)
            = IF e.kind \in K THEN Append(OfKinds(w, K), e) ELSE OfKinds(w, K)
      BY OfKindsAppend
    <3>7. OfKinds(s, K) \in Seq(S) /\ OfKinds(u, K) \in Seq(S)
      BY OfKindsIn
    <3>8. OfKinds(s, K) \o Append(OfKinds(u, K), e) = Append(OfKinds(s, K) \o OfKinds(u, K), e)
      BY <3>7
    <3>. QED BY <3>2, <3>3, <3>4, <3>5, <3>6, <3>8
  <2>. HIDE DEF P
  <2>. QED BY <2>1
<1>. QED
  <2>. HIDE DEF T
  <2>0. Len(t) \in Nat
    OBVIOUS
  <2>1. Len(t) \in T
    BY <1>1, <1>2, <2>0, FanOutAssumption, H!SetInduction
  <2>2. \A z \in Seq(S) : Len(z) = Len(t) => P(z)
    BY <2>1 DEF T
  <2>3. P(t)
    <3>. HIDE DEF P
    <3>. QED BY <2>2
  <2>. QED BY <2>3

\* Nothing is left out when all are of those kinds.
LEMMA OfKindsAll ==
  ASSUME NEW S, NEW s \in Seq(S), NEW K, \A e \in S : e.kind \in K
  PROVE  OfKinds(s, K) = s
<1>. DEFINE T == {n \in Nat : \A t \in Seq(S) : Len(t) = n => OfKinds(t, K) = t}
<1>1. 0 \in T
  <2>1. \A t \in Seq(S) : Len(t) = 0 => t = <<>>
    OBVIOUS
  <2>. QED BY <2>1, OfKindsEmpty
<1>2. ASSUME NEW n \in Nat, n \in T
      PROVE  n + 1 \in T
  <2>1. ASSUME NEW t \in Seq(S), Len(t) = n + 1
        PROVE  OfKinds(t, K) = t
    <3>1. PICK u \in Seq(S), e \in S : t = Append(u, e) /\ Len(u) = n
      BY <2>1, LastOut
    <3>2. OfKinds(u, K) = u
      BY <1>2, <3>1
    <3>3. OfKinds(t, K) = IF e.kind \in K THEN Append(OfKinds(u, K), e) ELSE OfKinds(u, K)
      BY <3>1, OfKindsAppend
    <3>. QED BY <3>1, <3>2, <3>3
  <2>. QED BY <2>1
<1>. QED
  <2>. HIDE DEF T
  <2>0. Len(s) \in Nat
    OBVIOUS
  <2>1. Len(s) \in T
    BY <1>1, <1>2, <2>0, FanOutAssumption, H!SetInduction
  <2>. QED BY <2>1 DEF T

\* Cores of a sequence, of two and of one more.

LEMMA CoresLen ==
  ASSUME NEW S, NEW s \in Seq(S)
  PROVE  /\ DOMAIN Cores(s) = 1 .. Len(s) /\ Len(Cores(s)) = Len(s)
         /\ Cores(s) = [i \in 1 .. Len(s) |-> Core(s[i])]
BY DEF Cores

LEMMA CoresEmpty == Cores(<<>>) = <<>>
BY DEF Cores

LEMMA CoresConcat ==
  ASSUME NEW S, NEW s \in Seq(S), NEW R, NEW t \in Seq(R)
  PROVE  Cores(s \o t) = Cores(s) \o Cores(t)
<1>1. /\ Cores(s) = [i \in 1 .. Len(s) |-> Core(s[i])] /\ Cores(t) = [i \in 1 .. Len(t) |-> Core(t[i])]
      /\ Cores(s) \in Seq({Core(e) : e \in S}) /\ Cores(t) \in Seq({Core(e) : e \in R})
      /\ Len(Cores(s)) = Len(s) /\ Len(Cores(t)) = Len(t)
  BY DEF Cores
<1>2. /\ DOMAIN (s \o t) = 1 .. Len(s) + Len(t)
      /\ \A i \in 1 .. Len(s) + Len(t) : (s \o t)[i] = IF i <= Len(s) THEN s[i] ELSE t[i - Len(s)]
  OBVIOUS
<1>3. Cores(s \o t) = [i \in 1 .. Len(s) + Len(t) |-> Core((s \o t)[i])]
  BY <1>2, Zenon DEF Cores
<1>4. Cores(s) \o Cores(t)
        = [i \in 1 .. Len(s) + Len(t) |-> IF i <= Len(s) THEN Core(s[i]) ELSE Core(t[i - Len(s)])]
  <2>. DEFINE x == Cores(s)
              y == Cores(t)
  <2>1. \A i \in 1 .. Len(t) : y[i] = Core(t[i])
    BY <1>1
  <2>2. \A i \in 1 .. Len(s) : x[i] = Core(s[i])
    BY <1>1
  <2>3. x \o y = [i \in 1 .. Len(x) + Len(y) |-> IF i <= Len(x) THEN x[i] ELSE y[i - Len(x)]]
    <3>. HIDE DEF x, y
    <3>. QED BY <1>1 DEF x, y
  <2>. HIDE DEF x, y
  <2>4. Len(x) = Len(s) /\ Len(y) = Len(t)
    BY <1>1 DEF x, y
  <2>5. \A i \in 1 .. Len(s) + Len(t) :
          (IF i <= Len(x) THEN x[i] ELSE y[i - Len(x)])
            = (IF i <= Len(s) THEN Core(s[i]) ELSE Core(t[i - Len(s)]))
    <3>1. \A i \in 1 .. Len(s) + Len(t) : i <= Len(s) \/ i - Len(s) \in 1 .. Len(t)
      OBVIOUS
    <3>. QED BY <2>1, <2>2, <2>4, <3>1
  <2>. QED BY <2>3, <2>4, <2>5 DEF x, y
<1>. QED BY <1>2, <1>3, <1>4

LEMMA CoresAppend ==
  ASSUME NEW S, NEW s \in Seq(S), NEW e
  PROVE  Cores(Append(s, e)) = Append(Cores(s), Core(e))
<1>1. <<e>> \in Seq({e}) /\ Append(s, e) = s \o <<e>>
  OBVIOUS
<1>2. Cores(<<e>>) = <<Core(e)>>
  BY DEF Cores
<1>3. Cores(s) \in Seq({Core(x) : x \in S})
  BY DEF Cores
<1>4. Cores(s) \o <<Core(e)>> = Append(Cores(s), Core(e))
  BY <1>3
<1>. QED BY <1>1, <1>2, <1>4, CoresConcat

\* A flattened sequence of sequences, and with one more of them
LEMMA FlattensSame ==
  ASSUME NEW n \in Nat, NEW m \in Nat, n <= m, NEW f, NEW g, NEW w, NEW v,
         H!Flattens(f, w, n), H!Flattens(g, v, m), \A i \in 1 .. n : w[i] = v[i]
  PROVE  \A i \in 1 .. n : f[i] = g[i]
<1>. DEFINE T == {i \in Nat : i \in 1 .. n => f[i] = g[i]}
<1>0. /\ \A i \in 1 .. n : f[i] = IF i = 1 THEN w[i] ELSE f[i - 1] \o w[i]
      /\ \A i \in 1 .. m : g[i] = IF i = 1 THEN v[i] ELSE g[i - 1] \o v[i]
  BY DEF H!Flattens
<1>1. 0 \in T
  OBVIOUS
<1>2. ASSUME NEW j \in Nat, j \in T
      PROVE  j + 1 \in T
  <2>. SUFFICES ASSUME j + 1 \in 1 .. n PROVE f[j + 1] = g[j + 1]
    OBVIOUS
  <2>1. PICK i : i = j + 1
    OBVIOUS
  <2>2. i \in 1 .. n /\ i \in 1 .. m /\ (i # 1 => f[i - 1] = g[i - 1]) /\ w[i] = v[i]
    BY <1>2, <2>1
  <2>. QED BY <1>0, <2>1, <2>2, ZenonT(60)
<1>3. \A i \in Nat : i \in T
  <2>. HIDE DEF T
  <2>. QED BY <1>1, <1>2, FanOutAssumption, H!SetInduction
<1>. QED BY <1>3

LEMMA FlatAppend ==
  ASSUME NEW S, NEW w \in Seq(Seq(S)), NEW x \in Seq(S)
  PROVE  Concatenation(Append(w, x)) = IF w = <<>> THEN x ELSE Concatenation(w) \o x
<1>. DEFINE v == Append(w, x)
            n == Len(w)
<1>1. /\ v \in Seq(Seq(S)) /\ n \in Nat /\ Len(v) = n + 1 /\ v # <<>> /\ v[n + 1] = x
      /\ \A i \in 1 .. n : w[i] = v[i]
      /\ n + 1 \in Nat /\ n <= n + 1 /\ n + 1 \in 1 .. n + 1 /\ (n + 1) - 1 = n /\ (n = 0 <=> w = <<>>)
      /\ w # <<>> => n \in 1 .. n /\ n + 1 # 1
  OBVIOUS
<1>2. \A z : Concatenation(z) = H!Concatenation(z)
  BY Zenon DEF Concatenation, H!Concatenation
<1>. HIDE DEF v
<1>3. PICK g : H!Flattens(g, v, n + 1) /\ Concatenation(v) = g[n + 1]
  BY <1>1, <1>2, FanOutAssumption, H!FlattenIs
<1>4. g[n + 1] = IF n + 1 = 1 THEN v[n + 1] ELSE g[(n + 1) - 1] \o v[n + 1]
  <2>. HIDE DEF n
  <2>1. \A i \in 1 .. n + 1 : g[i] = IF i = 1 THEN v[i] ELSE g[i - 1] \o v[i]
    BY <1>3 DEF H!Flattens
  <2>. QED BY <1>1, <2>1, Zenon
<1>5. CASE w = <<>>
  BY <1>1, <1>3, <1>4, <1>5 DEF v
<1>6. CASE w # <<>>
  <2>1. PICK f : H!Flattens(f, w, n) /\ Concatenation(w) = f[n]
    BY <1>2, <1>6, FanOutAssumption, H!FlattenIs
  <2>. HIDE DEF n
  <2>2. f[n] = g[n]
    BY <1>1, <1>3, <1>6, <2>1, FlattensSame
  <2>. QED BY <1>1, <1>3, <1>4, <1>6, <2>1, <2>2, Zenon DEF v
<1>. QED BY <1>5, <1>6

LEMMA FlatIn ==
  ASSUME NEW S, NEW w \in Seq(Seq(S))
  PROVE  Concatenation(w) \in Seq(S)
<1>. DEFINE T == {n \in Nat : \A v \in Seq(Seq(S)) : Len(v) = n => Concatenation(v) \in Seq(S)}
<1>1. 0 \in T
  <2>1. \A v \in Seq(Seq(S)) : Len(v) = 0 => v = <<>>
    OBVIOUS
  <2>2. Concatenation(<<>>) = <<>>
    BY DEF Concatenation
  <2>. QED BY <2>1, <2>2
<1>2. ASSUME NEW n \in Nat, n \in T
      PROVE  n + 1 \in T
  <2>1. ASSUME NEW v \in Seq(Seq(S)), Len(v) = n + 1
        PROVE  Concatenation(v) \in Seq(S)
    <3>1. PICK u \in Seq(Seq(S)), x \in Seq(S) : v = Append(u, x) /\ Len(u) = n
      BY <2>1, LastOut
    <3>2. Concatenation(u) \in Seq(S)
      BY <1>2, <3>1
    <3>3. Concatenation(v) = IF u = <<>> THEN x ELSE Concatenation(u) \o x
      BY <3>1, FlatAppend
    <3>. QED BY <3>2, <3>3
  <2>. QED BY <2>1
<1>. QED
  <2>. HIDE DEF T
  <2>0. Len(w) \in Nat
    OBVIOUS
  <2>1. Len(w) \in T
    BY <1>1, <1>2, <2>0, FanOutAssumption, H!SetInduction
  <2>. QED BY <2>1 DEF T

-----------------------------------------------------------------------------
\* What the packets for Safari lose of a frame of n bytes
SafariLosesOf(n) == IF n % (n \div MaxPayload + 1) = 0 THEN 0 ELSE 1

\* The packets for Safari carry all of a frame of n bytes but its last byte, or all of it when the
\* frame divides evenly (rtc/packer.go:274-297, the remainder at 276).
THEOREM SafariTotal ==
  ASSUME NEW n \in Nat
  PROVE  Whep!Total(Whep!SafariPayloads(n)) = n - SafariLosesOf(n)
<1>. DEFINE k == n \div MaxPayload + 1
            q == n \div k
            r == n % k
            s == Whep!SafariPayloads(n)
            over(i) == IF r + i - k - 1 > 0 THEN r + i - k - 1 ELSE 0
<1>0. MaxPayload \in Nat /\ MaxPayload # 0
  BY SessionsAssumption DEF SessionsAssumption
<1>1. k \in Nat /\ k > 0
  <2>1. n \div MaxPayload \in Nat
    BY <1>0
  <2>. QED BY <2>1
<1>. HIDE DEF k
<1>2. q \in Nat /\ r \in Nat /\ r < k /\ n = k * q + r
  BY <1>1
<1>3. s = [i \in 1 .. k |-> q + (IF k + 1 - i < r THEN 1 ELSE 0)]
  BY Zenon DEF Whep!SafariPayloads, k
<1>. HIDE DEF q, r
<1>4. Len(s) = k /\ \A i \in 1 .. k : s[i] = q + (IF k + 1 - i < r THEN 1 ELSE 0)
  BY <1>1, <1>2, <1>3
<1>. HIDE DEF s
<1>5. PICK f : Adds(f, s, k) /\ Whep!Total(s) = f[k]
  BY <1>1, <1>4, AddsIs
<1>6. f[0] = 0 /\ \A i \in 1 .. k : f[i] = f[i - 1] + s[i]
  BY <1>1, <1>5, AddsStep
<1>. DEFINE T == {i \in Nat : i <= k => f[i] = i * q + over(i)}
<1>7. 0 \in T
  BY <1>1, <1>2, <1>6
<1>8. ASSUME NEW j \in Nat, j \in T
      PROVE  j + 1 \in T
  <2>. SUFFICES ASSUME j + 1 <= k PROVE f[j + 1] = (j + 1) * q + over(j + 1)
    OBVIOUS
  <2>1. PICK i : i = j + 1
    OBVIOUS
  <2>2. i \in 1 .. k /\ i - 1 = j
    BY <1>1, <2>1
  <2>3. f[i] = f[i - 1] + s[i]
    BY <1>6, <2>2
  <2>4. f[i - 1] = j * q + over(j)
    BY <1>1, <1>8, <2>1
  <2>5. s[i] = q + (IF k + 1 - i < r THEN 1 ELSE 0)
    BY <1>4, <2>2
  <2>6. PICK x \in Int : x = j * q
    BY <1>2
  <2>7. (j + 1) * q = x + q
    BY <1>2, <2>6
  <2>8. over(j + 1) = over(j) + (IF k + 1 - i < r THEN 1 ELSE 0) /\ over(j) \in Int
    BY <1>1, <1>2, <2>1
  <2>. HIDE DEF over
  <2>. QED BY <1>2, <2>1, <2>3, <2>4, <2>5, <2>6, <2>7, <2>8
<1>9. f[k] = k * q + over(k)
  <2>. HIDE DEF T
  <2>1. k \in T
    BY <1>1, <1>7, <1>8, FanOutAssumption, H!SetInduction
  <2>. QED BY <1>1, <2>1 DEF T
<1>10. f[k] = n - (IF r = 0 THEN 0 ELSE 1)
  <2>1. PICK x \in Int : x = k * q
    BY <1>1, <1>2
  <2>. QED BY <1>1, <1>2, <1>9, <2>1
<1>. QED BY <1>5, <1>10 DEF SafariLosesOf, k, r, s

-----------------------------------------------------------------------------
(***************************************************************************)
(* What is with a client or waiting for it: for each protocol the session  *)
(* r of a viewer, what was sent to it (o), what it was given (g) and what  *)
(* it is to the hook session (s).                                          *)
(***************************************************************************)

Vias  == {"header", "cache", "live"}
Given == [kind : MsgKinds, seq : 1 .. MaxMsgs, via : Vias]
Joined == {"added", "removed"}
CoreSet == [kind : MsgKinds, seq : Nat]
IceStates == {"new", "connected", "disconnected", "failed", "closed"}
NotYet(o, s) == o = <<>> /\ s \notin Joined
NoSession == [pc |-> "idle"]

\* What has been sent and what waits
Both(o, b) == Cores(o \o b)

WhepRecord ==
  [pc : {"new", "half", "answered", "refused", "run", "returned"}, ice : IceStates, losses : Nat,
   close : 0 .. Whep!CloseSize, senders : Nat, video : {"none", "h264", "hevc"},
   audio : {"none", "opus", "pcma", "pcmu"}, header : Nat, box : Seq(Given)]
WhepPacket == [kind : MsgKinds, seq : 1 .. MaxMsgs, via : Vias, bytes : Int, header : Nat]

WhepKinds(r) == (IF r.video = "none" THEN {} ELSE {"key", "inter"})
                \cup (IF r.audio = "none" THEN {} ELSE AudioKinds)
BytesOf(e, video) ==
  FrameSize[e.seq]
    - (IF IsVideo(e) /\ video = "hevc" THEN SafariLosesOf(FrameSize[e.seq]) ELSE 0)

WhepOK(r, o, g, s) ==
  \/ r = NoSession /\ NotYet(o, s)
  \/ /\ r \in WhepRecord /\ o \in Seq(WhepPacket)
     /\ r.pc \in {"new", "half", "answered", "refused"} => NotYet(o, s) /\ r.box = <<>>
     /\ r.pc \in {"run", "returned"} => Both(o, r.box) = Cores(OfKinds(g, WhepKinds(r)))
     /\ \A i \in 1 .. Len(o) : o[i].bytes = BytesOf(o[i], r.video)

JessibucaRecord ==
  [pc : {"new", "answered", "refused", "found", "joined", "returned", "headless", "loop",
         "leaving", "removed", "closed"},
   ice : IceStates, losses : Nat, close : 0 .. Jessibuca!CloseSize, senders : Nat,
   dc : BOOLEAN, once : BOOLEAN, box : Seq(Given)]
JessibucaPacket == Given \cup {[kind |-> "flv"]}

JessibucaOK(r, o, g, s) ==
  \/ r = NoSession /\ NotYet(o, s)
  \/ /\ r \in JessibucaRecord /\ o \in Seq(JessibucaPacket)
     /\ r.pc \in {"new", "answered", "refused", "found", "returned"} =>
          NotYet(o, s) /\ r.box = <<>>
     /\ r.pc \in {"joined", "headless"} => o = <<>> /\ (r.dc => Cores(r.box) = Cores(g))
     /\ r.pc = "loop" => r.dc /\ o # <<>> /\ Both(Tail(o), r.box) = Cores(g)

Fmp4Fragment == [number : Nat, samples : Seq(CoreSet)]
Fmp4Record ==
  [pc : {"new", "half", "answered", "refused", "joined", "reading", "disposed", "closed"},
   video : BOOLEAN, seqNumber : Nat, queued : Nat,
   vfragment : Fmp4Fragment, afragment : Fmp4Fragment]
Fmp4Box == [box : {"init", "video", "audio"}, number : Nat, samples : Seq(CoreSet), writes : Nat]

Boxed(o, box) == [i \in 1 .. Len(o) |-> IF o[i].box = box THEN o[i].samples ELSE <<>>]

\* A fragment that has samples has a number, n at most, and none of the boxes o has it.
Apart(o, n, f) ==
  /\ f.number \in 0 .. n
  /\ f.number = 0 => f = Fmp4!NoFragment
  /\ \A i \in 1 .. Len(o) : f.number # 0 => o[i].number # f.number

\* The numbers of the boxes o are n at most, and different: the init segment has 0.
Numbered(o, n) ==
  /\ \A i \in 1 .. Len(o) : /\ o[i].number = 0 <=> o[i].box = "init"
                            /\ o[i].number <= n
  /\ \A i, j \in 1 .. Len(o) : o[i].number = o[j].number => i = j

\* w: the number and the fragments
Fmp4Good(w, o, g) ==
  /\ Concatenation(Boxed(o, "video")) \o w.vfragment.samples = Cores(OfKinds(g, VideoKinds))
  /\ Concatenation(Boxed(o, "audio")) \o w.afragment.samples
       = Cores(OfKinds(g, {"aac", "aacHeader"}))
  /\ Numbered(o, w.seqNumber)
  /\ Apart(o, w.seqNumber, w.vfragment) /\ Apart(o, w.seqNumber, w.afragment)
  /\ w.vfragment.number = w.afragment.number => w.vfragment.number = 0

\* The limits of a session w
InBounds(w) ==
  /\ Len(w.vfragment.samples) <= FragmentSamples + 1
  /\ Len(w.afragment.samples) <= FragmentSamples + 1
  /\ w.queued <= WriteChanSize

Fmp4OK(r, o, g, s) ==
  \/ r = NoSession /\ NotYet(o, s)
  \/ /\ r \in Fmp4Record /\ o \in Seq(Fmp4Box)
     /\ InBounds(r)
     /\ r.pc \in {"new", "half", "answered", "refused"} =>
          /\ NotYet(o, s) /\ r.seqNumber = 0
          /\ r.vfragment = Fmp4!NoFragment /\ r.afragment = Fmp4!NoFragment
     /\ r.pc \in {"joined"} => \A i \in 1 .. Len(o) : o[i].box # "init"
     /\ r.pc \in {"joined", "reading", "disposed"} => Fmp4Good(r, o, g)

SrtRecord ==
  [pc : {"new", "joined", "run"}, conn : {"open", "left", "failed", "closed"},
   hasInit : BOOLEAN, video : BOOLEAN, audio : BOOLEAN, sendBuf : Seq(Given), missed : Nat]
SrtKinds(r) == (IF r.video THEN {"key", "inter"} ELSE {}) \cup (IF r.audio THEN {"aac"} ELSE {})

SrtGood(r, o, g) ==
  /\ Len(r.sendBuf) <= MaxSend
  /\ r.pc \in {"new", "joined"} \/ ~r.hasInit =>
       r.missed = Len(g) /\ o = <<>> /\ r.sendBuf = <<>>
  /\ r.conn \in {"open", "left"} =>
       /\ r.missed <= Len(g)
       /\ Both(o, r.sendBuf) = Cores(OfKinds(SubSeq(g, r.missed + 1, Len(g)), SrtKinds(r)))

SrtOK(r, o, g, s) ==
  \/ r = NoSession /\ NotYet(o, s)
  \/ /\ r \in SrtRecord /\ o \in Seq(Given)
     /\ r.pc = "new" => NotYet(o, s)
     /\ SrtGood(r, o, g)

ViewerOK(c) ==
  CASE setup.viewer = "whep"      -> WhepOK(st[c], out[c], got[c], sub[c])
    [] setup.viewer = "jessibuca" -> JessibucaOK(st[c], out[c], got[c], sub[c])
    [] setup.viewer = "fmp4"      -> Fmp4OK(st[c], out[c], got[c], sub[c])
    [] setup.viewer = "srt"       -> SrtOK(st[c], out[c], got[c], sub[c])
    [] OTHER                      -> st[c] = NoSession

\* A publisher by WHIP: what it has read is what lal was fed and what waits.
Fed == IF at = "OnMsg" THEN Append(hist, msg) ELSE hist

WhipOK(p) ==
  \/ st[p] = NoSession /\ out[p] = <<>>
  \/ /\ st[p].pc # "idle"
     /\ Len(st[p].pktChan) <= PktChanSize
     /\ \A i \in 1 .. Len(out[p]) : out[p][i].seq = i
     /\ st[p].pc \in {"new", "refused"} =>
          /\ owner = p /\ at = "live" /\ hist = <<>>
          /\ st[p].pktChan = <<>> /\ out[p] = <<>>
     /\ st[p].pc = "run" =>
          /\ owner = p /\ at \in {"live", "OnMsg"}
          /\ out[p] = Fed \o st[p].pktChan

PublisherOK(p) ==
  CASE setup.publisher = "whip" -> WhipOK(p)
    [] setup.publisher = "srt"  ->
         st[p] = NoSession \/ st[p] \in [pc : {"run", "returned", "nil", "panicked"},
                                         conn : {"open", "ended", "closed"}, read : Nat]
    [] OTHER                    -> st[p] = NoSession

Kept ==
  /\ DOMAIN out = Clients
  /\ \A c \in Subscribers : got[c] \in Seq(Given) /\ ViewerOK(c)
  /\ \A p \in Publishers : PublisherOK(p)

-----------------------------------------------------------------------------
\* What is sent on keeps its place, and what is given comes behind what waits.
LEMMA MoveOn ==
  ASSUME NEW R, NEW o \in Seq(R), NEW S, NEW b \in Seq(S), b # <<>>, NEW x \in R,
         Core(x) = Core(Head(b))
  PROVE  /\ Both(Append(o, x), Tail(b)) = Both(o, b)
         /\ Append(o, x) \in Seq(R) /\ Tail(b) \in Seq(S)
<1>1. Append(o, x) \in Seq(R) /\ Tail(b) \in Seq(S)
  OBVIOUS
<1>2. /\ Cores(Append(o, x) \o Tail(b)) = Append(Cores(o), Core(x)) \o Cores(Tail(b))
      /\ Cores(o \o b) = Cores(o) \o Cores(b)
  <2>1. PICK u \in Seq(R) : u = Append(o, x)
    BY <1>1
  <2>2. PICK v \in Seq(S) : v = Tail(b)
    BY <1>1
  <2>3. Cores(u \o v) = Cores(u) \o Cores(v) /\ Cores(o \o b) = Cores(o) \o Cores(b)
    BY CoresConcat
  <2>4. Cores(Append(o, x)) = Append(Cores(o), Core(x))
    BY CoresAppend
  <2>. QED BY <2>1, <2>2, <2>3, <2>4
<1>. DEFINE p == Cores(o)
            q == Cores(b)
            C == {Core(e) : e \in R} \cup {Core(e) : e \in S}
<1>3. p \in Seq(C) /\ q \in Seq(C) /\ Len(q) = Len(b) /\ q # <<>>
  BY DEF Cores
<1>4. Head(q) = Core(x)
  BY DEF Cores
<1>5. Cores(Tail(b)) = Tail(q)
  <2>1. Len(Tail(b)) = Len(b) - 1 /\ \A i \in 1 .. Len(b) - 1 : Tail(b)[i] = b[i + 1]
    OBVIOUS
  <2>2. Cores(Tail(b)) = [i \in 1 .. Len(b) - 1 |-> Core(b[i + 1])]
    BY <1>1, <2>1, CoresLen
  <2>3. Len(Tail(q)) = Len(b) - 1 /\ \A i \in 1 .. Len(b) - 1 : Tail(q)[i] = q[i + 1]
    <3>. HIDE DEF q
    <3>. QED BY <1>3
  <2>4. \A i \in 1 .. Len(b) - 1 : q[i + 1] = Core(b[i + 1])
    BY CoresLen
  <2>5. Tail(q) = [i \in 1 .. Len(b) - 1 |-> Tail(q)[i]]
    <3>. HIDE DEF q, C
    <3>1. PICK z : z = Tail(q)
      OBVIOUS
    <3>2. z \in Seq(C) /\ Len(z) = Len(b) - 1
      BY <1>3, <2>3, <3>1
    <3>3. DOMAIN z = 1 .. Len(z) /\ z = [i \in DOMAIN z |-> z[i]]
      BY <3>2
    <3>4. z = [i \in 1 .. Len(b) - 1 |-> z[i]]
      BY <3>2, <3>3, Zenon
    <3>. QED BY <3>1, <3>4
  <2>. HIDE DEF q
  <2>. QED BY <2>2, <2>3, <2>4, <2>5
<1>. HIDE DEF p, q, C
<1>6. Append(p, Head(q)) \o Tail(q) = p \o q
  BY <1>3
<1>. QED BY <1>1, <1>2, <1>4, <1>5, <1>6 DEF Both, p, q

MoreWaits(o, b, y) == Both(o, b \o y) = Both(o, b) \o Cores(y)

LEMMA GiveMore ==
  ASSUME NEW R, NEW o \in Seq(R), NEW S, NEW b \in Seq(S), NEW y \in Seq(S)
  PROVE  MoreWaits(o, b, y) /\ b \o y \in Seq(S)
<1>1. o \o b \in Seq(R \cup S) /\ (o \o b) \o y = o \o (b \o y) /\ b \o y \in Seq(S)
  OBVIOUS
<1>2. Cores((o \o b) \o y) = Cores(o \o b) \o Cores(y)
  <2>1. PICK z \in Seq(R \cup S) : z = o \o b
    BY <1>1
  <2>2. Cores(z \o y) = Cores(z) \o Cores(y)
    BY CoresConcat
  <2>. QED BY <2>1, <2>2
<1>. QED BY <1>1, <1>2 DEF Both, MoreWaits

LEMMA PickMore ==
  ASSUME NEW S, NEW g \in Seq(S), NEW es \in Seq(S), NEW K
  PROVE  Cores(OfKinds(g \o es, K)) = Cores(OfKinds(g, K)) \o Cores(OfKinds(es, K))
<1>1. OfKinds(g, K) \in Seq(S) /\ OfKinds(es, K) \in Seq(S)
  BY OfKindsIn
<1>2. PICK x \in Seq(S), y \in Seq(S) : x = OfKinds(g, K) /\ y = OfKinds(es, K)
  BY <1>1
<1>3. Cores(x \o y) = Cores(x) \o Cores(y)
  BY CoresConcat
<1>4. OfKinds(g \o es, K) = OfKinds(g, K) \o OfKinds(es, K)
  BY OfKindsConcat, SMTT(30)
<1>. QED BY <1>2, <1>3, <1>4

-----------------------------------------------------------------------------
(***************************************************************************)
(* WHEP                                                                    *)
(***************************************************************************)

LEMMA WhepIdle ==
  ASSUME NEW r, NEW o, NEW g, NEW s, WhepOK(r, o, g, s)
  PROVE  /\ r.pc = "idle" => NotYet(o, s)
         /\ r.pc # "idle" \/ s \in Joined => r \in WhepRecord
BY DEF WhepOK, NoSession, NotYet, WhepRecord

LEMMA WhepSends ==
  ASSUME NEW c, st[c] \in WhepRecord, NEW e \in Given
  PROVE  LET x == Whep!Encode(c, e) IN
         x \in WhepPacket /\ Core(x) = Core(e) /\ x.bytes = BytesOf(x, st[c].video)
<1>. DEFINE x == Whep!Encode(c, e)
            n == FrameSize[e.seq]
<1>1. e.seq \in 1 .. MaxMsgs /\ n \in Nat
  BY SessionsAssumption DEF SessionsAssumption, Given
<1>2. /\ x.kind = e.kind /\ x.seq = e.seq /\ x.via = e.via
      /\ x.bytes = Whep!Carried(IF IsVideo(e) THEN st[c].video ELSE st[c].audio, e.seq)
      /\ x.header = IF e.kind = "key" THEN st[c].header ELSE 0
  BY DEF Whep!Encode, Whep!IsVideo, Whep!VideoKinds, IsVideo, VideoKinds
<1>3. SafariLosesOf(n) \in {0, 1} /\ Whep!Total(Whep!SafariPayloads(n)) = n - SafariLosesOf(n)
  BY <1>1, SafariTotal DEF SafariLosesOf
<1>4. x.bytes = n - (IF IsVideo(e) /\ st[c].video = "hevc" THEN SafariLosesOf(n) ELSE 0)
  <2>1. st[c].audio # "hevc"
    BY DEF WhepRecord
  <2>2. x.bytes = IF IsVideo(e) /\ st[c].video = "hevc" THEN n - SafariLosesOf(n) ELSE n
    BY <1>2, <1>3, <2>1 DEF Whep!Carried
  <2>. QED BY <1>1, <1>3, <2>2
<1>5. IsVideo(x) <=> IsVideo(e)
  BY <1>2 DEF IsVideo
<1>6. x \in WhepPacket
  <2>1. x.bytes \in Int /\ x.header \in Nat
    BY <1>1, <1>2, <1>3, <1>4 DEF WhepRecord
  <2>2. x = [kind |-> x.kind, seq |-> x.seq, via |-> x.via, bytes |-> x.bytes, header |-> x.header]
    BY DEF Whep!Encode
  <2>. HIDE DEF x
  <2>. QED BY <1>2, <2>1, <2>2 DEF WhepPacket, Given
<1>7. Core(x) = Core(e)
  BY <1>2, Zenon DEF Core
<1>8. x.bytes = BytesOf(x, st[c].video)
  <2>. HIDE DEF x
  <2>. QED BY <1>2, <1>4, <1>5 DEF BytesOf
<1>. QED BY <1>6, <1>7, <1>8

\* A step of the session, which gives it nothing.
LEMMA WhepStep ==
  ASSUME NEW c \in Clients, DOMAIN st = Clients, DOMAIN out = Clients,
         NEW g, NEW s, NEW t, WhepOK(st[c], out[c], g, s), s \notin Joined => g = <<>>,
         t \in Joined => s \in Joined \/ (st[c].pc = "answered" /\ st'[c].pc = "run"),
         \/ Whep!NewWhepSession(c) \/ Whep!NoAnswer(c) \/ Whep!Run(c)
         \/ Whep!AddVideoTrack(c, videoheader, setup) \/ Whep!AddAudioTrack(c, audioheader, setup)
         \/ Whep!TakeMsg(c) \/ Whep!TakeClose(c)
         \/ \E size : size = Whep!CloseSize /\ Whep!CallbackSends(c, size)
         \/ Whep!OnStop(c) /\ s \in Joined
         \/ Whep!Heard(c) /\ (Whep!Ice(c) \/ Whep!IceReturns(c)),
         setup \in Setups, videoheader.seq \in Nat
  PROVE  WhepOK(st'[c], out'[c], g, t)
<1>. DEFINE r == st[c]
            o == out[c]
<1>0. /\ r.pc = "idle" => NotYet(o, s)
      /\ r.pc # "idle" \/ s \in Joined => r \in WhepRecord
  BY WhepIdle
<1>1. CASE Whep!NewWhepSession(c)
  <2>1. NotYet(out'[c], t)
    BY <1>0, <1>1 DEF Whep!NewWhepSession, NotYet
  <2>2. st'[c] = [pc |-> "new", ice |-> "new", losses |-> 0, close |-> 0, senders |-> 0,
                  video |-> "none", audio |-> "none", header |-> 0, box |-> <<>>]
    BY <1>1 DEF Whep!NewWhepSession
  <2>3. out'[c] = <<>> /\ st'[c] \in WhepRecord /\ st'[c].pc = "new" /\ st'[c].box = <<>>
    BY <2>1, <2>2 DEF NotYet, WhepRecord, IceStates, Whep!CloseSize
  <2>. QED BY <2>1, <2>3 DEF WhepOK
<1>2. CASE \/ Whep!NoAnswer(c)
           \/ Whep!AddVideoTrack(c, videoheader, setup) \/ Whep!AddAudioTrack(c, audioheader, setup)
  <2>1. r \in WhepRecord /\ r.pc \in {"new", "half"} /\ UNCHANGED out
    BY <1>0, <1>2 DEF Whep!NoAnswer, Whep!AddVideoTrack, Whep!AddAudioTrack
  <2>2. /\ o = <<>> /\ r.box = <<>> /\ NotYet(out'[c], t)
    <3>1. NotYet(o, s) /\ r.box = <<>>
      BY <2>1 DEF WhepOK, NoSession
    <3>. QED BY <2>1, <3>1 DEF NotYet
  <2>3. st'[c] \in WhepRecord /\ st'[c].pc \in {"refused", "half", "answered"} /\ st'[c].box = <<>>
    <3>1. CASE Whep!NoAnswer(c)
      BY <2>1, <2>2, <3>1 DEF Whep!NoAnswer, WhepRecord
    <3>2. CASE Whep!AddVideoTrack(c, videoheader, setup)
      <4>. DEFINE v == Whep!VideoTrack(videoheader, setup.video, setup.safari)
                  h == videoheader.seq
      <4>1. v \in {"none", "h264", "hevc"} /\ h \in Nat
        BY SessionsAssumption DEF SessionsAssumption, Whep!VideoTrack
      <4>2. st' = [st EXCEPT ![c].pc = "half", ![c].video = v, ![c].header = h]
        BY <3>2 DEF Whep!AddVideoTrack
      <4>. HIDE DEF v, h
      <4>. QED BY <2>1, <2>2, <4>1, <4>2 DEF WhepRecord
    <3>3. CASE Whep!AddAudioTrack(c, audioheader, setup)
      <4>. DEFINE a == Whep!AudioTrack(audioheader, setup.raw)
      <4>1. a \in {"none", "opus", "pcma", "pcmu"}
        BY SessionsAssumption DEF SessionsAssumption, Whep!AudioTrack
      <4>2. st' = [st EXCEPT ![c].pc = "answered", ![c].audio = a]
        BY <3>3 DEF Whep!AddAudioTrack
      <4>. HIDE DEF a
      <4>. QED BY <2>1, <2>2, <4>1, <4>2 DEF WhepRecord
    <3>. QED BY <1>2, <3>1, <3>2, <3>3
  <2>. QED BY <2>2, <2>3 DEF WhepOK, NotYet
<1>3. CASE Whep!Run(c)
  <2>1. r \in WhepRecord /\ r.pc = "answered" /\ UNCHANGED out
    BY <1>0, <1>3 DEF Whep!Run
  <2>2. o = <<>> /\ r.box = <<>> /\ s \notin Joined /\ g = <<>>
    BY <2>1 DEF WhepOK, NoSession, NotYet
  <2>3. st'[c] \in WhepRecord /\ st'[c].pc = "run" /\ st'[c].box = <<>>
    BY <1>3, <2>1, <2>2 DEF Whep!Run, WhepRecord
  <2>4. Cores(OfKinds(g, WhepKinds(st'[c]))) = <<>> /\ Both(<<>>, <<>>) = <<>>
    BY <2>2, OfKindsEmpty, CoresEmpty DEF Both
  <2>. QED BY <2>1, <2>2, <2>3, <2>4 DEF WhepOK
<1>4. CASE Whep!TakeMsg(c)
  <2>. DEFINE e == Head(r.box)
              x == Whep!Encode(c, e)
  <2>1. r \in WhepRecord /\ r.pc = "run" /\ r.box # <<>> /\ r.box \in Seq(Given) /\ e \in Given
    BY <1>0, <1>4 DEF Whep!TakeMsg, WhepRecord
  <2>2. /\ o \in Seq(WhepPacket) /\ Both(o, r.box) = Cores(OfKinds(g, WhepKinds(r)))
        /\ \A i \in 1 .. Len(o) : o[i].bytes = BytesOf(o[i], r.video)
    BY <2>1 DEF WhepOK, NoSession
  <2>3. x \in WhepPacket /\ Core(x) = Core(e) /\ x.bytes = BytesOf(x, r.video)
    BY <2>1, WhepSends
  <2>4. out'[c] = Append(o, x) /\ st'[c] = [r EXCEPT !.box = Tail(@)]
    BY <1>4 DEF Whep!TakeMsg
  <2>. HIDE DEF x
  <2>5. /\ Both(Append(o, x), Tail(r.box)) = Both(o, r.box)
        /\ Append(o, x) \in Seq(WhepPacket) /\ Tail(r.box) \in Seq(Given)
    BY <2>1, <2>2, <2>3, MoveOn
  <2>6. \A i \in 1 .. Len(Append(o, x)) : Append(o, x)[i].bytes = BytesOf(Append(o, x)[i], r.video)
    <3>1. \A i \in 1 .. Len(Append(o, x)) : Append(o, x)[i] = IF i <= Len(o) THEN o[i] ELSE x
      BY <2>2
    <3>2. \A i \in 1 .. Len(Append(o, x)) : i <= Len(o) => i \in 1 .. Len(o)
      OBVIOUS
    <3>. QED BY <2>2, <2>3, <3>1, <3>2
  <2>7. /\ st'[c] \in WhepRecord /\ st'[c].pc = "run" /\ st'[c].box = Tail(r.box)
        /\ st'[c].video = r.video /\ st'[c].audio = r.audio
    BY <2>1, <2>4, <2>5 DEF WhepRecord
  <2>8. WhepKinds(st'[c]) = WhepKinds(r)
    BY <2>7 DEF WhepKinds
  <2>. QED BY <2>2, <2>4, <2>5, <2>6, <2>7, <2>8 DEF WhepOK
<1>5. CASE \/ Whep!TakeClose(c)
           \/ \E size : size = Whep!CloseSize /\ Whep!CallbackSends(c, size)
           \/ Whep!OnStop(c) /\ s \in Joined
           \/ Whep!Heard(c) /\ (Whep!Ice(c) \/ Whep!IceReturns(c))
  <2>1. r \in WhepRecord
    <3>1. r = NoSession => ~(\E f \in {"ice"} : f \in DOMAIN r) /\ r.pc = "idle"
      BY DEF NoSession
    <3>2. r = NoSession \/ r \in WhepRecord
      BY DEF WhepOK
    <3>. QED BY <1>0, <1>5, <3>1, <3>2
         DEF Whep!TakeClose, Whep!Heard, Whep!CallbackSends, Whep!HasPeer
  <2>2. /\ UNCHANGED out /\ st'[c] \in WhepRecord
        /\ st'[c].box = r.box /\ st'[c].video = r.video /\ st'[c].audio = r.audio
        /\ st'[c].pc = r.pc \/ (r.pc = "run" /\ st'[c].pc = "returned")
    <3>1. CASE Whep!TakeClose(c)
      BY <2>1, <3>1 DEF Whep!TakeClose, WhepRecord, Whep!CloseSize
    <3>2. CASE Whep!CallbackSends(c, Whep!CloseSize)
      BY <2>1, <3>2 DEF Whep!CallbackSends, Whep!Signal, WhepRecord, Whep!CloseSize
    <3>3. CASE Whep!OnStop(c)
      <4>1. PICK n : n = r.close + 1
        OBVIOUS
      <4>2. n \in 0 .. Whep!CloseSize /\ r.senders \in Nat
        BY <2>1, <3>3, <4>1 DEF Whep!OnStop, Whep!Signal, WhepRecord, Whep!CloseSize
      <4>3. st'[c] = [r EXCEPT !.close = n, !.senders = r.senders] /\ UNCHANGED out
        BY <2>1, <3>3, <4>1 DEF Whep!OnStop, Whep!Signal
      <4>4. [r EXCEPT !.close = n, !.senders = r.senders] \in WhepRecord
        BY <2>1, <4>2 DEF WhepRecord
      <4>5. /\ st'[c].box = r.box /\ st'[c].video = r.video /\ st'[c].audio = r.audio
            /\ st'[c].pc = r.pc
        BY <2>1, <4>3 DEF WhepRecord
      <4>. QED BY <4>3, <4>4, <4>5
    <3>4. CASE Whep!Ice(c)
      <4>1. PICK to \in IceStates : Whep!Change(c, to)
        BY <3>4 DEF Whep!Ice, IceStates
      <4>2. PICK n : n = IF to \in Whep!Lost THEN r.senders + 1 ELSE r.senders
        OBVIOUS
      <4>3. n \in Nat
        BY <2>1, <4>2 DEF WhepRecord
      <4>4. st'[c] = [r EXCEPT !.ice = to, !.senders = n] /\ UNCHANGED out
        BY <2>1, <4>1, <4>2 DEF Whep!Change
      <4>5. [r EXCEPT !.ice = to, !.senders = n] \in WhepRecord
        BY <2>1, <4>3 DEF WhepRecord
      <4>6. /\ st'[c].box = r.box /\ st'[c].video = r.video /\ st'[c].audio = r.audio
            /\ st'[c].pc = r.pc
        BY <2>1, <4>4 DEF WhepRecord
      <4>. QED BY <4>4, <4>5, <4>6
    <3>5. CASE Whep!IceReturns(c)
      BY <2>1, <3>5 DEF Whep!IceReturns, WhepRecord, IceStates
    <3>. QED BY <1>5, <3>1, <3>2, <3>3, <3>4, <3>5
  <2>3. r.pc \in {"new", "half", "answered", "refused"} => NotYet(o, t)
    BY <2>1, <2>2 DEF WhepOK, NoSession, NotYet
  <2>4. WhepKinds(st'[c]) = WhepKinds(r)
    BY <2>2 DEF WhepKinds
  <2>5. r.pc # "idle"
    BY <2>1 DEF WhepRecord
  <2>. QED BY <2>1, <2>2, <2>3, <2>4, <2>5 DEF WhepOK, NoSession
<1>. QED BY <1>1, <1>2, <1>3, <1>4, <1>5

\* A message the session is given.
LEMMA WhepGiven ==
  ASSUME NEW c \in Clients, DOMAIN st = Clients, DOMAIN out = Clients,
         NEW g \in Seq(Given), NEW s \in Joined, WhepOK(st[c], out[c], g, s),
         NEW es \in Seq(Given), Whep!OnMsg(c, es)
  PROVE  WhepOK(st'[c], out'[c], g \o es, s)
<1>. DEFINE r == st[c]
            o == out[c]
            K == WhepKinds(r)
            y == OfKinds(es, K)
<1>1. r \in WhepRecord
  BY WhepIdle
<1>2. /\ o \in Seq(WhepPacket) /\ \A i \in 1 .. Len(o) : o[i].bytes = BytesOf(o[i], r.video)
      /\ r.pc \notin {"new", "half", "answered", "refused"}
  BY <1>1 DEF WhepOK, NoSession, NotYet, WhepRecord
<1>3. Both(o, r.box) = Cores(OfKinds(g, K)) /\ r.box \in Seq(Given)
  BY <1>1, <1>2 DEF WhepOK, NoSession, WhepRecord
<1>4. Whep!Wanted(c) = K
  BY DEF Whep!Wanted, WhepKinds, Whep!AudioKinds, Whep!VideoKinds, AudioKinds, VideoKinds
<1>5. \A z : Whep!OfKinds(es, z) = OfKinds(es, z)
  BY Zenon DEF Whep!OfKinds, OfKinds
<1>6. st' = [st EXCEPT ![c].box = @ \o y] /\ UNCHANGED out
  BY <1>4, <1>5 DEF Whep!OnMsg
<1>7. y \in Seq(Given)
  BY OfKindsIn
<1>. HIDE DEF y, K
<1>8. Both(o, r.box \o y) = Both(o, r.box) \o Cores(y) /\ r.box \o y \in Seq(Given)
  <2>1. MoreWaits(o, r.box, y) /\ r.box \o y \in Seq(Given)
    BY <1>2, <1>3, <1>7, GiveMore
  <2>. QED BY <2>1 DEF MoreWaits
<1>9. Cores(OfKinds(g \o es, K)) = Cores(OfKinds(g, K)) \o Cores(y)
  BY PickMore DEF y
<1>10. /\ st'[c] \in WhepRecord /\ st'[c].box = r.box \o y /\ st'[c].pc = r.pc
       /\ st'[c].video = r.video /\ st'[c].audio = r.audio
  BY <1>1, <1>6, <1>8 DEF WhepRecord
<1>11. WhepKinds(st'[c]) = K
  BY <1>10 DEF WhepKinds, K
<1>. QED BY <1>2, <1>3, <1>6, <1>8, <1>9, <1>10, <1>11 DEF WhepOK

-----------------------------------------------------------------------------
(***************************************************************************)
(* Jessibuca                                                               *)
(***************************************************************************)

LEMMA JessibucaIdle ==
  ASSUME NEW r, NEW o, NEW g, NEW s, JessibucaOK(r, o, g, s)
  PROVE  /\ r.pc = "idle" => NotYet(o, s)
         /\ r.pc # "idle" \/ s \in Joined \/ "ice" \in DOMAIN r => r \in JessibucaRecord
<1>1. r = NoSession => r.pc = "idle" /\ DOMAIN r = {"pc"}
  BY DEF NoSession
<1>2. r \in JessibucaRecord => r.pc # "idle"
  BY DEF JessibucaRecord
<1>. QED BY <1>1, <1>2 DEF JessibucaOK, NotYet

\* What holds of a session once it is there
JessibucaOKs(r, o, g, s) ==
  /\ r \in JessibucaRecord /\ o \in Seq(JessibucaPacket)
  /\ r.pc \in {"new", "answered", "refused", "found", "returned"} =>
       NotYet(o, s) /\ r.box = <<>>
  /\ r.pc \in {"joined", "headless"} => o = <<>> /\ (r.dc => Cores(r.box) = Cores(g))
  /\ r.pc = "loop" => r.dc /\ o # <<>> /\ Both(Tail(o), r.box) = Cores(g)

LEMMA JessibucaThere ==
  ASSUME NEW r, NEW o, NEW g, NEW s, JessibucaOK(r, o, g, s),
         r.pc # "idle" \/ s \in Joined \/ "ice" \in DOMAIN r
  PROVE  JessibucaOKs(r, o, g, s)
<1>1. r \in JessibucaRecord
  BY JessibucaIdle
<1>2. r # NoSession
  BY <1>1 DEF JessibucaRecord, NoSession
<1>. QED BY <1>2 DEF JessibucaOK, JessibucaOKs

LEMMA JessibucaStep ==
  ASSUME NEW c \in Clients, DOMAIN st = Clients, DOMAIN out = Clients,
         NEW g, NEW s, NEW t, JessibucaOK(st[c], out[c], g, s), s \notin Joined => g = <<>>,
         t \in Joined => s \in Joined \/ (st[c].pc = "found" /\ st'[c].pc = "joined"),
         \/ Jessibuca!NewJessibucaSession(c) \/ Jessibuca!GetAnswerSDP(c)
         \/ Jessibuca!Run(c, "found") \/ Jessibuca!Run(c, "returned") \/ Jessibuca!Join(c)
         \/ Jessibuca!OnOpen(c) \/ Jessibuca!TakeMsg(c) \/ Jessibuca!TakeClose(c)
         \/ Jessibuca!Leave(c) \/ Jessibuca!ClosePeer(c)
         \/ \E size : size = Jessibuca!CloseSize /\ Jessibuca!CallbackSends(c, size)
         \/ Jessibuca!OnStop(c) /\ s \in Joined
         \/ Jessibuca!Heard(c) /\ (Jessibuca!Ice(c) \/ Jessibuca!IceReturns(c))
  PROVE  JessibucaOK(st'[c], out'[c], g, t)
<1>. DEFINE r == st[c]
            o == out[c]
<1>0. /\ r.pc = "idle" => NotYet(o, s)
      /\ r.pc # "idle" \/ s \in Joined \/ "ice" \in DOMAIN r => JessibucaOKs(r, o, g, s)
  BY JessibucaIdle, JessibucaThere
<1>. SUFFICES JessibucaOKs(st'[c], out'[c], g, t)
  BY DEF JessibucaOK, JessibucaOKs
<1>1. CASE Jessibuca!NewJessibucaSession(c)
  <2>1. NotYet(out'[c], t)
    BY <1>0, <1>1 DEF Jessibuca!NewJessibucaSession, NotYet
  <2>2. st'[c] = [pc |-> "new", ice |-> "new", losses |-> 0, close |-> 0, senders |-> 0,
                  dc |-> FALSE, once |-> FALSE, box |-> <<>>]
    BY <1>1 DEF Jessibuca!NewJessibucaSession
  <2>3. out'[c] = <<>> /\ st'[c] \in JessibucaRecord /\ st'[c].pc = "new" /\ st'[c].box = <<>>
    BY <2>1, <2>2 DEF NotYet, JessibucaRecord, IceStates, Jessibuca!CloseSize
  <2>. QED BY <2>1, <2>3 DEF JessibucaOKs
<1>2. CASE Jessibuca!GetAnswerSDP(c)
  <2>1. r.pc = "new" /\ JessibucaOKs(r, o, g, s) /\ UNCHANGED out
    BY <1>0, <1>2 DEF Jessibuca!GetAnswerSDP
  <2>2. PICK pc \in {"answered", "refused"}, dc \in BOOLEAN :
          st' = [st EXCEPT ![c].pc = pc, ![c].dc = dc]
    BY <1>2 DEF Jessibuca!GetAnswerSDP
  <2>3. /\ st'[c] \in JessibucaRecord /\ st'[c].pc \in {"answered", "refused"}
        /\ st'[c].box = r.box
    BY <2>1, <2>2 DEF JessibucaOKs, JessibucaRecord
  <2>. QED BY <2>1, <2>3 DEF JessibucaOKs, NotYet
<1>3. CASE Jessibuca!Run(c, "returned") \/ Jessibuca!Run(c, "found") \/ Jessibuca!Join(c)
  <2>1. r.pc \in {"answered", "found"} /\ JessibucaOKs(r, o, g, s) /\ UNCHANGED out
    BY <1>0, <1>3 DEF Jessibuca!Run, Jessibuca!Join
  <2>2. g = <<>> /\ o = <<>> /\ r.box = <<>> /\ (st'[c].pc # "joined" => NotYet(o, t))
    BY <2>1 DEF JessibucaOKs, NotYet
  <2>3. /\ st'[c] \in JessibucaRecord /\ st'[c].pc \in {"returned", "found", "joined"}
        /\ st'[c].box = <<>>
    BY <1>3, <2>1, <2>2 DEF Jessibuca!Run, Jessibuca!Join, JessibucaOKs, JessibucaRecord
  <2>. QED BY <2>1, <2>2, <2>3 DEF JessibucaOKs, NotYet
<1>4. CASE Jessibuca!OnOpen(c)
  <2>1. r.pc = "joined" /\ r.dc /\ JessibucaOKs(r, o, g, s)
    BY <1>0, <1>4 DEF Jessibuca!OnOpen
  <2>2. o = <<>> /\ Cores(r.box) = Cores(g) /\ r.dc /\ r.box \in Seq(Given)
    BY <2>1 DEF JessibucaOKs, JessibucaRecord
  <2>3. /\ st'[c] \in JessibucaRecord /\ st'[c].box = r.box /\ st'[c].dc
        /\ \/ st'[c].pc = "headless" /\ out'[c] = o
           \/ st'[c].pc = "loop" /\ out'[c] = <<[kind |-> "flv"]>>
    BY <1>4, <2>1, <2>2 DEF Jessibuca!OnOpen, JessibucaOKs, JessibucaRecord
  <2>4. <<[kind |-> "flv"]>> \in Seq(JessibucaPacket) /\ Tail(<<[kind |-> "flv"]>>) = <<>>
    BY DEF JessibucaPacket
  <2>5. Both(<<>>, r.box) = Cores(r.box)
    <3>1. <<>> \o r.box = r.box
      BY <2>2
    <3>. QED BY <3>1 DEF Both
  <2>6. <<[kind |-> "flv"]>> # <<>>
    OBVIOUS
  <2>. QED BY <2>1, <2>2, <2>3, <2>4, <2>5, <2>6 DEF JessibucaOKs
<1>5. CASE Jessibuca!TakeMsg(c)
  <2>. DEFINE e == Head(r.box)
  <2>1. /\ r.pc = "loop" /\ r.box # <<>> /\ JessibucaOKs(r, o, g, s)
        /\ r.box \in Seq(Given) /\ e \in JessibucaPacket /\ r \in JessibucaRecord /\ r.dc
        /\ o # <<>> /\ o \in Seq(JessibucaPacket) /\ Both(Tail(o), r.box) = Cores(g)
    BY <1>0, <1>5 DEF Jessibuca!TakeMsg, JessibucaOKs, JessibucaRecord, JessibucaPacket
  <2>2. PICK q : q = Tail(r.box)
    OBVIOUS
  <2>3. q \in Seq(Given)
    BY <2>1, <2>2
  <2>4. CASE st' = [st EXCEPT ![c].box = Tail(@)] /\ out' = [out EXCEPT ![c] = Append(@, Head(st[c].box))]
    <3>1. st'[c] \in JessibucaRecord /\ st'[c].pc = "loop" /\ st'[c].box = q /\ st'[c].dc
      BY <2>1, <2>2, <2>3, <2>4 DEF JessibucaRecord
    <3>2. PICK z : z = Tail(o)
      OBVIOUS
    <3>3. z \in Seq(JessibucaPacket) /\ Tail(Append(o, e)) = Append(z, e) /\ Append(o, e) # <<>>
          /\ Append(o, e) \in Seq(JessibucaPacket)
      BY <2>1, <3>2
    <3>4. Both(Append(z, e), q) = Both(z, r.box)
      BY <2>1, <2>2, <3>3, MoveOn
    <3>5. out'[c] = Append(o, e)
      BY <2>4
    <3>. QED BY <2>1, <3>1, <3>2, <3>3, <3>4, <3>5 DEF JessibucaOKs
  <2>5. CASE st' = [st EXCEPT ![c].pc = "leaving", ![c].box = Tail(@)] /\ UNCHANGED out
    <3>1. st'[c] \in JessibucaRecord /\ st'[c].pc = "leaving"
      BY <2>1, <2>2, <2>3, <2>5 DEF JessibucaRecord
    <3>. QED BY <2>1, <2>5, <3>1 DEF JessibucaOKs
  <2>. QED BY <1>5, <2>4, <2>5 DEF Jessibuca!TakeMsg
<1>6. CASE Jessibuca!TakeClose(c) \/ Jessibuca!Leave(c) \/ Jessibuca!ClosePeer(c)
  <2>1. JessibucaOKs(r, o, g, s) /\ UNCHANGED out
    BY <1>0, <1>6 DEF Jessibuca!TakeClose, Jessibuca!Leave, Jessibuca!ClosePeer
  <2>2. st'[c] \in JessibucaRecord /\ st'[c].pc \in {"leaving", "removed", "closed"}
    <3>1. CASE Jessibuca!TakeClose(c)
      BY <2>1, <3>1 DEF Jessibuca!TakeClose, JessibucaOKs, JessibucaRecord, Jessibuca!CloseSize
    <3>2. CASE Jessibuca!Leave(c)
      BY <2>1, <3>2 DEF Jessibuca!Leave, JessibucaOKs, JessibucaRecord
    <3>3. CASE Jessibuca!ClosePeer(c)
      BY <2>1, <3>3 DEF Jessibuca!ClosePeer, JessibucaOKs, JessibucaRecord, IceStates
    <3>. QED BY <1>6, <3>1, <3>2, <3>3
  <2>. QED BY <2>1, <2>2 DEF JessibucaOKs
<1>7. CASE \/ \E size : size = Jessibuca!CloseSize /\ Jessibuca!CallbackSends(c, size)
           \/ Jessibuca!OnStop(c) /\ s \in Joined
           \/ Jessibuca!Heard(c) /\ (Jessibuca!Ice(c) \/ Jessibuca!IceReturns(c))
  <2>1. JessibucaOKs(r, o, g, s)
    BY <1>0, <1>7 DEF Jessibuca!Heard, Jessibuca!CallbackSends, Jessibuca!HasPeer
  <2>2. /\ UNCHANGED out /\ st'[c] \in JessibucaRecord
        /\ st'[c].box = r.box /\ st'[c].dc = r.dc /\ st'[c].pc = r.pc
    <3>1. CASE Jessibuca!CallbackSends(c, Jessibuca!CloseSize)
      BY <2>1, <3>1 DEF Jessibuca!CallbackSends, Jessibuca!Signal, JessibucaOKs, JessibucaRecord,
         Jessibuca!CloseSize
    <3>2. CASE Jessibuca!OnStop(c)
      BY <2>1, <3>2 DEF Jessibuca!OnStop, JessibucaOKs, JessibucaRecord, Jessibuca!CloseSize
    <3>3. CASE Jessibuca!Ice(c)
      <4>1. PICK to \in IceStates : Jessibuca!Change(c, to)
        BY <3>3 DEF Jessibuca!Ice, IceStates
      <4>2. PICK n : n = IF to \in Jessibuca!Lost THEN r.senders + 1 ELSE r.senders
        OBVIOUS
      <4>3. n \in Nat
        BY <2>1, <4>2 DEF JessibucaOKs, JessibucaRecord
      <4>4. st'[c] = [r EXCEPT !.ice = to, !.senders = n] /\ UNCHANGED out
        BY <2>1, <4>1, <4>2 DEF Jessibuca!Change, JessibucaOKs, JessibucaRecord
      <4>. QED BY <2>1, <4>3, <4>4 DEF JessibucaOKs, JessibucaRecord
    <3>4. CASE Jessibuca!IceReturns(c)
      BY <2>1, <3>4 DEF Jessibuca!IceReturns, JessibucaOKs, JessibucaRecord, IceStates
    <3>. QED BY <1>7, <3>1, <3>2, <3>3, <3>4
  <2>3. r.pc \in {"new", "answered", "refused", "found", "returned"} => NotYet(o, t)
    BY <2>1, <2>2 DEF JessibucaOKs, NotYet
  <2>. QED BY <2>1, <2>2, <2>3 DEF JessibucaOKs
<1>. QED BY <1>1, <1>2, <1>3, <1>4, <1>5, <1>6, <1>7

LEMMA JessibucaGiven ==
  ASSUME NEW c \in Clients, DOMAIN st = Clients, DOMAIN out = Clients,
         NEW g \in Seq(Given), NEW s \in Joined, JessibucaOK(st[c], out[c], g, s),
         NEW es \in Seq(Given), Jessibuca!OnMsg(c, es)
  PROVE  JessibucaOK(st'[c], out'[c], g \o es, s)
<1>. DEFINE r == st[c]
            o == out[c]
<1>1. JessibucaOKs(r, o, g, s)
  BY JessibucaThere
<1>. SUFFICES JessibucaOKs(st'[c], out'[c], g \o es, s)
  BY DEF JessibucaOK, JessibucaOKs
<1>2. /\ r \in JessibucaRecord /\ r.box \in Seq(Given) /\ o \in Seq(JessibucaPacket)
      /\ r.pc \notin {"new", "answered", "refused", "found", "returned"}
  BY <1>1 DEF JessibucaOKs, NotYet, JessibucaRecord
<1>3. PICK b : b = r.box \o es
  OBVIOUS
<1>4. b \in Seq(Given)
  BY <1>2, <1>3
<1>5. CASE ~r.dc
  <2>1. st'[c] = r /\ UNCHANGED out
    BY <1>2, <1>5 DEF Jessibuca!OnMsg, JessibucaRecord
  <2>. QED BY <1>1, <1>2, <1>5, <2>1 DEF JessibucaOKs
<1>6. CASE r.dc
  <2>1. st'[c] \in JessibucaRecord /\ st'[c].box = b /\ st'[c].pc = r.pc /\ st'[c].dc
    BY <1>2, <1>3, <1>4, <1>6 DEF Jessibuca!OnMsg, JessibucaRecord
  <2>2. UNCHANGED out
    BY DEF Jessibuca!OnMsg
  <2>3. Cores(g \o es) = Cores(g) \o Cores(es)
    BY CoresConcat
  <2>4. CASE r.pc \in {"joined", "headless"}
    <3>1. o = <<>> /\ Cores(r.box) = Cores(g)
      BY <1>1, <1>6, <2>4 DEF JessibucaOKs
    <3>2. Cores(b) = Cores(r.box) \o Cores(es)
      BY <1>2, <1>3, CoresConcat
    <3>. QED BY <1>2, <2>1, <2>2, <2>3, <2>4, <3>1, <3>2 DEF JessibucaOKs
  <2>5. CASE r.pc = "loop"
    <3>1. o # <<>> /\ Both(Tail(o), r.box) = Cores(g)
      BY <1>1, <2>5 DEF JessibucaOKs
    <3>2. PICK z : z = Tail(o)
      OBVIOUS
    <3>3. z \in Seq(JessibucaPacket)
      BY <1>2, <3>1, <3>2
    <3>4. MoreWaits(z, r.box, es)
      BY <1>2, <3>3, GiveMore
    <3>. QED BY <1>2, <1>3, <2>1, <2>2, <2>3, <2>5, <3>1, <3>2, <3>4 DEF JessibucaOKs, MoreWaits
  <2>6. CASE r.pc \notin {"joined", "headless", "loop"}
    BY <1>2, <2>1, <2>2, <2>6 DEF JessibucaOKs
  <2>. QED BY <2>4, <2>5, <2>6
<1>. QED BY <1>5, <1>6

-----------------------------------------------------------------------------
(***************************************************************************)
(* fMP4                                                                    *)
(***************************************************************************)

Fragment == [box : {"video", "audio"}, number : Nat, samples : Seq(CoreSet), writes : Nat]
FeedRecord == [seqNumber : Nat, queued : Nat, sent : Seq(Fragment),
               vfragment : Fmp4Fragment, afragment : Fmp4Fragment]

\* One element more, and elements of a larger set.
LEMMA AppendFacts ==
  ASSUME NEW S, NEW s \in Seq(S), NEW x \in S
  PROVE  /\ Append(s, x) \in Seq(S) /\ Append(s, x) # <<>>
         /\ Len(Append(s, x)) = Len(s) + 1 /\ Len(s) \in Nat
         /\ Append(s, x)[Len(s) + 1] = x
         /\ \A i \in 1 .. Len(s) : Append(s, x)[i] = s[i] /\ s[i] \in S
         /\ Append(s, x) = [i \in 1 .. Len(s) + 1 |-> IF i = Len(s) + 1 THEN x ELSE s[i]]
<1>1. PICK z : z = Append(s, x)
  OBVIOUS
<1>2. /\ z \in Seq(S) /\ Len(z) = Len(s) + 1 /\ z[Len(s) + 1] = x
      /\ \A i \in 1 .. Len(s) : z[i] = s[i]
  BY <1>1
<1>3. z = [i \in 1 .. Len(s) + 1 |-> z[i]]
  BY <1>2
<1>4. \A i \in 1 .. Len(s) + 1 : z[i] = IF i = Len(s) + 1 THEN x ELSE s[i]
  BY <1>2
<1>5. z = [i \in 1 .. Len(s) + 1 |-> IF i = Len(s) + 1 THEN x ELSE s[i]]
  BY <1>3, <1>4
<1>6. \A i \in 1 .. Len(s) : s[i] \in S
  OBVIOUS
<1>7. z # <<>> /\ Len(s) \in Nat
  BY <1>2
<1>. QED BY <1>1, <1>2, <1>5, <1>6, <1>7

LEMMA AppendLast ==
  ASSUME NEW S, NEW q \in Seq(S), NEW f \in Seq(S), NEW x \in S
  PROVE  /\ q \o Append(f, x) = Append(q \o f, x)
         /\ (q \o f) \o <<x>> = Append(q \o f, x)
         /\ <<x>> \in Seq(S) /\ Len(<<x>>) = 1 /\ q \o <<>> = q
<1>1. q \o Append(f, x) = Append(q \o f, x)
  OBVIOUS
<1>2. \A z \in Seq(S) : z \o <<x>> = Append(z, x) /\ z \o <<>> = z
  OBVIOUS
<1>3. q \o f \in Seq(S)
  OBVIOUS
<1>. QED BY <1>1, <1>2, <1>3

\* f, h: the two fragments
NumbersOf(o, n, f, h) ==
  /\ Numbered(o, n) /\ Apart(o, n, f) /\ Apart(o, n, h)
  /\ f.number = h.number => f.number = 0

\* f grows, it is new, or it is written and a new one follows.
LEMMA NumbersOn ==
  ASSUME NEW p \in Seq(Fmp4Box), NEW n \in Nat, NEW f \in Fmp4Fragment, NEW h \in Fmp4Fragment,
         NumbersOf(p, n, f, h), NEW d \in Fmp4Fragment
  PROVE  /\ f # Fmp4!NoFragment /\ d.number = f.number => NumbersOf(p, n, d, h)
         /\ f = Fmp4!NoFragment /\ d.number = n + 1 => NumbersOf(p, n + 1, d, h)
         /\ \A b \in Fmp4Box :
              f # Fmp4!NoFragment /\ d.number = n + 1 /\ b.box # "init" /\ b.number = f.number
                => NumbersOf(Append(p, b), n + 1, d, h)
<1>1. Len(p) \in Nat /\ \A i \in 1 .. Len(p) : p[i].number \in Nat
  <2>1. \A i \in 1 .. Len(p) : p[i] \in Fmp4Box
    OBVIOUS
  <2>. QED BY <2>1 DEF Fmp4Box
<1>2. /\ \A i \in 1 .. Len(p) : (p[i].number = 0 <=> p[i].box = "init") /\ p[i].number <= n
      /\ \A i, j \in 1 .. Len(p) : p[i].number = p[j].number => i = j
      /\ f.number \in 0 .. n /\ h.number \in 0 .. n
      /\ f.number = 0 => f = Fmp4!NoFragment
      /\ h.number = 0 => h = Fmp4!NoFragment
      /\ \A i \in 1 .. Len(p) : f.number # 0 => p[i].number # f.number
      /\ \A i \in 1 .. Len(p) : h.number # 0 => p[i].number # h.number
      /\ f.number = h.number => f.number = 0
  BY DEF NumbersOf, Numbered, Apart
<1>3. Fmp4!NoFragment.number = 0
  BY DEF Fmp4!NoFragment
<1>4. ASSUME f # Fmp4!NoFragment, d.number = f.number
      PROVE  NumbersOf(p, n, d, h)
  BY <1>2, <1>4 DEF NumbersOf, Numbered, Apart
<1>5. ASSUME d.number = n + 1
      PROVE  NumbersOf(p, n + 1, d, h)
  <2>1. \A i \in 1 .. Len(p) : p[i].number <= n + 1 /\ p[i].number # n + 1
    BY <1>1, <1>2
  <2>2. d.number \in 0 .. n + 1 /\ h.number \in 0 .. n + 1 /\ d.number # 0 /\ d.number # h.number
    BY <1>2, <1>5
  <2>. QED BY <1>2, <1>5, <2>1, <2>2 DEF NumbersOf, Numbered, Apart
<1>6. ASSUME f # Fmp4!NoFragment, d.number = n + 1,
             NEW b \in Fmp4Box, b.box # "init", b.number = f.number
      PROVE  NumbersOf(Append(p, b), n + 1, d, h)
  <2>1. PICK u : u = Append(p, b)
    OBVIOUS
  <2>2. PICK l \in Nat : l = Len(p)
    BY <1>1
  <2>3. Len(u) = l + 1 /\ u[l + 1] = b /\ \A i \in 1 .. l : u[i] = p[i]
    BY <2>1, <2>2, AppendFacts
  <2>4. \A i \in 1 .. l + 1 : i = l + 1 \/ i \in 1 .. l
    OBVIOUS
  <2>5. PICK m \in 1 .. n : m = f.number /\ b.number = m
    BY <1>2, <1>6
  <2>6. \A i \in 1 .. l :
          /\ u[i].number = 0 <=> u[i].box = "init"
          /\ u[i].number <= n + 1 /\ u[i].number # n + 1 /\ u[i].number # m
          /\ h.number # 0 => u[i].number # h.number
    BY <1>1, <1>2, <2>2, <2>3, <2>5
  <2>7. u[l + 1].number = m /\ u[l + 1].box # "init" /\ m # 0 /\ m <= n + 1 /\ m # n + 1
        /\ m # h.number
    BY <1>2, <1>6, <2>3, <2>5
  <2>8. \A i \in 1 .. l + 1 :
          /\ u[i].number = 0 <=> u[i].box = "init"
          /\ u[i].number <= n + 1 /\ u[i].number # n + 1
          /\ h.number # 0 => u[i].number # h.number
    BY <2>4, <2>6, <2>7
  <2>9. \A i, j \in 1 .. l + 1 : u[i].number = u[j].number => i = j
    <3>1. \A i, j \in 1 .. l : u[i].number = u[j].number => i = j
      BY <1>2, <2>2, <2>3
    <3>. QED BY <2>4, <2>6, <2>7, <3>1
  <2>10. Numbered(u, n + 1)
    BY <2>3, <2>8, <2>9 DEF Numbered
  <2>11. d.number \in 0 .. n + 1 /\ h.number \in 0 .. n + 1 /\ d.number # 0 /\ d.number # h.number
    BY <1>2, <1>6
  <2>12. NumbersOf(u, n + 1, d, h)
    BY <1>2, <1>6, <2>3, <2>8, <2>10, <2>11 DEF NumbersOf, Apart
  <2>. QED BY <2>1, <2>12
<1>. QED BY <1>4, <1>5, <1>6

LEMMA SeqOfMore ==
  ASSUME NEW S, NEW R, S \subseteq R, NEW s \in Seq(S)
  PROVE  s \in Seq(R)
OBVIOUS

\* The samples of one box more.
LEMMA BoxedIn ==
  ASSUME NEW p \in Seq(Fmp4Box), NEW k
  PROVE  /\ Boxed(p, k) \in Seq(Seq(CoreSet)) /\ Len(Boxed(p, k)) = Len(p)
         /\ Concatenation(Boxed(p, k)) \in Seq(CoreSet)
         /\ Concatenation(Boxed(<<>>, k)) = <<>>
<1>. DEFINE w == Boxed(p, k)
<1>1. \A i \in 1 .. Len(p) : p[i] \in Fmp4Box
  OBVIOUS
<1>2. \A i \in 1 .. Len(p) : p[i].samples \in Seq(CoreSet)
  BY <1>1 DEF Fmp4Box
<1>0. PICK S : S = Seq(CoreSet)
  OBVIOUS
<1>3. S = Seq(CoreSet) /\ <<>> \in S
  BY <1>0
<1>4. w = [i \in 1 .. Len(p) |-> IF p[i].box = k THEN p[i].samples ELSE <<>>]
  BY DEF Boxed
<1>5. \A i \in 1 .. Len(p) : w[i] \in S
  BY <1>2, <1>3, <1>4
<1>6. w = [i \in 1 .. Len(p) |-> w[i]]
  BY <1>4
<1>. HIDE DEF w
<1>7. w \in Seq(S) /\ Len(w) = Len(p)
  BY <1>5, <1>6
<1>8. w \in Seq(Seq(CoreSet))
  BY <1>3, <1>7
<1>9. Boxed(<<>>, k) = <<>>
  BY DEF Boxed
<1>. QED BY <1>7, <1>8, <1>9, FlatIn DEF Concatenation, w

LEMMA BoxedAppend ==
  ASSUME NEW p \in Seq(Fmp4Box), NEW b \in Fmp4Box, NEW k
  PROVE  Concatenation(Boxed(Append(p, b), k))
           = (IF b.box = k THEN Concatenation(Boxed(p, k)) \o b.samples ELSE Concatenation(Boxed(p, k)))
<1>1. PICK w \in Seq(Seq(CoreSet)) : w = Boxed(p, k) /\ Len(w) = Len(p)
  BY BoxedIn
<1>2. PICK x : x = IF b.box = k THEN b.samples ELSE <<>>
  OBVIOUS
<1>3. x \in Seq(CoreSet)
  <2>1. b.samples \in Seq(CoreSet)
    BY DEF Fmp4Box
  <2>2. <<>> \in Seq(CoreSet)
    OBVIOUS
  <2>. QED BY <1>2, <2>1, <2>2
<1>4. Boxed(Append(p, b), k) = Append(w, x)
  <2>1. /\ Len(Append(p, b)) = Len(p) + 1 /\ Append(p, b)[Len(p) + 1] = b
        /\ \A i \in 1 .. Len(p) : Append(p, b)[i] = p[i]
    BY AppendFacts
  <2>2. Append(w, x) = [i \in 1 .. Len(p) + 1 |-> IF i = Len(p) + 1 THEN x ELSE w[i]]
    <3>1. PICK S : S = Seq(CoreSet)
      OBVIOUS
    <3>2. w \in Seq(S) /\ x \in S
      BY <1>3, <3>1
    <3>3. Append(w, x) = [i \in 1 .. Len(w) + 1 |-> IF i = Len(w) + 1 THEN x ELSE w[i]]
      BY <3>2, AppendFacts
    <3>. QED BY <1>1, <3>3
  <2>3. \A i \in 1 .. Len(p) : w[i] = IF p[i].box = k THEN p[i].samples ELSE <<>>
    BY <1>1 DEF Boxed
  <2>4. \A i \in 1 .. Len(p) + 1 : i = Len(p) + 1 \/ i \in 1 .. Len(p)
    OBVIOUS
  <2>5. \A i \in 1 .. Len(p) + 1 :
          (IF Append(p, b)[i].box = k THEN Append(p, b)[i].samples ELSE <<>>)
            = (IF i = Len(p) + 1 THEN x ELSE w[i])
    <3>1. PICK v, m : v = Append(p, b) /\ m = Len(p)
      OBVIOUS
    <3>. QED BY <1>2, <2>1, <2>3, <2>4, <3>1, Zenon
  <2>. QED BY <2>1, <2>2, <2>5 DEF Boxed
<1>5. PICK f : f = Concatenation(w)
  OBVIOUS
<1>6. f \in Seq(CoreSet)
  BY <1>5, FlatIn
<1>7. Concatenation(Append(w, x)) = IF w = <<>> THEN x ELSE f \o x
  BY <1>3, <1>5, FlatAppend
<1>8. w = <<>> => f = <<>>
  BY <1>5 DEF Concatenation
<1>9. <<>> \o x = x /\ f \o <<>> = f
  BY <1>3, <1>6
<1>10. Concatenation(Append(w, x)) = f \o x
  BY <1>7, <1>8, <1>9
<1>. QED BY <1>1, <1>2, <1>4, <1>5, <1>9, <1>10

LEMMA FragmentsAre ==
  ASSUME NEW o \in Seq(Fmp4Box), NEW z \in Seq(Fragment)
  PROVE  z \in Seq(Fmp4Box) /\ o \o z \in Seq(Fmp4Box)
<1>1. Fragment \subseteq Fmp4Box
  BY DEF Fragment, Fmp4Box
<1>2. z \in Seq(Fmp4Box)
  BY <1>1, SeqOfMore
<1>. QED BY <1>2

\* Encode's writes fit in the queue.
LEMMA FitsIn ==
  ASSUME NEW n \in Nat, n <= WriteChanSize, NEW q \in 0 .. n
  PROVE  Fmp4!Fits(q) \in Nat /\ q + Fmp4!Fits(q) \in 0 .. WriteChanSize
BY SessionsAssumption DEF SessionsAssumption, Fmp4!Fits

\* What Feed does: a fragment that is not full gets a sample; a full one is written before.
Grown(w, r, box, f, d, x) ==
  /\ r.sent = w.sent /\ d.samples = Append(f.samples, x)
  /\ f = Fmp4!NoFragment => r.seqNumber = w.seqNumber + 1 /\ d.number = w.seqNumber + 1
  /\ f # Fmp4!NoFragment => r.seqNumber = w.seqNumber /\ d.number = f.number

Written(w, r, box, f, d, x) ==
  /\ f # Fmp4!NoFragment /\ d.samples = <<x>>
  /\ r.seqNumber = w.seqNumber + 1 /\ d.number = w.seqNumber + 1
  /\ \E b \in Fragment : /\ b.box = box /\ b.number = f.number /\ b.samples = f.samples
                         /\ r.sent = Append(w.sent, b)

LEMMA FeedIs ==
  ASSUME NEW w \in FeedRecord, w.queued <= WriteChanSize, NEW box \in {"video", "audio"},
         NEW f \in Fmp4Fragment, Len(f.samples) <= FragmentSamples + 1,
         NEW e \in Given, NEW r \in Fmp4!Feed(w, box, f, e)
  PROVE  \E d \in Fmp4Fragment :
           /\ r \in FeedRecord /\ r.queued <= WriteChanSize
           /\ r.vfragment = IF box = "video" THEN d ELSE w.vfragment
           /\ r.afragment = IF box = "audio" THEN d ELSE w.afragment
           /\ Len(d.samples) <= FragmentSamples + 1
           /\ Grown(w, r, box, f, d, Core(e)) \/ Written(w, r, box, f, d, Core(e))
<1>1. PICK x \in CoreSet : x = Core(e) /\ Fmp4!Sample(e) = x
  <2>1. Core(e) \in CoreSet /\ Fmp4!Sample(e) = Core(e)
    BY SessionsAssumption DEF SessionsAssumption, Core, CoreSet, Given, Fmp4!Sample
  <2>. QED BY <2>1
<1>2. /\ FragmentSamples \in Nat /\ w.seqNumber \in Nat /\ w.queued \in Nat /\ w.sent \in Seq(Fragment)
      /\ w.vfragment \in Fmp4Fragment /\ w.afragment \in Fmp4Fragment
  BY SessionsAssumption DEF SessionsAssumption, FeedRecord
<1>3. f.samples \in Seq(CoreSet) /\ f.number \in Nat
      /\ Fmp4!NoFragment.samples = <<>>
  BY DEF Fmp4Fragment, Fmp4!NoFragment
<1>4. PICK y \in Seq(CoreSet) : y = f.samples
  BY <1>3
<1>5. Len(y) \in Nat /\ Append(y, x) \in Seq(CoreSet) /\ Len(Append(y, x)) = Len(y) + 1
      /\ <<x>> \in Seq(CoreSet) /\ Len(<<x>>) = 1
  BY AppendFacts
<1>6. CASE ~(Len(f.samples) > FragmentSamples)
  <2>1. PICK n : n = IF f = Fmp4!NoFragment THEN w.seqNumber + 1 ELSE w.seqNumber
    OBVIOUS
  <2>2. PICK d : d = [number |-> IF f = Fmp4!NoFragment THEN n ELSE f.number, samples |-> Append(y, x)]
    OBVIOUS
  <2>3. r = [seqNumber |-> n, queued |-> w.queued, sent |-> w.sent,
             vfragment |-> IF box = "video" THEN d ELSE w.vfragment,
             afragment |-> IF box = "audio" THEN d ELSE w.afragment]
    BY <1>1, <1>4, <1>6, <2>1, <2>2, Zenon DEF Fmp4!Feed
  <2>4. n \in Nat
    BY <1>2, <2>1
  <2>5. d \in Fmp4Fragment
    BY <1>3, <1>5, <2>2, <2>4 DEF Fmp4Fragment
  <2>6. r \in FeedRecord
    BY <1>2, <2>3, <2>4, <2>5 DEF FeedRecord
  <2>7. d.samples = Append(y, x) /\ Len(d.samples) <= FragmentSamples + 1
    BY <1>2, <1>4, <1>5, <1>6, <2>2
  <2>8. /\ f = Fmp4!NoFragment => n = w.seqNumber + 1 /\ d.number = w.seqNumber + 1
        /\ f # Fmp4!NoFragment => n = w.seqNumber /\ d.number = f.number
    BY <2>1, <2>2
  <2>9. /\ r.queued = w.queued /\ r.sent = w.sent /\ r.seqNumber = n
        /\ r.vfragment = IF box = "video" THEN d ELSE w.vfragment
        /\ r.afragment = IF box = "audio" THEN d ELSE w.afragment
    BY <2>3
  <2>10. Grown(w, r, box, f, d, x)
    BY <1>4, <2>7, <2>8, <2>9 DEF Grown
  <2>. QED BY <1>1, <2>5, <2>6, <2>7, <2>9, <2>10
<1>7. CASE Len(f.samples) > FragmentSamples
  <2>1. f # Fmp4!NoFragment
    BY <1>2, <1>3, <1>7
  <2>2. PICK n : n = w.seqNumber + 1
    OBVIOUS
  <2>3. PICK d : d = [number |-> n, samples |-> <<x>>]
    OBVIOUS
  <2>4. PICK q \in 0 .. w.queued :
          r = [seqNumber |-> n, queued |-> q + Fmp4!Fits(q),
               sent |-> Append(w.sent, [box |-> box, number |-> f.number,
                                        samples |-> f.samples, writes |-> Fmp4!Fits(q)]),
               vfragment |-> IF box = "video" THEN d ELSE w.vfragment,
               afragment |-> IF box = "audio" THEN d ELSE w.afragment]
    BY <1>1, <1>7, <2>2, <2>3, Zenon DEF Fmp4!Feed
  <2>5. PICK t : t = Fmp4!Fits(q)
    OBVIOUS
  <2>6. t \in Nat /\ q + t \in 0 .. WriteChanSize
    BY <1>2, <2>5, FitsIn
  <2>7. PICK b : b = [box |-> box, number |-> f.number, samples |-> f.samples, writes |-> t]
    OBVIOUS
  <2>8. b \in Fragment
    BY <1>3, <2>6, <2>7 DEF Fragment
  <2>9. PICK z : z = Append(w.sent, b)
    OBVIOUS
  <2>10. z \in Seq(Fragment)
    BY <1>2, <2>8, <2>9, AppendFacts
  <2>11. PICK m : m = q + t
    OBVIOUS
  <2>12. r = [seqNumber |-> n, queued |-> m, sent |-> z,
              vfragment |-> IF box = "video" THEN d ELSE w.vfragment,
              afragment |-> IF box = "audio" THEN d ELSE w.afragment]
    BY <2>4, <2>5, <2>7, <2>9, <2>11, Zenon
  <2>13. m \in Nat /\ m <= WriteChanSize /\ n \in Nat
    BY <1>2, <2>2, <2>6, <2>11, SessionsAssumption, SMTT(30) DEF SessionsAssumption
  <2>14. d \in Fmp4Fragment
    BY <1>5, <2>3, <2>13 DEF Fmp4Fragment
  <2>15. r \in FeedRecord
    BY <1>2, <2>10, <2>12, <2>13, <2>14 DEF FeedRecord
  <2>16. /\ r.queued = m /\ r.sent = z /\ r.seqNumber = n
         /\ r.vfragment = IF box = "video" THEN d ELSE w.vfragment
         /\ r.afragment = IF box = "audio" THEN d ELSE w.afragment
    BY <2>12
  <2>17. d.samples = <<x>> /\ d.number = n /\ Len(d.samples) <= FragmentSamples + 1
    BY <1>2, <1>5, <2>3
  <2>18. b.box = box /\ b.number = f.number /\ b.samples = f.samples
    BY <2>7
  <2>19. Written(w, r, box, f, d, x)
    BY <2>1, <2>2, <2>8, <2>9, <2>16, <2>17, <2>18, Zenon DEF Written
  <2>. QED BY <1>1, <2>13, <2>14, <2>15, <2>16, <2>17, <2>19
<1>. QED BY <1>6, <1>7

\* The samples of a track after Feed, and the numbers.
FeedKept(p, q, n, box, f, d, h, x) ==
  /\ NumbersOf(q, n, d, h)
  /\ Concatenation(Boxed(q, box)) \o d.samples
       = Append(Concatenation(Boxed(p, box)) \o f.samples, x)
  /\ \A k : k # box => Concatenation(Boxed(q, k)) = Concatenation(Boxed(p, k))

LEMMA FeedKeeps ==
  ASSUME NEW w \in FeedRecord, NEW o \in Seq(Fmp4Box), NEW p, p = o \o w.sent,
         NEW box \in {"video", "audio"}, NEW f \in Fmp4Fragment, NEW h \in Fmp4Fragment,
         NEW x \in CoreSet, NEW d \in Fmp4Fragment, NEW r \in FeedRecord,
         Grown(w, r, box, f, d, x) \/ Written(w, r, box, f, d, x),
         NumbersOf(p, w.seqNumber, f, h), NEW q, q = o \o r.sent
  PROVE  FeedKept(p, q, r.seqNumber, box, f, d, h, x)
<1>1. /\ p \in Seq(Fmp4Box) /\ w.sent \in Seq(Fragment) /\ w.seqNumber \in Nat
      /\ f.samples \in Seq(CoreSet)
  <2>1. w.sent \in Seq(Fragment) /\ w.seqNumber \in Nat /\ f.samples \in Seq(CoreSet)
    BY DEF FeedRecord, Fmp4Fragment
  <2>. QED BY <2>1, FragmentsAre
<1>0. PICK n \in Nat : n = w.seqNumber /\ NumbersOf(p, n, f, h)
  BY <1>1
<1>2. PICK a \in Seq(CoreSet) : a = Concatenation(Boxed(p, box))
  BY <1>1, BoxedIn
<1>3. PICK y \in Seq(CoreSet) : y = f.samples
  BY <1>1
<1>4. /\ a \o Append(y, x) = Append(a \o y, x)
      /\ (a \o y) \o <<x>> = Append(a \o y, x)
  BY AppendLast
<1>5. CASE Grown(w, r, box, f, d, x)
  <2>1. o \o r.sent = p /\ d.samples = Append(y, x)
    BY <1>3, <1>5 DEF Grown
  <2>2. NumbersOf(p, r.seqNumber, d, h)
    <3>0. /\ f # Fmp4!NoFragment /\ d.number = f.number => NumbersOf(p, n, d, h)
          /\ f = Fmp4!NoFragment /\ d.number = n + 1 => NumbersOf(p, n + 1, d, h)
      BY <1>0, <1>1, NumbersOn
    <3>1. CASE f = Fmp4!NoFragment
      BY <1>0, <1>5, <3>0, <3>1 DEF Grown
    <3>2. CASE f # Fmp4!NoFragment
      BY <1>0, <1>5, <3>0, <3>2 DEF Grown
    <3>. QED BY <3>1, <3>2
  <2>. QED BY <1>2, <1>3, <1>4, <2>1, <2>2 DEF FeedKept
<1>6. CASE Written(w, r, box, f, d, x)
  <2>1. PICK b \in Fragment : /\ b.box = box /\ b.number = f.number /\ b.samples = f.samples
                              /\ r.sent = Append(w.sent, b)
    BY <1>6 DEF Written
  <2>2. b \in Fmp4Box /\ b.box # "init"
    BY <2>1 DEF Fragment, Fmp4Box
  <2>3. o \o r.sent = Append(p, b)
    <3>1. PICK s \in Seq(Fragment) : s = w.sent
      BY <1>1
    <3>2. s \in Seq(Fmp4Box)
      BY FragmentsAre
    <3>3. o \o Append(s, b) = Append(o \o s, b)
      BY <2>2, <3>2, AppendLast, SMTT(30)
    <3>. QED BY <2>1, <3>1, <3>3
  <2>4. NumbersOf(Append(p, b), r.seqNumber, d, h)
    <3>1. \A z \in Fmp4Box :
            f # Fmp4!NoFragment /\ d.number = n + 1 /\ z.box # "init" /\ z.number = f.number
              => NumbersOf(Append(p, z), n + 1, d, h)
      BY <1>0, <1>1, NumbersOn
    <3>2. f # Fmp4!NoFragment /\ d.number = n + 1 /\ r.seqNumber = n + 1
      BY <1>0, <1>6 DEF Written
    <3>. QED BY <2>1, <2>2, <3>1, <3>2
  <2>5. \A k : Concatenation(Boxed(Append(p, b), k))
                 = IF box = k THEN Concatenation(Boxed(p, k)) \o y ELSE Concatenation(Boxed(p, k))
    <3>1. b.samples = y
      BY <1>3, <2>1
    <3>2. ASSUME NEW k
          PROVE  Concatenation(Boxed(Append(p, b), k))
                   = IF b.box = k THEN Concatenation(Boxed(p, k)) \o b.samples
                     ELSE Concatenation(Boxed(p, k))
      BY <1>1, <2>2, BoxedAppend
    <3>. QED BY <2>1, <3>1, <3>2
  <2>6. PICK u : u = Append(p, b) /\ o \o r.sent = u
    BY <2>3
  <2>7. Concatenation(Boxed(u, box)) = a \o y
    BY <1>2, <2>5, <2>6, Zenon
  <2>8. d.samples = <<x>>
    BY <1>6 DEF Written
  <2>9. Concatenation(Boxed(u, box)) \o d.samples = Append(a \o y, x)
    BY <1>4, <2>7, <2>8
  <2>10. \A k : k # box => Concatenation(Boxed(u, k)) = Concatenation(Boxed(p, k))
    BY <2>5, <2>6, Zenon
  <2>11. NumbersOf(u, r.seqNumber, d, h)
    BY <2>4, <2>6
  <2>. QED BY <1>2, <1>3, <2>6, <2>9, <2>10, <2>11 DEF FeedKept
<1>. QED BY <1>5, <1>6

LEMMA GoodIs ==
  ASSUME NEW w, NEW o, NEW g
  PROVE  /\ Fmp4Good(w, o, g) <=>
              /\ Concatenation(Boxed(o, "video")) \o w.vfragment.samples = Cores(OfKinds(g, VideoKinds))
              /\ Concatenation(Boxed(o, "audio")) \o w.afragment.samples
                   = Cores(OfKinds(g, {"aac", "aacHeader"}))
              /\ NumbersOf(o, w.seqNumber, w.vfragment, w.afragment)
         /\ NumbersOf(o, w.seqNumber, w.vfragment, w.afragment)
              <=> NumbersOf(o, w.seqNumber, w.afragment, w.vfragment)
BY DEF Fmp4Good, NumbersOf

\* What is given to a session is in its fragments, or in the boxes it writes.
LEMMA FeedsOne ==
  ASSUME NEW w \in FeedRecord, InBounds(w), NEW o \in Seq(Fmp4Box), NEW g \in Seq(Given),
         NEW e \in Given, NEW r \in Fmp4!FeedMsg(w, e)
  PROVE  /\ r \in FeedRecord /\ InBounds(r)
         /\ Fmp4Good(w, o \o w.sent, g) => Fmp4Good(r, o \o r.sent, Append(g, e))
<1>1. PICK p : p = o \o w.sent
  OBVIOUS
<1>2. PICK q : q = o \o r.sent
  OBVIOUS
<1>3. w.vfragment \in Fmp4Fragment /\ w.afragment \in Fmp4Fragment
  BY DEF FeedRecord
<1>4. PICK v \in Fmp4Fragment, a \in Fmp4Fragment : v = w.vfragment /\ a = w.afragment
  BY <1>3
<1>5. PICK x \in CoreSet : x = Core(e)
  <2>1. Core(e) \in CoreSet
    BY SessionsAssumption DEF SessionsAssumption, Core, CoreSet, Given
  <2>. QED BY <2>1
<1>6. \A K : Cores(OfKinds(Append(g, e), K))
               = IF e.kind \in K THEN Append(Cores(OfKinds(g, K)), x) ELSE Cores(OfKinds(g, K))
  <2>1. ASSUME NEW K
        PROVE  Cores(OfKinds(Append(g, e), K))
                 = IF e.kind \in K THEN Append(Cores(OfKinds(g, K)), x) ELSE Cores(OfKinds(g, K))
    <3>1. PICK h \in Seq(Given) : h = OfKinds(g, K)
      BY OfKindsIn
    <3>2. Cores(Append(h, e)) = Append(Cores(h), x)
      BY <1>5, CoresAppend
    <3>3. OfKinds(Append(g, e), K) = IF e.kind \in K THEN Append(h, e) ELSE h
      BY <3>1, OfKindsAppend
    <3>. QED BY <3>1, <3>2, <3>3
  <2>. QED BY <2>1
<1>7. /\ IsVideo(e) <=> e.kind \in VideoKinds
      /\ VideoKinds \cap {"aac", "aacHeader"} = {} /\ (Fmp4!IsVideo(e) <=> IsVideo(e))
  BY DEF IsVideo, VideoKinds, Fmp4!IsVideo, Fmp4!VideoKinds
<1>8. /\ Len(v.samples) <= FragmentSamples + 1 /\ Len(a.samples) <= FragmentSamples + 1
      /\ w.queued <= WriteChanSize
  BY <1>4 DEF InBounds
<1>9. PICK V, A : V = Cores(OfKinds(g, VideoKinds)) /\ A = Cores(OfKinds(g, {"aac", "aacHeader"}))
  OBVIOUS
<1>10. ASSUME IsVideo(e)
       PROVE  /\ r \in FeedRecord /\ InBounds(r)
              /\ Fmp4Good(w, p, g) => Fmp4Good(r, q, Append(g, e))
  <2>1. r \in Fmp4!Feed(w, "video", v, e)
    BY <1>4, <1>7, <1>10, Zenon DEF Fmp4!FeedMsg
  <2>2. PICK d \in Fmp4Fragment :
           /\ r \in FeedRecord /\ r.queued <= WriteChanSize
           /\ r.vfragment = IF "video" = "video" THEN d ELSE w.vfragment
           /\ r.afragment = IF "video" = "audio" THEN d ELSE w.afragment
           /\ Len(d.samples) <= FragmentSamples + 1
           /\ Grown(w, r, "video", v, d, x) \/ Written(w, r, "video", v, d, x)
    BY <1>5, <1>8, <2>1, FeedIs
  <2>3. r.vfragment = d /\ r.afragment = a
    BY <1>4, <2>2
  <2>4. InBounds(r)
    BY <1>8, <2>2, <2>3 DEF InBounds
  <2>5. ASSUME Fmp4Good(w, p, g)
        PROVE  Fmp4Good(r, q, Append(g, e))
    <3>1. /\ Concatenation(Boxed(p, "video")) \o v.samples = V
          /\ Concatenation(Boxed(p, "audio")) \o a.samples = A
          /\ NumbersOf(p, w.seqNumber, v, a)
      BY <1>4, <1>9, <2>5, GoodIs
    <3>a. /\ w.vfragment = v /\ r \in FeedRecord /\ "video" \in {"video", "audio"}
          /\ Grown(w, r, "video", v, d, x) \/ Written(w, r, "video", v, d, x)
      BY <1>4, <2>2
    <3>b. FeedKept(p, q, r.seqNumber, "video", v, d, a, x)
      BY <1>1, <1>2, <3>a, <3>1, FeedKeeps
    <3>2. /\ NumbersOf(q, r.seqNumber, d, a)
          /\ Concatenation(Boxed(q, "video")) \o d.samples
               = Append(Concatenation(Boxed(p, "video")) \o v.samples, x)
          /\ Concatenation(Boxed(q, "audio")) = Concatenation(Boxed(p, "audio"))
      BY <3>b DEF FeedKept
    <3>3. /\ Cores(OfKinds(Append(g, e), VideoKinds)) = Append(V, x)
          /\ Cores(OfKinds(Append(g, e), {"aac", "aacHeader"})) = A
      BY <1>6, <1>7, <1>9, <1>10
    <3>4. /\ Concatenation(Boxed(q, "video")) \o d.samples = Append(V, x)
          /\ Concatenation(Boxed(q, "audio")) \o a.samples = A
      BY <3>1, <3>2
    <3>. QED BY <2>3, <3>2, <3>3, <3>4, GoodIs
  <2>. QED BY <2>2, <2>4, <2>5
<1>11. ASSUME e.kind \in {"aac", "aacHeader"}
       PROVE  /\ r \in FeedRecord /\ InBounds(r)
              /\ Fmp4Good(w, p, g) => Fmp4Good(r, q, Append(g, e))
  <2>1. r \in Fmp4!Feed(w, "audio", a, e)
    <3>1. ~Fmp4!IsVideo(e)
      BY <1>7, <1>11
    <3>. QED BY <1>4, <1>11, <3>1, Zenon DEF Fmp4!FeedMsg
  <2>2. PICK d \in Fmp4Fragment :
           /\ r \in FeedRecord /\ r.queued <= WriteChanSize
           /\ r.vfragment = IF "audio" = "video" THEN d ELSE w.vfragment
           /\ r.afragment = IF "audio" = "audio" THEN d ELSE w.afragment
           /\ Len(d.samples) <= FragmentSamples + 1
           /\ Grown(w, r, "audio", a, d, x) \/ Written(w, r, "audio", a, d, x)
    BY <1>5, <1>8, <2>1, FeedIs
  <2>3. r.afragment = d /\ r.vfragment = v
    BY <1>4, <2>2
  <2>4. InBounds(r)
    BY <1>8, <2>2, <2>3 DEF InBounds
  <2>5. ASSUME Fmp4Good(w, p, g)
        PROVE  Fmp4Good(r, q, Append(g, e))
    <3>1. /\ Concatenation(Boxed(p, "video")) \o v.samples = V
          /\ Concatenation(Boxed(p, "audio")) \o a.samples = A
          /\ NumbersOf(p, w.seqNumber, a, v)
      BY <1>4, <1>9, <2>5, GoodIs
    <3>a. /\ w.afragment = a /\ r \in FeedRecord /\ "audio" \in {"video", "audio"}
          /\ Grown(w, r, "audio", a, d, x) \/ Written(w, r, "audio", a, d, x)
      BY <1>4, <2>2
    <3>b. FeedKept(p, q, r.seqNumber, "audio", a, d, v, x)
      BY <1>1, <1>2, <3>a, <3>1, FeedKeeps
    <3>2. /\ NumbersOf(q, r.seqNumber, d, v)
          /\ Concatenation(Boxed(q, "audio")) \o d.samples
               = Append(Concatenation(Boxed(p, "audio")) \o a.samples, x)
          /\ Concatenation(Boxed(q, "video")) = Concatenation(Boxed(p, "video"))
      BY <3>b DEF FeedKept
    <3>3. /\ Cores(OfKinds(Append(g, e), VideoKinds)) = V
          /\ Cores(OfKinds(Append(g, e), {"aac", "aacHeader"})) = Append(A, x)
      BY <1>6, <1>7, <1>9, <1>11
    <3>4. /\ Concatenation(Boxed(q, "audio")) \o d.samples = Append(A, x)
          /\ Concatenation(Boxed(q, "video")) \o v.samples = V
      BY <3>1, <3>2
    <3>5. NumbersOf(q, r.seqNumber, r.vfragment, r.afragment)
      BY <2>3, <3>2, GoodIs
    <3>. QED BY <2>3, <3>3, <3>4, <3>5, GoodIs
  <2>. QED BY <2>2, <2>4, <2>5
<1>12. ASSUME ~IsVideo(e), e.kind \notin {"aac", "aacHeader"}
       PROVE  /\ r \in FeedRecord /\ InBounds(r)
              /\ Fmp4Good(w, p, g) => Fmp4Good(r, q, Append(g, e))
  <2>1. r = w
    <3>1. r \in {w}
      BY <1>7, <1>12, Zenon DEF Fmp4!FeedMsg
    <3>. QED BY <3>1
  <2>2. q = p
    BY <1>1, <1>2, <2>1
  <2>3. ASSUME Fmp4Good(w, p, g)
        PROVE  Fmp4Good(w, p, Append(g, e))
    <3>1. /\ Cores(OfKinds(Append(g, e), VideoKinds)) = V
          /\ Cores(OfKinds(Append(g, e), {"aac", "aacHeader"})) = A
      BY <1>6, <1>7, <1>9, <1>12
    <3>. QED BY <1>9, <2>3, <3>1 DEF Fmp4Good
  <2>. QED BY <2>1, <2>2, <2>3
<1>. QED BY <1>1, <1>2, <1>10, <1>11, <1>12

\* All the messages of one call
FeedsAllOf(r, o, g, es) ==
  \A w \in Fmp4!FeedAll(r, es) :
    /\ w \in FeedRecord /\ InBounds(w)
    /\ Fmp4Good(r, o \o r.sent, g) => Fmp4Good(w, o \o w.sent, g \o es)

LEMMA FeedsMore ==
  ASSUME NEW r, NEW o \in Seq(Fmp4Box), NEW g \in Seq(Given),
         NEW u \in Seq(Given), NEW e \in Given, FeedsAllOf(r, o, g, u)
  PROVE  FeedsAllOf(r, o, g, Append(u, e))
<1>0. g \o u \in Seq(Given)
  OBVIOUS
<1>1. PICK h \in Seq(Given) : h = g \o u
  BY <1>0
<1>2. g \o Append(u, e) = Append(h, e)
  BY <1>1, AppendLast
<1>3. ASSUME NEW v \in Fmp4!FeedAll(r, Append(u, e))
      PROVE  /\ v \in FeedRecord /\ InBounds(v)
             /\ Fmp4Good(r, o \o r.sent, g) => Fmp4Good(v, o \o v.sent, Append(h, e))
  <2>1. v \in FeedEach(Fmp4!FeedAll(r, u), e)
    BY FeedAllAppend
  <2>2. PICK w \in Fmp4!FeedAll(r, u) : v \in Fmp4!FeedMsg(w, e)
    BY <2>1, Zenon DEF FeedEach
  <2>3. /\ w \in FeedRecord /\ InBounds(w)
        /\ Fmp4Good(r, o \o r.sent, g) => Fmp4Good(w, o \o w.sent, h)
    BY <1>1, <2>2, Zenon DEF FeedsAllOf
  <2>4. /\ v \in FeedRecord /\ InBounds(v)
        /\ Fmp4Good(w, o \o w.sent, h) => Fmp4Good(v, o \o v.sent, Append(h, e))
    BY <2>2, <2>3, FeedsOne
  <2>. QED BY <2>3, <2>4
<1>. QED BY <1>2, <1>3, Zenon DEF FeedsAllOf

LEMMA FeedsAll ==
  ASSUME NEW r \in FeedRecord, InBounds(r), NEW o \in Seq(Fmp4Box), NEW g \in Seq(Given),
         NEW es \in Seq(Given)
  PROVE  FeedsAllOf(r, o, g, es)
<1>. DEFINE T == {n \in Nat : \A z \in Seq(Given) : Len(z) = n => FeedsAllOf(r, o, g, z)}
<1>1. 0 \in T
  <2>1. \A z \in Seq(Given) : Len(z) = 0 => z = <<>>
    OBVIOUS
  <2>2. g \o <<>> = g
    OBVIOUS
  <2>3. Fmp4!FeedAll(r, <<>>) = {r}
    BY FeedAllEmpty
  <2>4. FeedsAllOf(r, o, g, <<>>)
    BY <2>2, <2>3, Zenon DEF FeedsAllOf
  <2>. QED BY <2>1, <2>4
<1>2. ASSUME NEW n \in Nat, n \in T
      PROVE  n + 1 \in T
  <2>1. ASSUME NEW z \in Seq(Given), Len(z) = n + 1
        PROVE  FeedsAllOf(r, o, g, z)
    <3>1. PICK u \in Seq(Given), e \in Given : z = Append(u, e) /\ Len(u) = n
      BY <2>1, LastOut
    <3>2. FeedsAllOf(r, o, g, u)
      BY <1>2, <3>1
    <3>. QED BY <3>1, <3>2, FeedsMore
  <2>. QED BY <2>1
<1>. QED
  <2>. HIDE DEF T
  <2>0. Len(es) \in Nat
    OBVIOUS
  <2>1. Len(es) \in T
    BY <1>1, <1>2, <2>0, FanOutAssumption, H!SetInduction
  <2>. QED BY <2>1 DEF T

LEMMA Fmp4Idle ==
  ASSUME NEW r, NEW o, NEW g, NEW s, Fmp4OK(r, o, g, s)
  PROVE  /\ r.pc = "idle" => NotYet(o, s)
         /\ r.pc # "idle" \/ s \in Joined => r \in Fmp4Record
BY DEF Fmp4OK, NoSession, NotYet, Fmp4Record

\* What holds of a session once it is there
Fmp4OKs(r, o, g, s) ==
  /\ r \in Fmp4Record /\ o \in Seq(Fmp4Box) /\ InBounds(r)
  /\ r.pc \in {"new", "half", "answered", "refused"} =>
       /\ NotYet(o, s) /\ r.seqNumber = 0
       /\ r.vfragment = Fmp4!NoFragment /\ r.afragment = Fmp4!NoFragment
  /\ r.pc = "joined" => \A i \in 1 .. Len(o) : o[i].box # "init"
  /\ r.pc \in {"joined", "reading", "disposed"} => Fmp4Good(r, o, g)

LEMMA Fmp4There ==
  ASSUME NEW r, NEW o, NEW g, NEW s
  PROVE  /\ Fmp4OK(r, o, g, s) /\ (r.pc # "idle" \/ s \in Joined) => Fmp4OKs(r, o, g, s)
         /\ Fmp4OKs(r, o, g, s) => Fmp4OK(r, o, g, s)
<1>1. ASSUME Fmp4OK(r, o, g, s), r.pc # "idle" \/ s \in Joined
      PROVE  Fmp4OKs(r, o, g, s)
  <2>1. r \in Fmp4Record
    BY <1>1, Fmp4Idle
  <2>2. r # NoSession
    BY <2>1 DEF Fmp4Record, NoSession
  <2>. QED BY <1>1, <2>2 DEF Fmp4OK, Fmp4OKs, InBounds
<1>2. Fmp4OKs(r, o, g, s) => Fmp4OK(r, o, g, s)
  BY DEF Fmp4OK, Fmp4OKs, InBounds
<1>. QED BY <1>1, <1>2

\* Nothing was given and nothing was written.
LEMMA Fmp4GoodAtFirst ==
  ASSUME NEW r \in Fmp4Record, r.vfragment = Fmp4!NoFragment, r.afragment = Fmp4!NoFragment,
         r.seqNumber = 0
  PROVE  Fmp4Good(r, <<>>, <<>>)
<1>1. \A k : Concatenation(Boxed(<<>>, k)) = <<>>
  BY DEF Concatenation, Boxed
<1>2. \A K : Cores(OfKinds(<<>>, K)) = <<>>
  BY OfKindsEmpty, CoresEmpty
<1>3. <<>> \o <<>> = <<>>
  OBVIOUS
<1>4. r.vfragment.number = 0 /\ r.afragment.number = 0
      /\ r.vfragment.samples = <<>> /\ r.afragment.samples = <<>>
  BY DEF Fmp4!NoFragment
<1>5. Numbered(<<>>, r.seqNumber) /\ Apart(<<>>, r.seqNumber, r.vfragment)
      /\ Apart(<<>>, r.seqNumber, r.afragment)
  BY <1>4 DEF Numbered, Apart
<1>. QED BY <1>1, <1>2, <1>3, <1>4, <1>5 DEF Fmp4Good

\* The init segment is the only box with number 0.
LEMMA Fmp4Init ==
  ASSUME NEW r \in Fmp4Record, NEW o \in Seq(Fmp4Box), NEW g, Fmp4Good(r, o, g),
         \A i \in 1 .. Len(o) : o[i].box # "init",
         NEW m \in Nat, NEW b, b = [box |-> "init", number |-> 0, samples |-> <<>>, writes |-> m]
  PROVE  Fmp4Good(r, Append(o, b), g) /\ Append(o, b) \in Seq(Fmp4Box)
<1>1. b \in Fmp4Box /\ b.box = "init" /\ b.number = 0
  <2>1. <<>> \in Seq(CoreSet)
    OBVIOUS
  <2>. QED BY <2>1 DEF Fmp4Box
<1>2. /\ Concatenation(Boxed(Append(o, b), "video")) = Concatenation(Boxed(o, "video"))
      /\ Concatenation(Boxed(Append(o, b), "audio")) = Concatenation(Boxed(o, "audio"))
  BY <1>1, BoxedAppend
<1>3. Numbered(Append(o, b), r.seqNumber)
  <2>1. PICK u, n : u = Append(o, b) /\ n = r.seqNumber
    OBVIOUS
  <2>2. PICK l \in Nat : l = Len(o)
    OBVIOUS
  <2>3. Len(u) = l + 1 /\ u[l + 1] = b /\ \A i \in 1 .. l : u[i] = o[i]
    BY <1>1, <2>1, <2>2, AppendFacts
  <2>4. \A i \in 1 .. l + 1 : i = l + 1 \/ i \in 1 .. l
    OBVIOUS
  <2>5. Numbered(o, n)
    BY <2>1 DEF Fmp4Good
  <2>6. \A i \in 1 .. l + 1 :
          /\ u[i].number = 0 <=> u[i].box = "init"
          /\ u[i].number <= n
    <3>1. n \in Nat
      BY <2>1 DEF Fmp4Record
    <3>. QED BY <1>1, <2>2, <2>3, <2>4, <2>5, <3>1 DEF Numbered
  <2>7. \A i \in 1 .. l : u[i].number # 0
    BY <2>2, <2>3, <2>5 DEF Numbered
  <2>8. \A i, j \in 1 .. l + 1 : u[i].number = u[j].number => i = j
    BY <1>1, <2>2, <2>3, <2>4, <2>5, <2>7 DEF Numbered
  <2>9. Numbered(u, n)
    BY <2>3, <2>6, <2>8, Zenon DEF Numbered
  <2>. QED BY <2>1, <2>9
<1>4. Append(o, b) \in Seq(Fmp4Box)
  BY <1>1, AppendFacts
<1>5. /\ Apart(Append(o, b), r.seqNumber, r.vfragment)
      /\ Apart(Append(o, b), r.seqNumber, r.afragment)
  <2>1. PICK u : u = Append(o, b)
    OBVIOUS
  <2>2. PICK l \in Nat : l = Len(o)
    OBVIOUS
  <2>3. Len(u) = l + 1 /\ u[l + 1] = b /\ \A i \in 1 .. l : u[i] = o[i]
    BY <1>1, <2>1, <2>2, AppendFacts
  <2>4. \A i \in 1 .. l + 1 : i = l + 1 \/ i \in 1 .. l
    OBVIOUS
  <2>5. ASSUME NEW f, NEW n, Apart(o, n, f)
        PROVE  Apart(u, n, f)
    BY <1>1, <2>2, <2>3, <2>4, <2>5 DEF Apart
  <2>. QED BY <2>1, <2>5 DEF Fmp4Good
<1>. QED BY <1>2, <1>3, <1>4, <1>5 DEF Fmp4Good

LEMMA Fmp4Step ==
  ASSUME NEW c \in Clients, DOMAIN st = Clients, DOMAIN out = Clients,
         NEW g, NEW s, NEW t, Fmp4OK(st[c], out[c], g, s), s \notin Joined => g = <<>>,
         t \in Joined => s \in Joined \/ (st[c].pc = "answered" /\ st'[c].pc = "joined"),
         \/ Fmp4!NewFmp4Session(c) \/ (\E h : Fmp4!ReadVideoHeader(c, h) \/ Fmp4!Answer(c, h))
         \/ Fmp4!Join(c)
         \/ Fmp4!WriteInit(c) \/ Fmp4!ReadReturns(c) \/ Fmp4!Close(c)
  PROVE  Fmp4OK(st'[c], out'[c], g, t)
<1>. DEFINE r == st[c]
            o == out[c]
<1>0. /\ r.pc = "idle" => NotYet(o, s)
      /\ r.pc # "idle" => Fmp4OKs(r, o, g, s)
  BY Fmp4Idle, Fmp4There
<1>. SUFFICES Fmp4OKs(st'[c], out'[c], g, t)
  BY Fmp4There
<1>1. CASE Fmp4!NewFmp4Session(c)
  <2>1. NotYet(out'[c], t)
    BY <1>0, <1>1 DEF Fmp4!NewFmp4Session, NotYet
  <2>2. st'[c] = [pc |-> "new", video |-> FALSE, seqNumber |-> 0, queued |-> 0,
                  vfragment |-> Fmp4!NoFragment, afragment |-> Fmp4!NoFragment]
    BY <1>1 DEF Fmp4!NewFmp4Session
  <2>3. /\ <<>> \in Seq(Fmp4Box) /\ Fmp4!NoFragment.samples = <<>>
        /\ Fmp4!NoFragment \in Fmp4Fragment
    BY DEF Fmp4!NoFragment, Fmp4Fragment
  <2>4. st'[c] \in Fmp4Record
    BY <2>2, <2>3 DEF Fmp4Record
  <2>5. InBounds(st'[c])
    BY <2>2, <2>3, SessionsAssumption DEF InBounds, SessionsAssumption
  <2>6. out'[c] \in Seq(Fmp4Box)
    BY <2>1, <2>3 DEF NotYet
  <2>. QED BY <2>1, <2>2, <2>4, <2>5, <2>6 DEF Fmp4OKs
<1>2. CASE \E h : Fmp4!ReadVideoHeader(c, h) \/ Fmp4!Answer(c, h)
  <2>1. r.pc \in {"new", "half"} /\ Fmp4OKs(r, o, g, s) /\ UNCHANGED out
    BY <1>0, <1>2 DEF Fmp4!ReadVideoHeader, Fmp4!Answer
  <2>2. r \in Fmp4Record /\ InBounds(r) /\ 1 <= WriteChanSize
    BY <2>1, SessionsAssumption DEF Fmp4OKs, SessionsAssumption
  <2>3. PICK x : \/ x \in BOOLEAN /\ st' = [st EXCEPT ![c].pc = "half", ![c].video = x]
                 \/ st' = [st EXCEPT ![c].pc = "answered", ![c].queued = 1]
                 \/ st' = [st EXCEPT ![c].pc = "refused"]
    <3>1. PICK h : Fmp4!ReadVideoHeader(c, h) \/ Fmp4!Answer(c, h)
      BY <1>2
    <3>2. CASE Fmp4!ReadVideoHeader(c, h)
      <4>1. (h # Fmp4!NoMsg) \in BOOLEAN
        OBVIOUS
      <4>2. st' = [st EXCEPT ![c].pc = "half", ![c].video = h # Fmp4!NoMsg]
        BY <3>2, Zenon DEF Fmp4!ReadVideoHeader
      <4>. QED BY <4>1, <4>2, Zenon
    <3>3. CASE Fmp4!Answer(c, h)
      BY <3>3 DEF Fmp4!Answer
    <3>. QED BY <3>1, <3>2, <3>3
  <2>4. /\ st'[c] \in Fmp4Record /\ st'[c].pc \in {"half", "answered", "refused"}
        /\ st'[c].queued = r.queued \/ st'[c].queued = 1
        /\ st'[c].vfragment = r.vfragment /\ st'[c].afragment = r.afragment
        /\ st'[c].seqNumber = r.seqNumber
    BY <2>2, <2>3 DEF Fmp4Record
  <2>5. InBounds(st'[c])
    BY <2>2, <2>4 DEF InBounds
  <2>. QED BY <2>1, <2>4, <2>5 DEF Fmp4OKs, NotYet
<1>3. CASE Fmp4!Join(c)
  <2>1. r.pc = "answered" /\ Fmp4OKs(r, o, g, s) /\ UNCHANGED out
    BY <1>0, <1>3 DEF Fmp4!Join
  <2>2. g = <<>> /\ o = <<>>
    BY <2>1 DEF Fmp4OKs, NotYet
  <2>3. /\ st'[c] \in Fmp4Record /\ st'[c].pc = "joined" /\ InBounds(st'[c])
        /\ st'[c].vfragment = Fmp4!NoFragment /\ st'[c].afragment = Fmp4!NoFragment
        /\ st'[c].seqNumber = 0
    BY <1>3, <2>1 DEF Fmp4!Join, Fmp4OKs, Fmp4Record, InBounds
  <2>4. Fmp4Good(st'[c], <<>>, <<>>)
    BY <2>3, Fmp4GoodAtFirst
  <2>5. \A i \in 1 .. Len(<<>>) : <<>>[i].box # "init"
    OBVIOUS
  <2>. QED BY <2>1, <2>2, <2>3, <2>4, <2>5 DEF Fmp4OKs
<1>4. CASE Fmp4!WriteInit(c)
  <2>0. PICK q \in 0 .. r.queued :
          /\ st' = [st EXCEPT ![c].pc = "reading", ![c].queued = q + Fmp4!Fits(q)]
          /\ out' = [out EXCEPT ![c] = Append(@, [box |-> "init", number |-> 0, samples |-> <<>>,
                                                  writes |-> Fmp4!Fits(q)])]
    BY <1>4, Zenon DEF Fmp4!WriteInit
  <2>a. r.pc = "joined" /\ Fmp4OKs(r, o, g, s)
    <3>1. r.pc = "joined"
      BY <1>4, Zenon DEF Fmp4!WriteInit
    <3>2. r.pc # "idle"
      BY <3>1
    <3>. QED BY <1>0, <3>1, <3>2
  <2>b. r \in Fmp4Record /\ InBounds(r) /\ r.queued \in Nat /\ r.queued <= WriteChanSize
    BY <2>a DEF Fmp4OKs, Fmp4Record, InBounds
  <2>c. PICK m : m = Fmp4!Fits(q)
    OBVIOUS
  <2>d. m \in Nat /\ q + m \in 0 .. WriteChanSize
    BY <2>b, <2>c, FitsIn
  <2>e. PICK n : n = q + m
    OBVIOUS
  <2>f. n \in Nat /\ n <= WriteChanSize /\ st' = [st EXCEPT ![c].pc = "reading", ![c].queued = n]
    BY <2>0, <2>c, <2>d, <2>e, SessionsAssumption DEF SessionsAssumption
  <2>g. PICK b : b = [box |-> "init", number |-> 0, samples |-> <<>>, writes |-> m]
    OBVIOUS
  <2>1. out'[c] = Append(o, b)
    BY <2>0, <2>c, <2>g
  <2>2. Fmp4Good(r, Append(o, b), g) /\ Append(o, b) \in Seq(Fmp4Box)
    BY <2>a, <2>b, <2>d, <2>g, Fmp4Init DEF Fmp4OKs
  <2>3. /\ st'[c] \in Fmp4Record /\ st'[c].pc = "reading" /\ st'[c].queued = n
        /\ st'[c].vfragment = r.vfragment /\ st'[c].afragment = r.afragment
        /\ st'[c].seqNumber = r.seqNumber
    BY <2>b, <2>f DEF Fmp4Record
  <2>4. InBounds(st'[c])
    BY <2>b, <2>f, <2>3 DEF InBounds
  <2>. QED BY <2>1, <2>2, <2>3, <2>4 DEF Fmp4OKs, Fmp4Good
<1>5. CASE Fmp4!ReadReturns(c) \/ Fmp4!Close(c)
  <2>1. Fmp4OKs(r, o, g, s) /\ UNCHANGED out
    BY <1>0, <1>5 DEF Fmp4!ReadReturns, Fmp4!Close
  <2>2. /\ st'[c] \in Fmp4Record /\ st'[c].pc \in {"disposed", "closed"}
        /\ st'[c].pc = "disposed" => r.pc = "reading"
        /\ st'[c].queued = r.queued
        /\ st'[c].vfragment = r.vfragment /\ st'[c].afragment = r.afragment
        /\ st'[c].seqNumber = r.seqNumber
    BY <1>5, <2>1 DEF Fmp4!ReadReturns, Fmp4!Close, Fmp4OKs, Fmp4Record
  <2>. QED BY <2>1, <2>2 DEF Fmp4OKs, Fmp4Good, InBounds
<1>. QED BY <1>1, <1>2, <1>3, <1>4, <1>5

LEMMA Fmp4Given ==
  ASSUME NEW c \in Clients, DOMAIN st = Clients, DOMAIN out = Clients,
         NEW g \in Seq(Given), NEW s \in Joined, Fmp4OK(st[c], out[c], g, s),
         NEW es \in Seq(Given), Fmp4!OnMsg(c, es)
  PROVE  Fmp4OK(st'[c], out'[c], g \o es, s)
<1>. DEFINE r == st[c]
            o == out[c]
<1>1. Fmp4OKs(r, o, g, s)
  BY Fmp4There
<1>. SUFFICES Fmp4OKs(st'[c], out'[c], g \o es, s)
  BY Fmp4There
<1>2. PICK f : f = [seqNumber |-> r.seqNumber, queued |-> r.queued, sent |-> <<>>,
                    vfragment |-> r.vfragment, afragment |-> r.afragment]
  OBVIOUS
<1>3. /\ r \in Fmp4Record /\ o \in Seq(Fmp4Box) /\ InBounds(r)
      /\ r.pc \notin {"new", "half", "answered", "refused"}
  BY <1>1 DEF Fmp4OKs, NotYet
<1>4. f \in FeedRecord /\ InBounds(f) /\ f.sent = <<>> /\ o \o <<>> = o
  <2>1. <<>> \in Seq(Fragment)
    OBVIOUS
  <2>2. r.seqNumber \in Nat /\ r.queued \in Nat
        /\ r.vfragment \in Fmp4Fragment /\ r.afragment \in Fmp4Fragment
    BY <1>3 DEF Fmp4Record
  <2>3. f \in FeedRecord
    BY <1>2, <2>1, <2>2 DEF FeedRecord
  <2>. QED BY <1>2, <1>3, <2>3 DEF InBounds
<1>5. PICK w \in Fmp4!FeedAll(f, es) :
      /\ st' = [st EXCEPT ![c].seqNumber = w.seqNumber, ![c].queued = w.queued,
                          ![c].vfragment = w.vfragment, ![c].afragment = w.afragment]
      /\ out' = [out EXCEPT ![c] = IF r.pc = "closed" THEN @ ELSE @ \o w.sent]
  BY <1>2, Zenon DEF Fmp4!OnMsg
<1>6. /\ w \in FeedRecord /\ InBounds(w)
      /\ Fmp4Good(f, o \o f.sent, g) => Fmp4Good(w, o \o w.sent, g \o es)
  <2>1. FeedsAllOf(f, o, g, es)
    BY <1>3, <1>4, FeedsAll
  <2>. QED BY <2>1, Zenon DEF FeedsAllOf
<1>7. /\ w.seqNumber \in Nat /\ w.queued \in Nat /\ w.sent \in Seq(Fragment)
      /\ w.vfragment \in Fmp4Fragment /\ w.afragment \in Fmp4Fragment
  BY <1>6 DEF FeedRecord
<1>8. /\ st'[c] \in Fmp4Record /\ st'[c].pc = r.pc /\ st'[c].seqNumber = w.seqNumber
      /\ st'[c].queued = w.queued
      /\ st'[c].vfragment = w.vfragment /\ st'[c].afragment = w.afragment
  BY <1>3, <1>5, <1>7 DEF Fmp4Record
<1>9. InBounds(st'[c])
  BY <1>6, <1>8 DEF InBounds
<1>10. o \o w.sent \in Seq(Fmp4Box)
  BY <1>3, <1>7, FragmentsAre
<1>11. out'[c] = (IF r.pc = "closed" THEN o ELSE o \o w.sent) /\ out'[c] \in Seq(Fmp4Box)
  BY <1>3, <1>5, <1>10
<1>12. ASSUME r.pc = "joined", NEW i \in 1 .. Len(out'[c])
       PROVE  out'[c][i].box # "init"
  <2>1. \A j \in 1 .. Len(o) : o[j].box # "init"
    BY <1>1, <1>12 DEF Fmp4OKs
  <2>2. PICK z \in Seq(Fragment) : z = w.sent
    BY <1>7
  <2>3. \A j \in 1 .. Len(z) : z[j].box # "init"
    <3>1. \A j \in 1 .. Len(z) : z[j] \in Fragment
      OBVIOUS
    <3>. QED BY <3>1 DEF Fragment
  <2>4. out'[c] = o \o z
    BY <1>11, <1>12, <2>2
  <2>5. \A j \in 1 .. Len(o) + Len(z) : (o \o z)[j] = IF j <= Len(o) THEN o[j] ELSE z[j - Len(o)]
    BY <1>3
  <2>6. Len(o \o z) = Len(o) + Len(z) /\ Len(o) \in Nat /\ Len(z) \in Nat
    BY <1>3
  <2>7. i \in 1 .. Len(o) \/ i - Len(o) \in 1 .. Len(z)
    BY <1>12, <2>4, <2>6
  <2>. QED BY <1>12, <2>1, <2>3, <2>4, <2>5, <2>6, <2>7
<1>13. ASSUME r.pc \in {"joined", "reading", "disposed"}
       PROVE  Fmp4Good(st'[c], out'[c], g \o es)
  <2>1. Fmp4Good(r, o, g)
    BY <1>1, <1>13 DEF Fmp4OKs
  <2>2. Fmp4Good(f, o \o f.sent, g)
    BY <1>2, <1>4, <2>1 DEF Fmp4Good
  <2>3. Fmp4Good(w, o \o w.sent, g \o es)
    BY <1>6, <2>2
  <2>4. out'[c] = o \o w.sent
    BY <1>11, <1>13
  <2>. QED BY <1>8, <2>3, <2>4 DEF Fmp4Good
<1>. QED BY <1>3, <1>8, <1>9, <1>11, <1>12, <1>13 DEF Fmp4OKs

-----------------------------------------------------------------------------
(***************************************************************************)
(* SRT                                                                     *)
(***************************************************************************)

Late(g, m) == SubSeq(g, m + 1, Len(g))

LEMMA LateAppend ==
  ASSUME NEW S, NEW g \in Seq(S), NEW e \in S
  PROVE  /\ \A m \in 0 .. Len(g) : Late(Append(g, e), m) = Append(Late(g, m), e) /\ Late(g, m) \in Seq(S)
         /\ Late(g, Len(g)) = <<>>
<1>1. PICK h : h = Append(g, e)
  OBVIOUS
<1>2. PICK n \in Nat : n = Len(g)
  OBVIOUS
<1>3. h \in Seq(S) /\ Len(h) = n + 1 /\ h[n + 1] = e /\ \A i \in 1 .. n : h[i] = g[i] /\ g[i] \in S
  BY <1>1, <1>2, AppendFacts
<1>4. ASSUME NEW m \in 0 .. n
      PROVE  Late(h, m) = Append(Late(g, m), e) /\ Late(g, m) \in Seq(S)
  <2>1. Late(g, m) = [i \in 1 .. n - m |-> g[i + m]]
    BY <1>2 DEF Late
  <2>2. Late(h, m) = [i \in 1 .. n + 1 - m |-> h[i + m]]
    BY <1>3 DEF Late
  <2>3. PICK x, y : x = Late(g, m) /\ y = Late(h, m)
    OBVIOUS
  <2>4. x \in Seq(S) /\ Len(x) = n - m
    BY <1>3, <2>1, <2>3
  <2>5. Append(x, e) = [i \in 1 .. Len(x) + 1 |-> IF i = Len(x) + 1 THEN e ELSE x[i]]
    BY <2>4, AppendFacts
  <2>6. \A i \in 1 .. n + 1 - m : h[i + m] = IF i = n - m + 1 THEN e ELSE x[i]
    BY <1>3, <2>1, <2>3
  <2>7. n + 1 - m = n - m + 1
    OBVIOUS
  <2>. QED BY <2>2, <2>3, <2>4, <2>5, <2>6, <2>7
<1>5. Late(g, Len(g)) = <<>>
  BY DEF Late
<1>. QED BY <1>1, <1>2, <1>4, <1>5

LEMMA PickAppend ==
  ASSUME NEW g \in Seq(Given), NEW e \in Given, NEW K
  PROVE  Cores(OfKinds(Append(g, e), K))
           = IF e.kind \in K THEN Append(Cores(OfKinds(g, K)), Core(e)) ELSE Cores(OfKinds(g, K))
<1>1. PICK h \in Seq(Given) : h = OfKinds(g, K)
  BY OfKindsIn
<1>2. Cores(Append(h, e)) = Append(Cores(h), Core(e))
  BY <1>1, CoresAppend
<1>3. OfKinds(Append(g, e), K) = IF e.kind \in K THEN Append(h, e) ELSE h
  BY <1>1, OfKindsAppend
<1>. QED BY <1>1, <1>2, <1>3

\* Functions with the same values are the same.
LEMMA Alike ==
  ASSUME NEW D, NEW a, NEW b, a = [i \in D |-> a[i]], b = [i \in D |-> b[i]],
         \A i \in D : a[i] = b[i]
  PROVE  a = b
OBVIOUS

\* Concatenation: the order of two is as good, and where the second sequence is.
LEMMA Associative ==
  ASSUME NEW S
  PROVE  \A p, q, r \in Seq(S) : (p \o q) \o r = p \o (q \o r)
<1>. SUFFICES ASSUME NEW p \in Seq(S), NEW q \in Seq(S), NEW r \in Seq(S)
              PROVE  (p \o q) \o r = p \o (q \o r)
  OBVIOUS
<1>. DEFINE n == Len(p) + Len(q) + Len(r)
            a == (p \o q) \o r
            b == p \o (q \o r)
<1>1. a \in Seq(S) /\ b \in Seq(S) /\ Len(a) = n /\ Len(b) = n
  OBVIOUS
<1>2. \A i \in 1 .. n : a[i] = b[i]
  OBVIOUS
<1>. HIDE DEF a, b
<1>3. a = [i \in 1 .. n |-> a[i]] /\ b = [i \in 1 .. n |-> b[i]]
  BY <1>1
<1>. QED BY <1>2, <1>3, Alike

Regrouped(S) == \A p, q, r \in Seq(S) : p \o (q \o r) = (p \o q) \o r

LEMMA AnyRegrouped ==
  ASSUME NEW S
  PROVE  Regrouped(S)
<1>1. \A p, q, r \in Seq(S) : (p \o q) \o r = p \o (q \o r)
  BY Associative, SMTT(30)
<1>. QED BY <1>1, Zenon DEF Regrouped

InOne(o, y, b) == y \o b \in Seq(Given) /\ o \o (y \o b) = (o \o y) \o b

LEMMA ThreeInOne ==
  ASSUME NEW o \in Seq(Given), NEW y \in Seq(Given), NEW b \in Seq(Given)
  PROVE  InOne(o, y, b)
<1>1. y \o b \in Seq(Given)
  OBVIOUS
<1>2. o \o (y \o b) = (o \o y) \o b
  <2>1. Regrouped(Given)
    BY AnyRegrouped
  <2>. QED BY <2>1, Zenon DEF Regrouped
<1>. QED BY <1>1, <1>2 DEF InOne

PacketRecord == [sub : SrtRecord, sent : Seq(Given)]

LEMMA BothAppend ==
  ASSUME NEW p \in Seq(Given), NEW b \in Seq(Given), NEW e \in Given
  PROVE  /\ Both(p, Append(b, e)) = Append(Both(p, b), Core(e))
         /\ Both(p \o b, <<e>>) = Append(Both(p, b), Core(e))
         /\ Append(b, e) \in Seq(Given) /\ <<e>> \in Seq(Given) /\ p \o b \in Seq(Given)
<1>1. PICK z : z = p \o b
  OBVIOUS
<1>2. z \in Seq(Given)
  BY <1>1
<1>3. Cores(Append(z, e)) = Append(Cores(z), Core(e))
  BY <1>2, CoresAppend
<1>4. p \o Append(b, e) = Append(z, e) /\ z \o <<e>> = Append(z, e)
  BY <1>1, AppendLast
<1>5. Append(b, e) \in Seq(Given) /\ <<e>> \in Seq(Given)
  BY AppendFacts, AppendLast
<1>. QED BY <1>1, <1>2, <1>3, <1>4, <1>5 DEF Both

\* One message: counted as missed, left out, kept, or kept after the full buffer was written.
LEMMA PacketsOne ==
  ASSUME NEW w \in PacketRecord, NEW o \in Seq(Given), NEW g \in Seq(Given), NEW e \in Given,
         w.sub.pc # "new", SrtGood(w.sub, o \o w.sent, g)
  PROVE  LET v == Srt!Packet(w, e) IN
         /\ v \in PacketRecord /\ v.sub.pc = w.sub.pc
         /\ SrtGood(v.sub, o \o v.sent, Append(g, e))
<1>. DEFINE v == Srt!Packet(w, e)
            r == w.sub
            K == SrtKinds(w.sub)
<1>1. PICK p : p = o \o w.sent
  OBVIOUS
<1>2. PICK h : h = Append(g, e)
  OBVIOUS
<1>3. /\ r \in SrtRecord /\ w.sent \in Seq(Given) /\ p \in Seq(Given) /\ r.sendBuf \in Seq(Given)
      /\ MaxSend \in Nat \ {0} /\ r.missed \in Nat
  BY <1>1, SessionsAssumption DEF PacketRecord, SrtRecord, SessionsAssumption
<1>4. PICK n \in Nat : n = Len(g) /\ Len(h) = n + 1
  BY <1>2, AppendFacts
<1>5. /\ \A m \in 0 .. n : Late(h, m) = Append(Late(g, m), e) /\ Late(g, m) \in Seq(Given)
      /\ Late(h, n + 1) = <<>>
  <2>1. h \in Seq(Given)
    BY <1>2, AppendFacts
  <2>. QED BY <1>2, <1>4, <2>1, LateAppend, ZenonT(60)
<1>6. CASE r.pc = "joined" \/ ~r.hasInit
  <2>1. v = [w EXCEPT !.sub.missed = @ + 1]
    BY <1>6, Zenon DEF Srt!Packet
  <2>2. r.missed = n /\ p = <<>> /\ r.sendBuf = <<>>
    BY <1>1, <1>4, <1>6 DEF SrtGood
  <2>9. PICK k \in Nat : k = n + 1
    BY <1>4
  <2>3. PICK s : s = [r EXCEPT !.missed = k]
    OBVIOUS
  <2>4. s \in SrtRecord /\ s.missed = n + 1 /\ s.sendBuf = <<>> /\ s.pc = r.pc
    BY <1>3, <2>2, <2>3, <2>9 DEF SrtRecord
  <2>5. v = [w EXCEPT !.sub = s]
    BY <2>1, <2>2, <2>3, <2>9 DEF PacketRecord
  <2>6. v \in PacketRecord /\ v.sub = s /\ v.sent = w.sent
    BY <2>4, <2>5 DEF PacketRecord
  <2>7. Both(<<>>, <<>>) = <<>> /\ Cores(OfKinds(Late(h, n + 1), SrtKinds(s))) = <<>>
    BY <1>5, CoresEmpty, OfKindsEmpty DEF Both
  <2>8. SrtGood(s, p, h)
    BY <1>3, <1>4, <2>2, <2>4, <2>7 DEF SrtGood, Late
  <2>. QED BY <1>1, <1>2, <2>4, <2>6, <2>8
<1>7. CASE ~(r.pc = "joined" \/ ~r.hasInit)
  <2>0. PICK b \in Seq(Given) : b = r.sendBuf
    BY <1>3
  <2>1. v = IF Srt!Muxed(r, e) THEN Srt!OnPacket(w, e) ELSE w
    BY <1>7, Zenon DEF Srt!Packet
  <2>2. Srt!Muxed(r, e) <=> e.kind \in K
    BY <1>3 DEF Srt!Muxed, SrtKinds, SrtRecord
  <2>3. /\ Len(b) <= MaxSend /\ Len(b) \in Nat
        /\ r.conn \in {"open", "left"} =>
             r.missed <= n /\ Both(p, b) = Cores(OfKinds(Late(g, r.missed), K))
    BY <1>1, <1>4, <2>0 DEF SrtGood, Late
  <2>4. r.conn \in {"open", "left"} =>
          Cores(OfKinds(Late(h, r.missed), K))
            = IF e.kind \in K THEN Append(Both(p, b), Core(e)) ELSE Both(p, b)
    <3>1. SUFFICES ASSUME r.conn \in {"open", "left"}
                   PROVE  Cores(OfKinds(Late(h, r.missed), K))
                            = IF e.kind \in K THEN Append(Both(p, b), Core(e)) ELSE Both(p, b)
      OBVIOUS
    <3>2. r.missed \in 0 .. n
      BY <1>3, <1>4, <2>3, <3>1
    <3>3. PICK l : l = Late(g, r.missed)
      OBVIOUS
    <3>4. l \in Seq(Given) /\ Late(h, r.missed) = Append(l, e)
      BY <1>5, <3>2, <3>3
    <3>5. Cores(OfKinds(Append(l, e), K))
            = IF e.kind \in K THEN Append(Cores(OfKinds(l, K)), Core(e)) ELSE Cores(OfKinds(l, K))
      <4>1. l \in Seq(Given)
        BY <3>4
      <4>2. PICK k : k = K
        OBVIOUS
      <4>3. Cores(OfKinds(Append(l, e), k))
              = IF e.kind \in k THEN Append(Cores(OfKinds(l, k)), Core(e)) ELSE Cores(OfKinds(l, k))
        BY <4>1, PickAppend
      <4>. QED BY <4>2, <4>3
    <3>. QED BY <2>3, <3>1, <3>3, <3>4, <3>5
  <2>5. /\ Both(p, Append(b, e)) = Append(Both(p, b), Core(e))
        /\ Both(p \o b, <<e>>) = Append(Both(p, b), Core(e))
        /\ Append(b, e) \in Seq(Given) /\ <<e>> \in Seq(Given) /\ p \o b \in Seq(Given)
    BY <1>3, BothAppend
  <2>6. CASE e.kind \notin K
    <3>1. v = w
      BY <2>1, <2>2, <2>6
    <3>2. SrtGood(r, p, h)
      BY <1>3, <1>4, <1>7, <2>0, <2>3, <2>4, <2>6 DEF SrtGood, Late
    <3>. QED BY <1>1, <1>2, <3>1, <3>2
  <2>7. CASE e.kind \in K /\ Len(b) < MaxSend
    <3>1. v = [w EXCEPT !.sub.sendBuf = Append(@, e)]
      BY <2>0, <2>1, <2>2, <2>7, Zenon DEF Srt!OnPacket
    <3>2. PICK a : a = Append(b, e)
      OBVIOUS
    <3>3. a \in Seq(Given) /\ Len(a) = Len(b) + 1
      BY <3>2, AppendFacts
    <3>4. PICK s : s = [r EXCEPT !.sendBuf = a]
      OBVIOUS
    <3>5. /\ s \in SrtRecord /\ s.sendBuf = a /\ s.pc = r.pc /\ s.conn = r.conn /\ s.missed = r.missed
          /\ s.hasInit = r.hasInit /\ s.video = r.video /\ s.audio = r.audio
      BY <1>3, <3>3, <3>4 DEF SrtRecord
    <3>6. v = [w EXCEPT !.sub = s]
      BY <2>0, <3>1, <3>2, <3>4 DEF PacketRecord
    <3>7. v \in PacketRecord /\ v.sub = s /\ v.sent = w.sent
      BY <3>5, <3>6 DEF PacketRecord
    <3>8. SrtGood(s, p, h)
      <4>1. Len(a) <= MaxSend
        BY <1>3, <2>3, <2>7, <3>3
      <4>2. SrtKinds(s) = K
        BY <3>5 DEF SrtKinds
      <4>3. r.conn \in {"open", "left"} => Both(p, a) = Cores(OfKinds(Late(h, r.missed), K))
        BY <2>4, <2>5, <2>7, <3>2
      <4>4. r.conn \in {"open", "left"} => r.missed <= n + 1
        BY <1>3, <2>3
      <4>5. s.pc \notin {"new", "joined"} /\ s.hasInit
        BY <1>3, <1>7, <3>5 DEF SrtRecord
      <4>. QED BY <1>4, <3>5, <4>1, <4>2, <4>3, <4>4, <4>5 DEF SrtGood, Late
    <3>. QED BY <1>1, <1>2, <3>5, <3>7, <3>8
  <2>8. CASE e.kind \in K /\ ~(Len(b) < MaxSend) /\ r.conn # "open"
    <3>1. v = [w EXCEPT !.sub.conn = "failed"]
      BY <2>0, <2>1, <2>2, <2>8, Zenon DEF Srt!OnPacket
    <3>2. PICK s : s = [r EXCEPT !.conn = "failed"]
      OBVIOUS
    <3>3. /\ s \in SrtRecord /\ s.sendBuf = b /\ s.pc = r.pc /\ s.conn = "failed"
          /\ s.hasInit = r.hasInit
      BY <1>3, <2>0, <3>2 DEF SrtRecord
    <3>4. v = [w EXCEPT !.sub = s]
      BY <3>1, <3>2 DEF PacketRecord
    <3>5. v \in PacketRecord /\ v.sub = s /\ v.sent = w.sent
      BY <3>3, <3>4 DEF PacketRecord
    <3>6. s.pc \notin {"new", "joined"} /\ s.hasInit
      BY <1>3, <1>7, <3>3 DEF SrtRecord
    <3>7. SrtGood(s, p, h)
      BY <2>3, <3>3, <3>6 DEF SrtGood
    <3>. QED BY <1>1, <1>2, <3>3, <3>5, <3>7
  <2>9. CASE e.kind \in K /\ ~(Len(b) < MaxSend) /\ r.conn = "open"
    <3>1. v = [w EXCEPT !.sub.sendBuf = <<e>>, !.sent = @ \o b]
      BY <2>0, <2>1, <2>2, <2>9, Zenon DEF Srt!OnPacket
    <3>2. PICK a : a = <<e>>
      OBVIOUS
    <3>3. a \in Seq(Given) /\ Len(a) = 1
      BY <3>2
    <3>4. PICK s : s = [r EXCEPT !.sendBuf = a]
      OBVIOUS
    <3>5. /\ s \in SrtRecord /\ s.sendBuf = a /\ s.pc = r.pc /\ s.conn = r.conn /\ s.missed = r.missed
          /\ s.hasInit = r.hasInit /\ s.video = r.video /\ s.audio = r.audio
      BY <1>3, <3>3, <3>4 DEF SrtRecord
    <3>6. PICK x : x = w.sent \o b
      OBVIOUS
    <3>7. x \in Seq(Given) /\ o \o x = p \o b
      <4>1. PICK y \in Seq(Given) : y = w.sent
        BY <1>3
      <4>2. y \o b \in Seq(Given) /\ o \o (y \o b) = (o \o y) \o b
        <5>1. InOne(o, y, b)
          BY ThreeInOne
        <5>. QED BY <5>1 DEF InOne
      <4>. QED BY <1>1, <3>6, <4>1, <4>2
    <3>8. v = [w EXCEPT !.sub = s, !.sent = x]
      BY <3>1, <3>2, <3>4, <3>6 DEF PacketRecord
    <3>9. v \in PacketRecord /\ v.sub = s /\ v.sent = x
      BY <3>5, <3>7, <3>8 DEF PacketRecord
    <3>10. SrtGood(s, p \o b, h)
      <4>1. Len(a) <= MaxSend
        BY <1>3, <3>3
      <4>2. SrtKinds(s) = K
        BY <3>5 DEF SrtKinds
      <4>3. Both(p \o b, a) = Cores(OfKinds(Late(h, r.missed), K))
        BY <2>4, <2>5, <2>9, <3>2
      <4>4. r.missed <= n + 1
        BY <1>3, <2>3, <2>9
      <4>5. s.pc \notin {"new", "joined"} /\ s.hasInit
        BY <1>3, <1>7, <3>5 DEF SrtRecord
      <4>. QED BY <1>4, <3>5, <4>1, <4>2, <4>3, <4>4, <4>5 DEF SrtGood, Late
    <3>. QED BY <1>2, <3>5, <3>7, <3>9, <3>10
  <2>. QED BY <2>6, <2>7, <2>8, <2>9
<1>. QED BY <1>6, <1>7

PacketsAllOf(r, o, g, es) ==
  \E w \in PacketRecord :
    /\ Srt!PacketAll(r, es) = {w} /\ w.sub.pc = r.pc
    /\ SrtGood(w.sub, o \o w.sent, g \o es)

LEMMA PacketAllNext ==
  ASSUME NEW r, NEW u \in Seq(Given), NEW e \in Given, NEW w, Srt!PacketAll(r, u) = {w}
  PROVE  Srt!PacketAll(r, Append(u, e)) = {Srt!Packet(w, e)}
<1>1. Srt!PacketAll(r, Append(u, e)) = {Srt!Packet(y, e) : y \in Srt!PacketAll(r, u)}
  BY PacketAllAppend
<1>2. {Srt!Packet(y, e) : y \in {w}} = {Srt!Packet(w, e)}
  BY Zenon
<1>. QED BY <1>1, <1>2

LEMMA PacketsMore ==
  ASSUME NEW r, r.pc # "new", NEW o \in Seq(Given), NEW g \in Seq(Given),
         NEW u \in Seq(Given), NEW e \in Given, PacketsAllOf(r, o, g, u)
  PROVE  PacketsAllOf(r, o, g, Append(u, e))
<1>1. PICK w \in PacketRecord :
        /\ Srt!PacketAll(r, u) = {w} /\ w.sub.pc = r.pc
        /\ SrtGood(w.sub, o \o w.sent, g \o u)
  BY DEF PacketsAllOf
<1>2. Srt!PacketAll(r, u) = {w}
  BY <1>1
<1>3. PICK v : v = Srt!Packet(w, e)
  OBVIOUS
<1>4. Srt!PacketAll(r, Append(u, e)) = {v}
  <2>1. Srt!PacketAll(r, Append(u, e)) = {Srt!Packet(w, e)}
    BY <1>2, PacketAllNext, SMTT(30)
  <2>. QED BY <1>3, <2>1
<1>5. PICK h : h = g \o u
  OBVIOUS
<1>6. h \in Seq(Given)
  BY <1>5
<1>7. v \in PacketRecord /\ v.sub.pc = w.sub.pc /\ SrtGood(v.sub, o \o v.sent, Append(h, e))
  <2>1. w.sub.pc # "new" /\ SrtGood(w.sub, o \o w.sent, h)
    BY <1>1, <1>5
  <2>2. /\ Srt!Packet(w, e) \in PacketRecord /\ Srt!Packet(w, e).sub.pc = w.sub.pc
        /\ SrtGood(Srt!Packet(w, e).sub, o \o Srt!Packet(w, e).sent, Append(h, e))
    BY <1>6, <2>1, PacketsOne
  <2>. QED BY <1>3, <2>2
<1>8. g \o Append(u, e) = Append(h, e)
  BY <1>5, AppendLast
<1>. QED BY <1>1, <1>4, <1>7, <1>8 DEF PacketsAllOf

LEMMA PacketsAll ==
  ASSUME NEW r \in SrtRecord, r.pc # "new", NEW o \in Seq(Given), NEW g \in Seq(Given),
         NEW es \in Seq(Given), SrtGood(r, o, g)
  PROVE  PacketsAllOf(r, o, g, es)
<1>. DEFINE T == {n \in Nat : \A z \in Seq(Given) : Len(z) = n => PacketsAllOf(r, o, g, z)}
<1>1. 0 \in T
  <2>1. \A z \in Seq(Given) : Len(z) = 0 => z = <<>>
    OBVIOUS
  <2>2. g \o <<>> = g /\ o \o <<>> = o /\ <<>> \in Seq(Given)
    OBVIOUS
  <2>3. PICK w : w = [sub |-> r, sent |-> <<>>]
    OBVIOUS
  <2>4. w \in PacketRecord /\ w.sub = r /\ w.sent = <<>>
    BY <2>2, <2>3 DEF PacketRecord
  <2>5. Srt!PacketAll(r, <<>>) = {w}
    BY <2>3, PacketAllEmpty
  <2>6. PacketsAllOf(r, o, g, <<>>)
    BY <2>2, <2>4, <2>5 DEF PacketsAllOf
  <2>. QED BY <2>1, <2>6
<1>2. ASSUME NEW n \in Nat, n \in T
      PROVE  n + 1 \in T
  <2>1. ASSUME NEW z \in Seq(Given), Len(z) = n + 1
        PROVE  PacketsAllOf(r, o, g, z)
    <3>1. PICK u \in Seq(Given), e \in Given : z = Append(u, e) /\ Len(u) = n
      BY <2>1, LastOut
    <3>2. PacketsAllOf(r, o, g, u)
      BY <1>2, <3>1
    <3>. QED BY <3>1, <3>2, PacketsMore
  <2>. QED BY <2>1
<1>. QED
  <2>. HIDE DEF T
  <2>0. Len(es) \in Nat
    OBVIOUS
  <2>1. Len(es) \in T
    BY <1>1, <1>2, <2>0, FanOutAssumption, H!SetInduction
  <2>. QED BY <2>1 DEF T

\* What holds of a session once it is there
SrtOKs(r, o, g, s) ==
  /\ r \in SrtRecord /\ o \in Seq(Given)
  /\ r.pc = "new" => NotYet(o, s)
  /\ SrtGood(r, o, g)

LEMMA SrtThere ==
  ASSUME NEW r, NEW o, NEW g, NEW s
  PROVE  /\ SrtOK(r, o, g, s) /\ r.pc = "idle" => NotYet(o, s)
         /\ SrtOK(r, o, g, s) /\ (r.pc # "idle" \/ s \in Joined \/ "conn" \in DOMAIN r) => SrtOKs(r, o, g, s)
         /\ SrtOKs(r, o, g, s) => SrtOK(r, o, g, s)
<1>1. r = NoSession => r.pc = "idle" /\ DOMAIN r = {"pc"}
  BY DEF NoSession
<1>2. r \in SrtRecord => r.pc # "idle"
  BY DEF SrtRecord
<1>. QED BY <1>1, <1>2 DEF SrtOK, SrtOKs, NotYet

\* What a client got does not matter but for its messages; neither does what became of the
\* connection, when it is gone.
LEMMA SrtGoodOf ==
  ASSUME NEW r \in SrtRecord, NEW s \in SrtRecord, NEW o, NEW g, SrtGood(r, o, g),
         s.hasInit = r.hasInit, s.video = r.video, s.audio = r.audio, s.sendBuf = r.sendBuf,
         s.missed = r.missed, s.pc \in {"new", "joined"} => r.pc \in {"new", "joined"},
         s.conn \in {"open", "left"} => r.conn \in {"open", "left"}
  PROVE  SrtGood(s, o, g)
BY DEF SrtGood, SrtKinds

LEMMA SrtStep ==
  ASSUME NEW c \in Clients, DOMAIN st = Clients, DOMAIN out = Clients,
         NEW g, NEW s, NEW t, SrtOK(st[c], out[c], g, s), s \notin Joined => g = <<>>,
         t \in Joined => s \in Joined \/ (st[c].pc = "new" /\ st'[c].pc = "joined"),
         \/ Srt!NewSubscriber(c) \/ Srt!Join(c) \/ Srt!SetOnPacket(c) \/ Srt!PlayerLeaves(c)
         \/ Srt!Close(c) /\ s \in Joined
  PROVE  SrtOK(st'[c], out'[c], g, t)
<1>. DEFINE r == st[c]
            o == out[c]
<1>0. /\ r.pc = "idle" => NotYet(o, s)
      /\ r.pc # "idle" \/ s \in Joined => SrtOKs(r, o, g, s)
  BY SrtThere
<1>. SUFFICES SrtOKs(st'[c], out'[c], g, t)
  BY SrtThere
<1>1. CASE Srt!NewSubscriber(c)
  <2>1. NotYet(out'[c], t) /\ s \notin Joined /\ g = <<>>
    BY <1>0, <1>1 DEF Srt!NewSubscriber, NotYet
  <2>2. st'[c] = [pc |-> "new", conn |-> "open", hasInit |-> FALSE, video |-> FALSE,
                  audio |-> FALSE, sendBuf |-> <<>>, missed |-> 0]
    BY <1>1 DEF Srt!NewSubscriber
  <2>3. <<>> \in Seq(Given) /\ Len(<<>>) = 0 /\ 0 <= MaxSend /\ Late(<<>>, 0) = <<>>
    BY SessionsAssumption DEF SessionsAssumption, Late
  <2>4. st'[c] \in SrtRecord
    BY <2>2, <2>3 DEF SrtRecord
  <2>5. Both(<<>>, <<>>) = <<>> /\ \A K : Cores(OfKinds(Late(<<>>, 0), K)) = <<>>
    BY <2>3, CoresEmpty, OfKindsEmpty DEF Both
  <2>6. SrtGood(st'[c], <<>>, <<>>)
    BY <2>2, <2>3, <2>5 DEF SrtGood, Late
  <2>. QED BY <2>1, <2>2, <2>3, <2>4, <2>6 DEF SrtOKs, NotYet
<1>2. CASE ~Srt!NewSubscriber(c)
  <2>1. SrtOKs(r, o, g, s) /\ UNCHANGED out
    BY <1>0, <1>2 DEF Srt!Join, Srt!SetOnPacket, Srt!PlayerLeaves, Srt!Close
  <2>2. r \in SrtRecord
    BY <2>1 DEF SrtOKs
  <2>3. CASE Srt!Join(c)
    <3>1. st'[c] = [r EXCEPT !.pc = "joined"] /\ r.pc = "new"
      BY <2>3 DEF Srt!Join
    <3>2. st'[c] \in SrtRecord /\ SrtGood(st'[c], o, g) /\ st'[c].pc = "joined"
      BY <2>1, <2>2, <3>1, SrtGoodOf DEF SrtOKs, SrtRecord
    <3>. QED BY <2>1, <3>2 DEF SrtOKs
  <2>4. CASE Srt!SetOnPacket(c)
    <3>1. st'[c] = [r EXCEPT !.pc = "run"]
      BY <2>4 DEF Srt!SetOnPacket
    <3>2. st'[c] \in SrtRecord /\ SrtGood(st'[c], o, g) /\ st'[c].pc = "run"
      BY <2>1, <2>2, <3>1, SrtGoodOf DEF SrtOKs, SrtRecord
    <3>. QED BY <2>1, <3>2 DEF SrtOKs
  <2>5. CASE Srt!PlayerLeaves(c)
    <3>1. st'[c] = [r EXCEPT !.conn = "left"] /\ r.conn = "open" /\ r.pc # "new"
      BY <2>5 DEF Srt!PlayerLeaves
    <3>2. st'[c] \in SrtRecord /\ SrtGood(st'[c], o, g) /\ st'[c].pc = r.pc
      BY <2>1, <2>2, <3>1, SrtGoodOf DEF SrtOKs, SrtRecord
    <3>. QED BY <2>1, <3>1, <3>2 DEF SrtOKs
  <2>6. CASE Srt!Close(c) /\ s \in Joined
    <3>1. st'[c] = [r EXCEPT !.conn = "closed"] /\ r.pc # "new"
      BY <2>1, <2>6 DEF Srt!Close, SrtOKs, NotYet
    <3>2. st'[c] \in SrtRecord /\ SrtGood(st'[c], o, g) /\ st'[c].pc = r.pc
      BY <2>1, <2>2, <3>1, SrtGoodOf, SMTT(30) DEF SrtOKs, SrtRecord
    <3>. QED BY <2>1, <3>1, <3>2 DEF SrtOKs
  <2>. QED BY <1>2, <2>3, <2>4, <2>5, <2>6
<1>. QED BY <1>1, <1>2

LEMMA SrtGiven ==
  ASSUME NEW c \in Clients, DOMAIN st = Clients, DOMAIN out = Clients,
         NEW g \in Seq(Given), NEW s \in Joined, SrtOK(st[c], out[c], g, s),
         NEW es \in Seq(Given), NEW v, NEW a, Srt!OnMsg(c, es, v, a)
  PROVE  SrtOK(st'[c], out'[c], g \o es, s)
<1>. DEFINE r == st[c]
            o == out[c]
<1>1. SrtOKs(r, o, g, s)
  BY SrtThere
<1>. SUFFICES SrtOKs(st'[c], out'[c], g \o es, s)
  BY SrtThere
<1>2. r \in SrtRecord /\ o \in Seq(Given) /\ r.pc # "new" /\ SrtGood(r, o, g)
  BY <1>1 DEF SrtOKs, NotYet
<1>3. PICK i : i = Srt!Initialised(r, v, a)
  OBVIOUS
<1>4. i \in SrtRecord /\ i.pc = r.pc /\ SrtGood(i, o, g)
  <2>1. CASE r.hasInit \/ a.kind = "rawAudio"
    BY <1>2, <1>3, <2>1 DEF Srt!Initialised
  <2>2. CASE ~(r.hasInit \/ a.kind = "rawAudio")
    <3>1. PICK x, y \in BOOLEAN : i = [r EXCEPT !.hasInit = TRUE, !.video = x, !.audio = y]
      <4>1. (v # Srt!NoMsg) \in BOOLEAN /\ (a # Srt!NoMsg) \in BOOLEAN
        OBVIOUS
      <4>2. i = [r EXCEPT !.hasInit = TRUE, !.video = v # Srt!NoMsg, !.audio = a # Srt!NoMsg]
        BY <1>3, <2>2, Zenon DEF Srt!Initialised
      <4>. QED BY <4>1, <4>2, Zenon
    <3>2. /\ i \in SrtRecord /\ i.pc = r.pc /\ i.sendBuf = r.sendBuf /\ i.missed = r.missed
      BY <1>2, <3>1 DEF SrtRecord
    <3>3. r.missed = Len(g) /\ o = <<>> /\ r.sendBuf = <<>> /\ Len(r.sendBuf) <= MaxSend
      BY <1>2, <2>2 DEF SrtGood
    <3>4. Both(<<>>, <<>>) = <<>> /\ Late(g, Len(g)) = <<>>
      <4>1. \A e \in Given : Late(g, Len(g)) = <<>>
        BY LateAppend
      <4>2. Late(g, Len(g)) = <<>>
        BY DEF Late
      <4>. QED BY <4>2, CoresEmpty DEF Both
    <3>5. \A K : Cores(OfKinds(Late(g, Len(g)), K)) = <<>>
      BY <3>4, CoresEmpty, OfKindsEmpty
    <3>6. Len(g) <= Len(g)
      OBVIOUS
    <3>. QED BY <3>2, <3>3, <3>4, <3>5, <3>6 DEF SrtGood, Late
  <2>. QED BY <2>1, <2>2
<1>5. PICK w \in PacketRecord :
        /\ Srt!PacketAll(i, es) = {w} /\ w.sub.pc = i.pc
        /\ SrtGood(w.sub, o \o w.sent, g \o es)
  <2>1. PacketsAllOf(i, o, g, es)
    BY <1>2, <1>4, PacketsAll
  <2>. QED BY <2>1 DEF PacketsAllOf
<1>6. st' = [st EXCEPT ![c] = w.sub] /\ out' = [out EXCEPT ![c] = @ \o w.sent]
  BY <1>3, <1>5, Zenon DEF Srt!OnMsg
<1>7. w.sub \in SrtRecord /\ w.sent \in Seq(Given)
  BY <1>5 DEF PacketRecord
<1>8. st'[c] = w.sub /\ out'[c] = o \o w.sent /\ o \o w.sent \in Seq(Given)
  BY <1>2, <1>6, <1>7
<1>. QED BY <1>2, <1>4, <1>5, <1>7, <1>8 DEF SrtOKs

-----------------------------------------------------------------------------
(***************************************************************************)
(* What a visit of the hook session gives a viewer, and who has joined.    *)
(***************************************************************************)

VisitEntries(c) == Hook!Replay(c) \o Hook!Live(c)

\* Every entry is a message of the running stream, of which there are at most MaxMsgs.
LEMMA DrawnIn ==
  ASSUME NEW g \in Seq(H!EntryType), NEW h, DOMAIN h \subseteq 1 .. MaxMsgs, H!Drawn(g, h)
  PROVE  g \in Seq(Given)
<1>. SUFFICES ASSUME NEW i \in 1 .. Len(g)
              PROVE  g[i] \in Given
  OBVIOUS
<1>1. g[i] \in H!EntryType /\ g[i].seq \in 1 .. MaxMsgs
  BY DEF H!Drawn
<1>. QED BY <1>1 DEF H!EntryType, Given, Vias, H!MsgKinds, MsgKinds, H!AudioKinds, AudioKinds,
        H!VideoKinds, VideoKinds

LEMMA Behind ==
  ASSUME NEW S
  PROVE  \A p, q \in Seq(S) : \A i \in 1 .. Len(q) :
           q[i] = (p \o q)[Len(p) + i] /\ Len(p) + i \in 1 .. Len(p \o q)
OBVIOUS

LEMMA VisitGives ==
  ASSUME H!BaseInv, H!GotInv, H!BaseInv', H!GotInv', NEW c \in Subscribers, Hook!Deliver(c),
         got[c] \in Seq(Given)
  PROVE  /\ sub[c] \in Joined /\ UNCHANGED sub
         /\ VisitEntries(c) \in Seq(Given)
         /\ got'[c] = got[c] \o VisitEntries(c)
         /\ \A d \in Subscribers : d # c => got'[d] = got[d]
<1>1. /\ H!TypeOK /\ H!WalkInv /\ at = "OnMsg" /\ c \in reachable
      /\ UNCHANGED <<sub, home, session, at>>
      /\ got \in [Subscribers -> Seq(H!EntryType)]
      /\ got' = [got EXCEPT ![c] = got[c] \o Hook!Replay(c) \o Hook!Live(c)]
  BY DEF H!BaseInv, H!TypeOK, Hook!Deliver
<1>2. sub[c] \in Joined /\ home[c] = session
  BY <1>1 DEF H!WalkInv, Joined
<1>3. got'[c] \in Seq(Given)
  <2>1. /\ H!TypeOK' /\ H!WalkInv' /\ H!StreamInv' /\ at' = "OnMsg"
        /\ c \notin reachable' /\ home'[c] = session'
    BY <1>1, <1>2 DEF H!BaseInv, Hook!Deliver
  <2>2. Len(hist') = fed' /\ fed' < MaxMsgs /\ hist' \in Seq(H!Message)
        /\ got'[c] \in Seq(H!EntryType)
    <3>1. H!Cache!TypeOK' => hist' \in Seq(H!Message)
      BY FanOutAssumption, H!SameCache DEF H!Cache!TypeOK, H!Message, H!Cache!Message, H!MsgKinds,
         H!Cache!MsgKinds, H!AudioKinds, H!Cache!AudioKinds, H!VideoKinds, H!Cache!VideoKinds
    <3>. QED BY <2>1, <3>1 DEF H!TypeOK, H!WalkInv, H!StreamInv
  <2>3. H!Drawn(got'[c], Append(hist', msg'))
    BY <2>1 DEF H!GotInv, H!Watching, H!GivenOK, H!Shown
  <2>4. PICK n \in Nat : n = fed' + 1 /\ n <= MaxMsgs /\ MaxMsgs \in Nat
    <3>1. fed' \in Nat
      BY <2>2
    <3>2. MaxMsgs \in Nat
      BY SessionsAssumption DEF SessionsAssumption
    <3>3. fed' < MaxMsgs
      BY <2>2
    <3>4. \A k, l \in Nat : k < l => k + 1 \in Nat /\ k + 1 <= l
      OBVIOUS
    <3>5. fed' + 1 \in Nat /\ fed' + 1 <= MaxMsgs
      BY <3>1, <3>2, <3>3, <3>4, Zenon
    <3>. QED BY <3>2, <3>5, Zenon
  <2>5. DOMAIN Append(hist', msg') \subseteq 1 .. MaxMsgs
    <3>1. DOMAIN Append(hist', msg') = 1 .. n
      BY <2>2, <2>4
    <3>. QED BY <2>4, <3>1
  <2>. QED BY <2>2, <2>3, <2>5, DrawnIn
<1>. DEFINE x == Hook!Replay(c)
            y == Hook!Live(c)
            v == VisitEntries(c)
<1>4. x \in Seq(H!EntryType) /\ y \in Seq(H!EntryType) /\ v \in Seq(H!EntryType)
  <2>1. H!Replay(c) \in Seq(H!EntryType) /\ H!Live(c) \in Seq(H!EntryType)
    BY <1>1, FanOutAssumption, H!VisitType
  <2>. QED BY <2>1, SameVisit DEF VisitEntries
<1>5. got'[c] = got[c] \o v
  <2>1. got'[c] = (got[c] \o x) \o y /\ got[c] \in Seq(H!EntryType)
    BY <1>1
  <2>3. (got[c] \o x) \o y = got[c] \o (x \o y)
    <3>1. \A p, q, r \in Seq(H!EntryType) : (p \o q) \o r = p \o (q \o r)
      BY Associative
    <3>. QED BY <1>4, <2>1, <3>1, Zenon
  <2>. QED BY <2>1, <2>3, Zenon DEF VisitEntries
<1>. HIDE DEF v
<1>6. v \in Seq(Given)
  <2>1. \A i \in 1 .. Len(v) : v[i] = got'[c][Len(got[c]) + i] /\ Len(got[c]) + i \in 1 .. Len(got'[c])
    <3>1. got[c] \in Seq(H!EntryType)
      BY <1>1
    <3>2. \A p, q \in Seq(H!EntryType) : \A i \in 1 .. Len(q) :
            q[i] = (p \o q)[Len(p) + i] /\ Len(p) + i \in 1 .. Len(p \o q)
      BY Behind
    <3>3. \A i \in 1 .. Len(v) : /\ v[i] = (got[c] \o v)[Len(got[c]) + i]
                                 /\ Len(got[c]) + i \in 1 .. Len(got[c] \o v)
      BY <1>4, <3>1, <3>2
    <3>. QED BY <1>5, <3>3
  <2>2. \A i \in 1 .. Len(v) : v[i] \in Given
    <3>1. \A q \in Seq(Given) : \A j \in 1 .. Len(q) : q[j] \in Given
      OBVIOUS
    <3>2. \A j \in 1 .. Len(got'[c]) : got'[c][j] \in Given
      BY <1>3, <3>1, Zenon
    <3>. QED BY <2>1, <3>2, Zenon
  <2>. QED BY <1>4, <2>2
<1>. QED BY <1>1, <1>2, <1>5, <1>6 DEF v

LEMMA SubFacts ==
  ASSUME H!BaseInv, NEW c \in Subscribers
  PROVE  /\ sub[c] \in {"idle", "found", "added", "removed"} /\ c \in DOMAIN sub
         /\ sub[c] \notin Joined => got[c] = <<>>
         /\ videoheader.seq \in Nat /\ c \in Clients
<1>1. H!TypeOK /\ H!WalkInv
  BY DEF H!BaseInv
<1>2. videoheader \in H!Cache!Message \cup {H!Cache!NoMsg}
  BY <1>1 DEF H!TypeOK, H!Cache!TypeOK
<1>3. videoheader.seq \in Nat
  BY <1>2 DEF H!Cache!Message, H!Cache!NoMsg
<1>. QED BY <1>1, <1>3 DEF H!TypeOK, H!WalkInv, Joined, Clients

\* What a step leaves alone but for c.
Aside(c) == \A d \in Subscribers : d # c => got'[d] = got[d] /\ sub'[d] = sub[d]
Calm == UNCHANGED <<setup, at, fed, hist, msg, owner>>

\* What the steps of a viewer do to it in the hook session.
LEMMA HookMoves ==
  ASSUME H!BaseInv, NEW c \in Subscribers
  PROVE  /\ Hook!GetHookSession(c) =>
              Aside(c) /\ UNCHANGED <<at, fed, hist, msg, got>> /\ sub[c] = "idle" /\ sub'[c] = "found"
         /\ Hook!AddConsumer(c) =>
              Aside(c) /\ UNCHANGED <<at, fed, hist, msg, got>> /\ sub[c] = "found" /\ sub'[c] = "added"
         /\ Hook!RemoveConsumer(c) =>
              Aside(c) /\ UNCHANGED <<at, fed, hist, msg, got>> /\ sub[c] = "added" /\ sub'[c] = "removed"
         /\ Hook!StopConsumer(c) =>
              Aside(c) /\ UNCHANGED <<at, fed, hist, msg, got, sub>> /\ sub[c] \in Joined
         /\ UNCHANGED hookVars => Aside(c) /\ UNCHANGED <<at, fed, hist, msg, got, sub>>
<1>1. c \in DOMAIN sub
  BY SubFacts
<1>2. Hook!GetHookSession(c) =>
        Aside(c) /\ UNCHANGED <<at, fed, hist, msg, got>> /\ sub[c] = "idle" /\ sub'[c] = "found"
  BY <1>1 DEF Hook!GetHookSession, Hook!cacheVars, Hook!walkVars, Aside
<1>3. Hook!AddConsumer(c) =>
        Aside(c) /\ UNCHANGED <<at, fed, hist, msg, got>> /\ sub[c] = "found" /\ sub'[c] = "added"
  BY <1>1 DEF Hook!AddConsumer, Hook!cacheVars, Aside
<1>4. Hook!RemoveConsumer(c) =>
        Aside(c) /\ UNCHANGED <<at, fed, hist, msg, got>> /\ sub[c] = "added" /\ sub'[c] = "removed"
  BY <1>1 DEF Hook!RemoveConsumer, Hook!cacheVars, Aside
<1>5. Hook!StopConsumer(c) =>
        Aside(c) /\ UNCHANGED <<at, fed, hist, msg, got, sub>> /\ sub[c] \in Joined
  <2>1. H!WalkInv
    BY DEF H!BaseInv
  <2>. QED BY <2>1 DEF Hook!StopConsumer, Hook!cacheVars, Aside, H!WalkInv, Joined
<1>6. UNCHANGED hookVars => Aside(c) /\ UNCHANGED <<at, fed, hist, msg, got, sub>>
  BY DEF hookVars, Aside
<1>. QED BY <1>2, <1>3, <1>4, <1>5, <1>6

\* All the steps of a viewer, of what it is connected with, and of lal inside a call of it.
ViewerActs(c) ==
  \/ Deliver(c) \/ SrtFails(c) \/ CallOnStop(c) \/ Fmp4OnStop(c) \/ OnStopReturns(c)
  \/ ViewerArrives(c) \/ ViewerStep(c) \/ ViewerClient(c) \/ Callback(c)

LEMMA ViewerAlone ==
  ASSUME Sound, H!BaseInv, NEW c \in Subscribers, ViewerActs(c)
  PROVE  Only(c) /\ Aside(c) /\ Calm /\ (UNCHANGED got \/ Deliver(c))
<1>1. CASE Deliver(c)
  <2>1. Only(c)
    <3>1. \A es : ViewerOnMsg(c, es) => Only(c)
      BY WhepOnly, JessibucaOnly, Fmp4Only, SrtOnly, OnlyNone DEF ViewerOnMsg, sessionVars
    <3>. QED BY <1>1, <3>1 DEF Deliver
  <2>2. Aside(c) /\ UNCHANGED <<at, fed, hist, msg>>
    <3>1. H!TypeOK /\ Hook!Deliver(c)
      BY <1>1 DEF Deliver, H!BaseInv
    <3>. QED BY <3>1 DEF Hook!Deliver, Hook!cacheVars, Aside, H!TypeOK
  <2>. QED BY <1>1, <2>1, <2>2 DEF Deliver, Calm
<1>2. CASE SrtFails(c) \/ CallOnStop(c) \/ Fmp4OnStop(c)
  BY <1>2, SrtOnly, OnlyNone, HookMoves DEF SrtFails, CallOnStop, Fmp4OnStop, sessionVars, Calm
<1>3. CASE OnStopReturns(c)
  <2>1. Only(c)
    BY <1>3, WhepOnly, JessibucaOnly, SrtOnly, OnlyNone DEF OnStopReturns, ViewerOnStop, sessionVars
  <2>. QED BY <1>3, <2>1, HookMoves DEF OnStopReturns, Calm
<1>4. CASE ViewerArrives(c)
  <2>1. Only(c)
    BY <1>4, WhepOnly, JessibucaOnly, Fmp4Only, SrtOnly DEF ViewerArrives
  <2>. QED BY <1>4, <2>1, HookMoves DEF ViewerArrives, Others, Calm
<1>5. CASE ViewerStep(c)
  <2>1. UNCHANGED <<setup, owner>>
    BY <1>5 DEF ViewerStep, Others
  <2>2. CASE WhepHandler(c) \/ WhepLoop(c)
    <3>1. Only(c)
      BY <2>2, WhepOnly DEF WhepHandler, WhepLoop
    <3>. QED BY <2>1, <2>2, <3>1, HookMoves DEF WhepHandler, WhepLoop, HookUnchanged, Calm
  <2>3. CASE JessibucaHandler(c) \/ JessibucaLoop(c)
    <3>1. Only(c)
      BY <2>3, JessibucaOnly DEF JessibucaHandler, JessibucaLoop
    <3>. QED BY <2>1, <2>3, <3>1, HookMoves DEF JessibucaHandler, JessibucaLoop, HookUnchanged, Calm
  <2>4. CASE Fmp4Handler(c)
    <3>1. Only(c)
      BY <2>4, Fmp4Only, OnlyNone DEF Fmp4Handler, sessionVars
    <3>. QED BY <2>1, <2>4, <3>1, HookMoves DEF Fmp4Handler, HookUnchanged, Calm
  <2>5. CASE SrtHandler(c)
    <3>1. Only(c)
      BY <2>5, SrtOnly DEF SrtHandler
    <3>. QED BY <2>1, <2>5, <3>1, HookMoves DEF SrtHandler, HookUnchanged, Calm
  <2>. QED BY <1>5, <2>2, <2>3, <2>4, <2>5 DEF ViewerStep
<1>6. CASE ViewerClient(c)
  <2>1. Only(c)
    BY <1>6, PeerOnly, JessibucaOnly, Fmp4Only, SrtOnly DEF ViewerClient, WebRtcClient
  <2>. QED BY <1>6, <2>1, HookMoves DEF ViewerClient, HookUnchanged, Others, Calm
<1>7. CASE Callback(c)
  <2>1. Only(c)
    BY <1>7, PeerOnly, SessionsAssumption DEF Callback, SessionsAssumption
  <2>. QED BY <1>7, <2>1, HookMoves DEF Callback, HookUnchanged, Others, Calm
<1>. QED BY <1>1, <1>2, <1>3, <1>4, <1>5, <1>6, <1>7 DEF ViewerActs

\* lal's goroutine waits inside a call of a viewer only while it stops the stream, or for an
\* SRT viewer whose write failed.
CallingOK ==
  /\ calling \in Subscribers \cup {None}
  /\ calling # None => at = "OnStop" \/ setup.viewer = "srt"

\* What a step of a viewer starts from, and ends in as far as the hook session is concerned.
Now(c) ==
  /\ Sound /\ H!BaseInv /\ H!GotInv /\ H!BaseInv' /\ H!GotInv'
  /\ Kept /\ CallingOK /\ ViewerActs(c)

LEMMA NowFacts ==
  ASSUME NEW c \in Subscribers, Now(c)
  PROVE  /\ c \in Clients /\ DOMAIN st = Clients /\ DOMAIN out = Clients
         /\ c # None /\ c \notin Publishers
         /\ got[c] \in Seq(Given) /\ (sub[c] \notin Joined => got[c] = <<>>)
         /\ setup \in Setups /\ videoheader.seq \in Nat /\ H!BaseInv
         /\ ViewerOK(c)
         /\ SrtFails(c) => setup.viewer = "srt"
         /\ Fmp4OnStop(c) => setup.viewer = "fmp4"
         /\ CallOnStop(c) => UNCHANGED <<st, out, got, sub>>
<1>1. Sound /\ H!BaseInv /\ Kept /\ CallingOK
  BY DEF Now
<1>2. DOMAIN st = Clients /\ DOMAIN out = Clients /\ setup \in Setups
  BY <1>1 DEF Sound, Shape
<1>3. got[c] \in Seq(Given) /\ ViewerOK(c)
  BY <1>1 DEF Kept
<1>4. c # None /\ c \notin Publishers
  BY SessionsAssumption DEF SessionsAssumption, None
<1>5. SrtFails(c) => setup.viewer = "srt"
  BY <1>1, <1>4 DEF CallingOK, SrtFails
<1>6. Fmp4OnStop(c) => setup.viewer = "fmp4"
  BY DEF Fmp4OnStop
<1>7. CallOnStop(c) => UNCHANGED <<st, out, got, sub>>
  BY DEF CallOnStop, hookVars, sessionVars
<1>. QED BY <1>1, <1>2, <1>3, <1>4, <1>5, <1>6, <1>7, SubFacts

\* A visit.
LEMMA Visited ==
  ASSUME NEW c \in Subscribers, Now(c), Deliver(c)
  PROVE  /\ sub[c] \in Joined /\ sub'[c] = sub[c] /\ VisitEntries(c) \in Seq(Given)
         /\ got'[c] = got[c] \o VisitEntries(c)
         /\ ViewerOnMsg(c, VisitEntries(c))
<1>1. Hook!Deliver(c) /\ got[c] \in Seq(Given)
  BY NowFacts DEF Deliver
<1>2. sub[c] \in Joined /\ UNCHANGED sub /\ VisitEntries(c) \in Seq(Given)
      /\ got'[c] = got[c] \o VisitEntries(c)
  BY <1>1, VisitGives DEF Now
<1>. QED BY <1>2 DEF Deliver, VisitEntries

LEMMA WhepMoves ==
  ASSUME NEW c \in Subscribers, Now(c), setup.viewer = "whep"
  PROVE  WhepOK(st'[c], out'[c], got'[c], sub'[c])
<1>1. /\ c \in Clients /\ DOMAIN st = Clients /\ DOMAIN out = Clients
      /\ got[c] \in Seq(Given) /\ (sub[c] \notin Joined => got[c] = <<>>)
      /\ setup \in Setups /\ videoheader.seq \in Nat
      /\ WhepOK(st[c], out[c], got[c], sub[c])
  BY NowFacts DEF ViewerOK
<1>2. CASE Deliver(c)
  <2>. DEFINE es == VisitEntries(c)
  <2>1. /\ sub[c] \in Joined /\ sub'[c] = sub[c] /\ es \in Seq(Given) /\ got'[c] = got[c] \o es
        /\ Whep!OnMsg(c, es)
    BY <1>2, Visited DEF ViewerOnMsg
  <2>. HIDE DEF es
  <2>. QED BY <1>1, <2>1, WhepGiven
<1>. DEFINE Does ==
       \/ Whep!NewWhepSession(c) \/ Whep!NoAnswer(c) \/ Whep!Run(c)
       \/ Whep!AddVideoTrack(c, videoheader, setup) \/ Whep!AddAudioTrack(c, audioheader, setup)
       \/ Whep!TakeMsg(c) \/ Whep!TakeClose(c)
       \/ \E size : size = Whep!CloseSize /\ Whep!CallbackSends(c, size)
       \/ Whep!OnStop(c) /\ sub[c] \in Joined
       \/ Whep!Heard(c) /\ (Whep!Ice(c) \/ Whep!IceReturns(c))
<1>3. ASSUME UNCHANGED got,
             sub'[c] \in Joined => sub[c] \in Joined \/ (st[c].pc = "answered" /\ st'[c].pc = "run"),
             Does
      PROVE  WhepOK(st'[c], out'[c], got'[c], sub'[c])
  BY <1>1, <1>3, WhepStep
<1>. HIDE DEF Does
<1>4. CASE SrtFails(c) \/ CallOnStop(c) \/ Fmp4OnStop(c)
  BY <1>1, <1>4, NowFacts
<1>5. CASE OnStopReturns(c)
  <2>1. Whep!OnStop(c) /\ UNCHANGED <<got, sub>> /\ sub[c] \in Joined
    BY <1>5, HookMoves, NowFacts DEF OnStopReturns, ViewerOnStop
  <2>. QED BY <1>3, <2>1 DEF Does
<1>6. CASE ViewerArrives(c)
  <2>1. Whep!NewWhepSession(c) /\ UNCHANGED got /\ sub'[c] \notin Joined
    BY <1>6, HookMoves, NowFacts DEF ViewerArrives, Joined
  <2>. QED BY <1>3, <2>1 DEF Does
<1>7. CASE ViewerStep(c)
  <2>1. WhepHandler(c) \/ WhepLoop(c)
    BY <1>7 DEF ViewerStep
  <2>2. CASE Whep!Run(c) /\ Hook!AddConsumer(c)
    <3>1. st[c] \in WhepRecord
      BY <1>1, <2>2, WhepIdle DEF Whep!Run
    <3>2. st[c].pc = "answered" /\ st'[c].pc = "run"
      BY <1>1, <2>2, <3>1 DEF Whep!Run, WhepRecord
    <3>. QED BY <1>3, <2>2, <3>2, HookMoves, NowFacts DEF Does
  <2>3. CASE Whep!TakeClose(c) /\ Hook!RemoveConsumer(c)
    BY <1>3, <2>3, HookMoves, NowFacts DEF Does, Joined
  <2>4. CASE /\ UNCHANGED hookVars
             /\ \/ Whep!NoAnswer(c) \/ Whep!TakeMsg(c)
                \/ Whep!AddVideoTrack(c, videoheader, setup) \/ Whep!AddAudioTrack(c, audioheader, setup)
    BY <1>3, <2>4, HookMoves, NowFacts DEF Does
  <2>. QED BY <2>1, <2>2, <2>3, <2>4 DEF WhepHandler, WhepLoop, HookUnchanged
<1>8. CASE ViewerClient(c)
  <2>1. UNCHANGED hookVars /\ Whep!Heard(c) /\ (Whep!Ice(c) \/ Whep!IceReturns(c))
    BY <1>8 DEF ViewerClient, WebRtcClient, HookUnchanged
  <2>. QED BY <1>3, <2>1, HookMoves, NowFacts DEF Does
<1>9. CASE Callback(c)
  <2>1. UNCHANGED hookVars /\ Whep!CallbackSends(c, Whep!CloseSize)
    BY <1>9, NowFacts DEF Callback, HookUnchanged
  <2>. QED BY <1>3, <2>1, HookMoves, NowFacts DEF Does
<1>. QED BY <1>2, <1>4, <1>5, <1>6, <1>7, <1>8, <1>9 DEF Now, ViewerActs

LEMMA JessibucaMoves ==
  ASSUME NEW c \in Subscribers, Now(c), setup.viewer = "jessibuca"
  PROVE  JessibucaOK(st'[c], out'[c], got'[c], sub'[c])
<1>1. /\ c \in Clients /\ DOMAIN st = Clients /\ DOMAIN out = Clients
      /\ got[c] \in Seq(Given) /\ (sub[c] \notin Joined => got[c] = <<>>)
      /\ JessibucaOK(st[c], out[c], got[c], sub[c])
  BY NowFacts DEF ViewerOK
<1>2. CASE Deliver(c)
  <2>. DEFINE es == VisitEntries(c)
  <2>1. /\ sub[c] \in Joined /\ sub'[c] = sub[c] /\ es \in Seq(Given) /\ got'[c] = got[c] \o es
        /\ Jessibuca!OnMsg(c, es)
    BY <1>2, Visited DEF ViewerOnMsg
  <2>. HIDE DEF es
  <2>. QED BY <1>1, <2>1, JessibucaGiven
<1>. DEFINE Does ==
       \/ Jessibuca!NewJessibucaSession(c) \/ Jessibuca!GetAnswerSDP(c)
       \/ Jessibuca!Run(c, "found") \/ Jessibuca!Run(c, "returned") \/ Jessibuca!Join(c)
       \/ Jessibuca!OnOpen(c) \/ Jessibuca!TakeMsg(c) \/ Jessibuca!TakeClose(c)
       \/ Jessibuca!Leave(c) \/ Jessibuca!ClosePeer(c)
       \/ \E size : size = Jessibuca!CloseSize /\ Jessibuca!CallbackSends(c, size)
       \/ Jessibuca!OnStop(c) /\ sub[c] \in Joined
       \/ Jessibuca!Heard(c) /\ (Jessibuca!Ice(c) \/ Jessibuca!IceReturns(c))
<1>3. ASSUME UNCHANGED got,
             sub'[c] \in Joined =>
               sub[c] \in Joined \/ (st[c].pc = "found" /\ st'[c].pc = "joined"),
             Does
      PROVE  JessibucaOK(st'[c], out'[c], got'[c], sub'[c])
  BY <1>1, <1>3, JessibucaStep
<1>. HIDE DEF Does
<1>4. CASE SrtFails(c) \/ CallOnStop(c) \/ Fmp4OnStop(c)
  BY <1>1, <1>4, NowFacts
<1>5. CASE OnStopReturns(c)
  <2>1. Jessibuca!OnStop(c) /\ UNCHANGED <<got, sub>> /\ sub[c] \in Joined
    BY <1>5, HookMoves, NowFacts DEF OnStopReturns, ViewerOnStop
  <2>. QED BY <1>3, <2>1 DEF Does
<1>6. CASE ViewerArrives(c)
  <2>1. Jessibuca!NewJessibucaSession(c) /\ UNCHANGED got /\ sub'[c] \notin Joined
    BY <1>6, HookMoves, NowFacts DEF ViewerArrives, Joined
  <2>. QED BY <1>3, <2>1 DEF Does
<1>7. CASE ViewerStep(c)
  <2>1. JessibucaHandler(c) \/ JessibucaLoop(c)
    BY <1>7 DEF ViewerStep
  <2>2. CASE Jessibuca!Join(c) /\ Hook!AddConsumer(c)
    <3>1. st[c] \in JessibucaRecord
      BY <1>1, <2>2, JessibucaIdle DEF Jessibuca!Join
    <3>2. st[c].pc = "found" /\ st'[c].pc = "joined"
      BY <1>1, <2>2, <3>1 DEF Jessibuca!Join, JessibucaRecord
    <3>. QED BY <1>3, <2>2, <3>2, HookMoves, NowFacts DEF Does
  <2>3. CASE Jessibuca!Leave(c) /\ Hook!RemoveConsumer(c)
    BY <1>3, <2>3, HookMoves, NowFacts DEF Does, Joined
  <2>4. CASE /\ UNCHANGED hookVars
             /\ \/ Jessibuca!GetAnswerSDP(c) \/ Jessibuca!TakeMsg(c)
                \/ Jessibuca!Run(c, "found") \/ Jessibuca!Run(c, "returned")
                \/ Jessibuca!TakeClose(c) \/ Jessibuca!ClosePeer(c)
    BY <1>3, <2>4, HookMoves, NowFacts DEF Does
  <2>. QED BY <2>1, <2>2, <2>3, <2>4 DEF JessibucaHandler, JessibucaLoop, HookUnchanged
<1>8. CASE ViewerClient(c)
  <2>1. /\ UNCHANGED hookVars
        /\ \/ Jessibuca!OnOpen(c)
           \/ Jessibuca!Heard(c) /\ (Jessibuca!Ice(c) \/ Jessibuca!IceReturns(c))
    BY <1>8 DEF ViewerClient, WebRtcClient, HookUnchanged
  <2>. QED BY <1>3, <2>1, HookMoves, NowFacts DEF Does
<1>9. CASE Callback(c)
  <2>1. UNCHANGED hookVars /\ Jessibuca!CallbackSends(c, Jessibuca!CloseSize)
    BY <1>9, NowFacts DEF Callback, HookUnchanged
  <2>. QED BY <1>3, <2>1, HookMoves, NowFacts DEF Does
<1>. QED BY <1>2, <1>4, <1>5, <1>6, <1>7, <1>8, <1>9 DEF Now, ViewerActs

LEMMA Fmp4Moves ==
  ASSUME NEW c \in Subscribers, Now(c), setup.viewer = "fmp4"
  PROVE  Fmp4OK(st'[c], out'[c], got'[c], sub'[c])
<1>1. /\ c \in Clients /\ DOMAIN st = Clients /\ DOMAIN out = Clients
      /\ got[c] \in Seq(Given) /\ (sub[c] \notin Joined => got[c] = <<>>)
      /\ Fmp4OK(st[c], out[c], got[c], sub[c])
  BY NowFacts DEF ViewerOK
<1>2. CASE Deliver(c)
  <2>. DEFINE es == VisitEntries(c)
  <2>1. /\ sub[c] \in Joined /\ sub'[c] = sub[c] /\ es \in Seq(Given) /\ got'[c] = got[c] \o es
        /\ Fmp4!OnMsg(c, es)
    BY <1>2, Visited DEF ViewerOnMsg
  <2>. HIDE DEF es
  <2>. QED BY <1>1, <2>1, Fmp4Given
<1>. DEFINE Does ==
       \/ Fmp4!NewFmp4Session(c) \/ (\E h : Fmp4!ReadVideoHeader(c, h) \/ Fmp4!Answer(c, h)) \/ Fmp4!Join(c)
       \/ Fmp4!WriteInit(c) \/ Fmp4!ReadReturns(c) \/ Fmp4!Close(c)
<1>3. ASSUME UNCHANGED got,
             sub'[c] \in Joined =>
               sub[c] \in Joined \/ (st[c].pc = "answered" /\ st'[c].pc = "joined"),
             Does
      PROVE  Fmp4OK(st'[c], out'[c], got'[c], sub'[c])
  BY <1>1, <1>3, Fmp4Step
<1>. HIDE DEF Does
<1>4. ASSUME UNCHANGED <<st, out, got>>, sub'[c] \in Joined => sub[c] \in Joined
      PROVE  Fmp4OK(st'[c], out'[c], got'[c], sub'[c])
  BY <1>1, <1>4 DEF Fmp4OK, NotYet
<1>5. CASE SrtFails(c) \/ CallOnStop(c)
  BY <1>1, <1>5, NowFacts
<1>6. CASE Fmp4OnStop(c) \/ OnStopReturns(c)
  <2>1. UNCHANGED <<st, out>> /\ (Hook!RemoveConsumer(c) \/ Hook!StopConsumer(c))
    BY <1>6 DEF Fmp4OnStop, OnStopReturns, ViewerOnStop, sessionVars
  <2>. QED BY <1>4, <2>1, HookMoves, NowFacts DEF Joined
<1>7. CASE ViewerArrives(c)
  <2>1. Fmp4!NewFmp4Session(c) /\ UNCHANGED got /\ sub'[c] \notin Joined
    BY <1>7, HookMoves, NowFacts DEF ViewerArrives, Joined
  <2>. QED BY <1>3, <2>1 DEF Does
<1>8. CASE ViewerStep(c)
  <2>1. Fmp4Handler(c)
    BY <1>8 DEF ViewerStep
  <2>2. CASE Fmp4!Join(c) /\ Hook!AddConsumer(c)
    <3>1. st[c] \in Fmp4Record
      BY <1>1, <2>2, Fmp4Idle DEF Fmp4!Join
    <3>2. st[c].pc = "answered" /\ st'[c].pc = "joined"
      BY <1>1, <2>2, <3>1 DEF Fmp4!Join, Fmp4Record
    <3>. QED BY <1>3, <2>2, <3>2, HookMoves, NowFacts DEF Does
  <2>3. CASE Hook!RemoveConsumer(c) /\ UNCHANGED sessionVars
    BY <1>4, <2>3, HookMoves, NowFacts DEF Joined, sessionVars
  <2>4. CASE UNCHANGED hookVars /\ Does
    BY <1>3, <2>4, HookMoves, NowFacts
  <2>5. CASE UNCHANGED hookVars
             /\ \/ Fmp4!ReadVideoHeader(c, videoheader) \/ Fmp4!Answer(c, audioheader)
                \/ Fmp4!WriteInit(c) \/ Fmp4!Close(c)
    BY <2>4, <2>5 DEF Does
  <2>. QED BY <2>1, <2>2, <2>3, <2>5 DEF Fmp4Handler, HookUnchanged
<1>9. CASE ViewerClient(c)
  <2>1. UNCHANGED hookVars /\ Fmp4!ReadReturns(c)
    BY <1>9 DEF ViewerClient, HookUnchanged
  <2>. QED BY <1>3, <2>1, HookMoves, NowFacts DEF Does
<1>10. ~Callback(c)
  BY NowFacts DEF Callback
<1>. QED BY <1>2, <1>5, <1>6, <1>7, <1>8, <1>9, <1>10 DEF Now, ViewerActs

LEMMA SrtMoves ==
  ASSUME NEW c \in Subscribers, Now(c), setup.viewer = "srt"
  PROVE  SrtOK(st'[c], out'[c], got'[c], sub'[c])
<1>1. /\ c \in Clients /\ DOMAIN st = Clients /\ DOMAIN out = Clients
      /\ got[c] \in Seq(Given) /\ (sub[c] \notin Joined => got[c] = <<>>)
      /\ SrtOK(st[c], out[c], got[c], sub[c])
  BY NowFacts DEF ViewerOK
<1>2. CASE Deliver(c)
  <2>. DEFINE es == VisitEntries(c)
  <2>1. /\ sub[c] \in Joined /\ sub'[c] = sub[c] /\ es \in Seq(Given) /\ got'[c] = got[c] \o es
        /\ IF es = <<>> THEN UNCHANGED sessionVars
           ELSE Srt!OnMsg(c, es, videoheader, audioheader)
    BY <1>2, Visited DEF ViewerOnMsg
  <2>. HIDE DEF es
  <2>2. CASE es = <<>>
    <3>1. got'[c] = got[c]
      BY <1>1, <2>1, <2>2
    <3>. QED BY <1>1, <2>1, <2>2, <3>1 DEF sessionVars
  <2>3. CASE Srt!OnMsg(c, es, videoheader, audioheader)
    BY <1>1, <2>1, <2>3, SrtGiven
  <2>. QED BY <2>1, <2>2, <2>3
<1>. DEFINE Does ==
       \/ Srt!NewSubscriber(c) \/ Srt!Join(c) \/ Srt!SetOnPacket(c) \/ Srt!PlayerLeaves(c)
       \/ Srt!Close(c) /\ sub[c] \in Joined
<1>3. ASSUME UNCHANGED got,
             sub'[c] \in Joined =>
               sub[c] \in Joined \/ (st[c].pc = "new" /\ st'[c].pc = "joined"),
             Does
      PROVE  SrtOK(st'[c], out'[c], got'[c], sub'[c])
  BY <1>1, <1>3, SrtStep
<1>. HIDE DEF Does
<1>4. CASE CallOnStop(c) \/ Fmp4OnStop(c)
  BY <1>1, <1>4, NowFacts
<1>5. CASE SrtFails(c) \/ OnStopReturns(c)
  <2>1. Srt!Close(c) /\ (Hook!RemoveConsumer(c) \/ Hook!StopConsumer(c))
    BY <1>5 DEF SrtFails, OnStopReturns, ViewerOnStop
  <2>. QED BY <1>3, <2>1, HookMoves, NowFacts DEF Does, Joined
<1>6. CASE ViewerArrives(c)
  <2>1. Srt!NewSubscriber(c) /\ UNCHANGED got /\ sub'[c] \notin Joined
    BY <1>6, HookMoves, NowFacts DEF ViewerArrives, Joined
  <2>. QED BY <1>3, <2>1 DEF Does
<1>7. CASE ViewerStep(c)
  <2>1. SrtHandler(c)
    BY <1>7 DEF ViewerStep
  <2>2. CASE Srt!Join(c) /\ Hook!AddConsumer(c)
    <3>1. st[c] \in SrtRecord
      BY <1>1, <2>2 DEF Srt!Join, SrtOK, NoSession
    <3>2. st[c].pc = "new" /\ st'[c].pc = "joined"
      BY <1>1, <2>2, <3>1 DEF Srt!Join, SrtRecord
    <3>. QED BY <1>3, <2>2, <3>2, HookMoves, NowFacts DEF Does
  <2>3. CASE Srt!SetOnPacket(c) /\ UNCHANGED hookVars
    BY <1>3, <2>3, HookMoves, NowFacts DEF Does
  <2>. QED BY <2>1, <2>2, <2>3 DEF SrtHandler, HookUnchanged
<1>8. CASE ViewerClient(c)
  <2>1. UNCHANGED hookVars /\ Srt!PlayerLeaves(c)
    BY <1>8 DEF ViewerClient, HookUnchanged
  <2>. QED BY <1>3, <2>1, HookMoves, NowFacts DEF Does
<1>9. ~Callback(c)
  BY NowFacts DEF Callback
<1>. QED BY <1>2, <1>4, <1>5, <1>6, <1>7, <1>8, <1>9 DEF Now, ViewerActs

-----------------------------------------------------------------------------
(***************************************************************************)
(* Publishers by WHIP: the frames of the track that lal has not been fed   *)
(* are in pktChan, in order.                                               *)
(***************************************************************************)

\* What is taken from a queue q is fed behind h.
LEMMA TakeOne ==
  ASSUME NEW S, NEW h \in Seq(S), NEW q \in Seq(S), q # <<>>
  PROVE  /\ Append(h, Head(q)) \o Tail(q) = h \o q
         /\ Head(q) = (h \o q)[Len(h) + 1] /\ Len(h) + 1 \in 1 .. Len(h \o q)
         /\ Head(q) \in S /\ Len(Tail(q)) <= Len(q)
<1>. DEFINE a == Append(h, Head(q)) \o Tail(q)
            b == h \o q
            n == Len(h) + Len(q)
<1>1. Head(q) \in S /\ Tail(q) \in Seq(S) /\ Len(Tail(q)) = Len(q) - 1 /\ Len(q) \in Nat \ {0}
  OBVIOUS
<1>2. PICK t : t = Tail(q)
  OBVIOUS
<1>3. PICK g : g = Append(h, Head(q))
  OBVIOUS
<1>4. g \in Seq(S) /\ Len(g) = Len(h) + 1 /\ t \in Seq(S) /\ Len(t) = Len(q) - 1
  BY <1>1, <1>2, <1>3
<1>5. a \in Seq(S) /\ b \in Seq(S) /\ Len(a) = n /\ Len(b) = n
  <2>1. a = g \o t
    BY <1>2, <1>3
  <2>. QED BY <1>1, <1>4, <2>1
<1>6. \A i \in 1 .. n : a[i] = b[i]
  <2>. SUFFICES ASSUME NEW i \in 1 .. n
                PROVE  (g \o t)[i] = (h \o q)[i]
    BY <1>2, <1>3
  <2>1. CASE i <= Len(h)
    BY <1>3, <1>4, <2>1
  <2>2. CASE i = Len(h) + 1
    <3>1. (g \o t)[i] = Head(q) /\ (h \o q)[i] = q[1] /\ Head(q) = q[1]
      BY <1>1, <1>3, <1>4, <2>2
    <3>. QED BY <3>1
  <2>3. CASE i > Len(h) + 1
    <3>1. (g \o t)[i] = t[i - Len(h) - 1] /\ (h \o q)[i] = q[i - Len(h)]
      BY <1>1, <1>4, <2>3
    <3>2. t[i - Len(h) - 1] = q[i - Len(h)]
      BY <1>1, <1>2, <2>3
    <3>. QED BY <3>1, <3>2
  <2>4. i <= Len(h) \/ i = Len(h) + 1 \/ i > Len(h) + 1
    BY <1>1
  <2>. QED BY <2>1, <2>2, <2>3, <2>4, Zenon
<1>7. Head(q) = b[Len(h) + 1] /\ Len(h) + 1 \in 1 .. Len(b)
  BY <1>1
<1>. HIDE DEF a, b
<1>8. a = [i \in 1 .. n |-> a[i]] /\ b = [i \in 1 .. n |-> b[i]]
  BY <1>5
<1>9. a = b
  BY <1>6, <1>8, Alike
<1>10. Len(Tail(q)) <= Len(q)
  BY <1>1
<1>. QED BY <1>1, <1>7, <1>9, <1>10, Zenon DEF a, b

\* What is put in a queue q goes behind all that was fed and waits.
GrownOn(h, q, m) == Append(h \o q, m) = h \o Append(q, m)

LEMMA GrowOne ==
  ASSUME NEW S, NEW h \in Seq(S), NEW q \in Seq(S), NEW m \in S
  PROVE  GrownOn(h, q, m)
<1>1. Regrouped(S)
  BY AnyRegrouped
<1>2. \A u \in Seq(S) : Append(u, m) = u \o <<m>>
  BY AppendLast
<1>3. h \o q \in Seq(S) /\ <<m>> \in Seq(S)
  OBVIOUS
<1>4. Append(h \o q, m) = (h \o q) \o <<m>> /\ Append(q, m) = q \o <<m>>
  BY <1>2, <1>3, Zenon
<1>5. (h \o q) \o <<m>> = h \o (q \o <<m>>)
  BY <1>1, <1>3, Zenon DEF Regrouped
<1>. QED BY <1>4, <1>5, Zenon DEF GrownOn

\* The frames of a track are numbered.
Counted(o) == \A i \in 1 .. Len(o) : o[i].seq = i

LEMMA CountOn ==
  ASSUME NEW o \in Seq(Frame), Counted(o), NEW m \in Frame, m.seq = Len(o) + 1
  PROVE  Append(o, m) \in Seq(Frame) /\ Counted(Append(o, m))
<1>1. PICK n \in Nat : n = Len(o)
  OBVIOUS
<1>2. PICK z : z = Append(o, m)
  OBVIOUS
<1>3. z \in Seq(Frame) /\ Len(z) = n + 1 /\ z[n + 1] = m /\ \A i \in 1 .. n : z[i] = o[i]
  BY <1>1, <1>2
<1>4. \A i \in 1 .. n + 1 : i \in 1 .. n \/ i = n + 1
  BY <1>1
<1>5. \A i \in 1 .. n + 1 : z[i].seq = i
  BY <1>1, <1>3, <1>4 DEF Counted
<1>. QED BY <1>2, <1>3, <1>5 DEF Counted

\* What lal was fed.
Any == Message \cup {NoMsg}

LEMMA FedFacts ==
  ASSUME H!BaseInv
  PROVE  /\ hist \in Seq(Message) /\ Len(hist) = fed /\ Fed \in Seq(Any)
         /\ Frame \subseteq Message
<1>1. H!TypeOK /\ H!StreamInv
  BY DEF H!BaseInv
<1>2. hist \in Seq(Message) /\ msg \in Any
  <2>1. H!Cache!TypeOK => hist \in Seq(Message)
    BY DEF H!Cache!TypeOK, Message, H!Cache!Message, MsgKinds, H!Cache!MsgKinds, AudioKinds,
       H!Cache!AudioKinds, VideoKinds, H!Cache!VideoKinds
  <2>2. H!Message \cup {H!NoMsg} = Any
    BY DEF Any, H!Message, Message, H!NoMsg, NoMsg, MsgKinds, H!MsgKinds, AudioKinds, H!AudioKinds,
       VideoKinds, H!VideoKinds
  <2>. QED BY <1>1, <2>1, <2>2 DEF H!TypeOK
<1>3. Fed \in Seq(Any)
  <2>1. hist \in Seq(Any)
    BY <1>2 DEF Any
  <2>. QED BY <1>2, <2>1 DEF Fed
<1>4. Frame \subseteq Message
  BY SessionsAssumption DEF SessionsAssumption, Frame, Message
<1>. QED BY <1>1, <1>2, <1>3, <1>4 DEF H!StreamInv

\* A publisher that does nothing while lal goes on with its stream, or that has no say in it.
LEMMA WhipRests ==
  ASSUME NEW q, WhipOK(q), st'[q] = st[q], out'[q] = out[q],
         \/ UNCHANGED <<at, hist, msg, owner>>
         \/ at = "OnMsg" /\ at' = "live" /\ hist' = Append(hist, msg) /\ UNCHANGED owner
         \/ st[q] = NoSession
         \/ st[q].pc \notin {"new", "refused", "run"}
  PROVE  WhipOK(q)'
<1>1. CASE st[q] = NoSession
  BY <1>1 DEF WhipOK, NoSession
<1>2. CASE st[q] # NoSession /\ st[q].pc \notin {"new", "refused", "run"}
  BY <1>2 DEF WhipOK
<1>3. CASE st[q] # NoSession /\ UNCHANGED <<at, hist, msg, owner>>
  <2>1. Fed' = Fed
    BY <1>3 DEF Fed
  <2>. QED BY <1>3, <2>1, Zenon DEF WhipOK
<1>4. CASE /\ st[q] # NoSession /\ at = "OnMsg" /\ at' = "live" /\ hist' = Append(hist, msg)
           /\ UNCHANGED owner
  <2>1. Fed' = Fed /\ st[q].pc \notin {"new", "refused"}
    BY <1>4 DEF Fed, WhipOK
  <2>. QED BY <1>4, <2>1 DEF WhipOK
<1>. QED BY <1>1, <1>2, <1>3, <1>4

\* What WhipOK says of a session that exists: st[p] = r, out[p] = o, and lal was fed f.
Waiting(r, o, f) ==
  /\ Len(r.pktChan) <= PktChanSize
  /\ Counted(o)
  /\ r.pc \notin {"idle", "new", "refused"}
  /\ r.pc = "run" => o = f \o r.pktChan

LEMMA WhipIs ==
  ASSUME NEW p, st[p] # NoSession, st[p].pc \notin {"idle", "new", "refused"}
  PROVE  WhipOK(p) <=> /\ Waiting(st[p], out[p], Fed)
                       /\ st[p].pc = "run" => owner = p /\ at \in {"live", "OnMsg"}
BY DEF WhipOK, Waiting, Counted

\* lal takes the next frame.
LEMMA WhipTakes ==
  ASSUME Sound, H!BaseInv, setup.publisher = "whip", NEW p \in Publishers, WhipOK(p),
         Whip!TakePkt(p), BeginMsg(Head(st[p].pktChan).kind)
  PROVE  WhipOK(p)'
<1>. DEFINE r == st[p]
            q == st[p].pktChan
            m == [kind |-> Head(q).kind, seq |-> fed + 1]
<1>1. /\ p \in DOMAIN st /\ r \in WhipRecord /\ r.pc = "run" /\ q # <<>> /\ out[p] \in Seq(Frame)
      /\ r # NoSession
  <2>1. p \in DOMAIN st /\ WhipSound(p) /\ out[p] \in Seq(Frame)
    BY DEF Sound, Shape, Clients
  <2>. QED BY <2>1 DEF WhipSound, Whip!TakePkt, Whip!NoSession, NoSession
<1>2. /\ at = "live" /\ at' = "OnMsg" /\ msg' = m /\ hist' = hist /\ UNCHANGED owner
  BY DEF BeginMsg, Hook!OnMsg, Hook!BeginWalk, Hook!cacheVars
<1>3. /\ out[p] = Fed \o q /\ Fed = hist /\ owner = p /\ Counted(out[p])
      /\ Len(q) <= PktChanSize
  BY <1>1, <1>2 DEF WhipOK, Fed, Counted
<1>4. /\ hist \in Seq(Message) /\ Len(hist) = fed /\ q \in Seq(Message) /\ q \in Seq(Frame)
  BY <1>1, FedFacts DEF WhipRecord
<1>5. /\ Append(hist, Head(q)) \o Tail(q) = hist \o q
      /\ Head(q) = (hist \o q)[Len(hist) + 1] /\ Len(hist) + 1 \in 1 .. Len(hist \o q)
      /\ Len(Tail(q)) <= Len(q)
  BY <1>1, <1>4, TakeOne
<1>6. Head(q) = m
  <2>1. Head(q).seq = fed + 1
    BY <1>3, <1>4, <1>5 DEF Counted
  <2>2. Head(q) \in Frame
    BY <1>1, <1>4
  <2>. QED BY <2>1, <2>2 DEF Frame
<1>7. Fed' = Append(hist, Head(q))
  BY <1>2, <1>6 DEF Fed
<1>8. st'[p] = [r EXCEPT !.pktChan = Tail(q)] /\ out'[p] = out[p]
  BY <1>1 DEF Whip!TakePkt
<1>9. st'[p].pc = "run" /\ st'[p].pktChan = Tail(q) /\ st'[p] # NoSession
  BY <1>1, <1>8 DEF WhipRecord, NoSession
<1>10. Len(Tail(q)) <= PktChanSize
  <2>1. Len(q) \in Nat /\ Len(Tail(q)) \in Nat /\ PktChanSize \in Nat
    BY <1>1, <1>4, SessionsAssumption, SMTT(30) DEF SessionsAssumption
  <2>. QED BY <1>3, <1>5, <2>1
<1>11. Waiting(st'[p], out'[p], Fed')
  BY <1>3, <1>5, <1>7, <1>8, <1>9, <1>10, Zenon DEF Waiting
<1>. QED BY <1>2, <1>3, <1>9, <1>11 DEF WhipOK, Waiting, Counted

\* The track brings a frame: nothing, none for want of a decoder, or one more that waits.
LEMMA WhipUnPacks ==
  ASSUME Sound, H!BaseInv, setup.publisher = "whip", NEW p \in Publishers, WhipOK(p), Calm,
         NEW kind \in Kinds, Whip!UnPack(p, kind, setup.raw)
  PROVE  WhipOK(p)'
<1>. DEFINE r == st[p]
            q == st[p].pktChan
            m == [kind |-> kind, seq |-> Len(out[p]) + 1]
<1>1. /\ p \in DOMAIN st /\ p \in DOMAIN out /\ r \in WhipRecord /\ r.pc \in {"run", "returned"}
      /\ out[p] \in Seq(Frame) /\ r # NoSession
  <2>1. p \in DOMAIN st /\ p \in DOMAIN out /\ WhipSound(p) /\ out[p] \in Seq(Frame)
    BY DEF Sound, Shape, Clients
  <2>. QED BY <2>1 DEF WhipSound, Whip!UnPack, Whip!Heard, Whip!NoSession, NoSession
<1>2. Waiting(r, out[p], Fed) /\ (r.pc = "run" => owner = p /\ at \in {"live", "OnMsg"})
  BY <1>1, WhipIs
<1>3. Fed' = Fed /\ owner' = owner /\ at' = at
  BY DEF Fed, Calm
<1>4. ASSUME st'[p].pc \in {r.pc, "panicked"}, st'[p] # NoSession, Waiting(st'[p], out'[p], Fed)
      PROVE  WhipOK(p)'
  BY <1>1, <1>2, <1>3, <1>4 DEF WhipOK, Waiting, Counted
<1>5. CASE st' = [st EXCEPT ![p].read = @ + 1] /\ UNCHANGED out
  <2>1. /\ st'[p].pc = r.pc /\ st'[p].pktChan = q /\ out'[p] = out[p]
    BY <1>1, <1>5 DEF WhipRecord
  <2>2. st'[p] # NoSession
    BY <1>1, <2>1 DEF NoSession
  <2>. QED BY <1>2, <1>4, <2>1, <2>2 DEF Waiting
<1>6. CASE st' = [st EXCEPT ![p].pc = "panicked"] /\ UNCHANGED out
  <2>1. /\ st'[p].pc = "panicked" /\ st'[p].pktChan = q /\ out'[p] = out[p]
    BY <1>1, <1>6 DEF WhipRecord
  <2>2. st'[p] # NoSession
    BY <2>1 DEF NoSession
  <2>. QED BY <1>2, <1>4, <2>1, <2>2 DEF Waiting
<1>7. CASE /\ Len(q) < PktChanSize
           /\ st' = [st EXCEPT ![p].read = @ + 1, ![p].pktChan = Append(@, m)]
           /\ out' = [out EXCEPT ![p] = Append(@, m)]
  <2>1. /\ st'[p].pc = r.pc /\ st'[p].pktChan = Append(q, m) /\ out'[p] = Append(out[p], m)
    <3>1. st'[p] = [r EXCEPT !.read = @ + 1, !.pktChan = Append(@, m)]
      BY <1>1, <1>7
    <3>. QED BY <1>1, <1>7, <3>1 DEF WhipRecord
  <2>2. st'[p] # NoSession
    BY <1>1, <2>1 DEF NoSession
  <2>3. q \in Seq(Frame) /\ m \in Frame /\ m.seq = Len(out[p]) + 1
    BY <1>1 DEF WhipRecord, Frame
  <2>4. Len(Append(q, m)) <= PktChanSize
    <3>1. Len(q) \in Nat /\ PktChanSize \in Nat /\ Len(Append(q, m)) = Len(q) + 1
      BY <2>3, SessionsAssumption DEF SessionsAssumption
    <3>. QED BY <1>7, <3>1
  <2>5. Counted(Append(out[p], m))
    BY <1>1, <1>2, <2>3, CountOn DEF Waiting
  <2>6. Append(Fed \o q, m) = Fed \o Append(q, m)
    <3>1. Fed \in Seq(Any) /\ q \in Seq(Any) /\ m \in Any
      BY <2>3, FedFacts DEF Any
    <3>2. GrownOn(Fed, q, m)
      BY <3>1, GrowOne
    <3>. QED BY <3>2 DEF GrownOn
  <2>. HIDE DEF m
  <2>7. r.pc = "run" => out'[p] = Fed \o Append(q, m)
    BY <1>2, <2>1, <2>6 DEF Waiting
  <2>8. r.pc \notin {"idle", "new", "refused"}
    BY <1>1
  <2>9. Waiting(st'[p], out'[p], Fed)
    BY <2>1, <2>4, <2>5, <2>7, <2>8, Zenon DEF Waiting
  <2>. QED BY <1>4, <2>1, <2>2, <2>9
<1>. QED BY <1>5, <1>6, <1>7, Zenon DEF Whip!UnPack

\* What the publisher's own step makes of it.
LEMMA WhipMoves ==
  ASSUME Sound, H!BaseInv, setup.publisher = "whip", NEW p \in Publishers, WhipOK(p),
         \/ PublisherBegins(p) \/ PublisherStep(p) \/ PublisherClient(p)
         \/ Whip!CallbackSends(p, Whip!CloseSize) /\ Calm
  PROVE  WhipOK(p)'
<1>. DEFINE r == st[p]
<1>1. /\ p \in DOMAIN st /\ (r = NoSession \/ r \in WhipRecord) /\ PktChanSize \in Nat
      /\ (r = NoSession => r.pc = "idle" /\ "ice" \notin DOMAIN r)
  BY SessionsAssumption DEF SessionsAssumption, Sound, Shape, WhipSound, Clients, NoSession,
     Whip!NoSession
<1>2. CASE PublisherBegins(p)
  <2>1. Whip!NewWhipSession(p) /\ BeginStream(p)
    BY <1>2 DEF PublisherBegins
  <2>2. st'[p].pc = "new" /\ st'[p].pktChan = <<>> /\ out'[p] = out[p] /\ st[p].pc = "idle"
    BY <1>1, <2>1 DEF Whip!NewWhipSession
  <2>3. owner' = p /\ at' = "live" /\ hist' = <<>>
    BY <2>1 DEF BeginStream, Hook!NewHookSession, Hook!Cache!Renew
  <2>4. out[p] = <<>>
    <3>1. r \notin WhipRecord
      BY <2>2 DEF WhipRecord
    <3>. QED BY <1>1, <2>2, <3>1 DEF WhipOK, Sound, Shape, WhipSound
  <2>. QED BY <1>1, <2>2, <2>3, <2>4 DEF WhipOK
<1>3. CASE Whip!GetAnswerSDP(p) /\ NoCall
  <2>1. r \in WhipRecord /\ r.pc = "new" /\ UNCHANGED <<at, hist, msg, owner>> /\ out'[p] = out[p]
    BY <1>1, <1>3 DEF Whip!GetAnswerSDP, NoCall, HookUnchanged, Others, hookVars
  <2>2. owner = p /\ at = "live" /\ hist = <<>> /\ r.pktChan = <<>> /\ out[p] = <<>>
    BY <2>1 DEF WhipOK, NoSession
  <2>3. st'[p].pc \in {"run", "refused"} /\ st'[p].pktChan = <<>>
    BY <1>1, <1>3, <2>1, <2>2 DEF Whip!GetAnswerSDP, WhipRecord
  <2>4. Fed' = <<>> /\ <<>> = <<>> \o <<>>
    BY <2>1, <2>2 DEF Fed
  <2>. QED BY <1>1, <2>1, <2>2, <2>3, <2>4 DEF WhipOK
<1>4. CASE Whip!TakePkt(p) /\ BeginMsg(Head(st[p].pktChan).kind)
  BY <1>4, WhipTakes
<1>5. CASE Whip!TakeClose(p)
  <2>1. r \in WhipRecord /\ r.pc = "run"
    BY <1>1, <1>5 DEF Whip!TakeClose
  <2>2. st'[p].pc = "returned" /\ st'[p].pktChan = r.pktChan /\ out'[p] = out[p]
    BY <1>1, <1>5, <2>1 DEF Whip!TakeClose, WhipRecord
  <2>3. r # NoSession
    BY <1>1, <2>1 DEF WhipRecord, NoSession
  <2>. QED BY <1>1, <2>1, <2>2, <2>3 DEF WhipOK
<1>6. CASE /\ Calm /\ r \in WhipRecord
           /\ \/ Whip!Ice(p) \/ Whip!IceReturns(p)
              \/ Whip!CallbackSends(p, Whip!CloseSize)
  <2>1. st'[p].pc = r.pc /\ st'[p].pktChan = r.pktChan /\ out'[p] = out[p]
    <3>1. CASE Whip!Ice(p)
      BY <1>1, <1>6, <3>1 DEF Whip!Ice, Whip!Change, WhipRecord
    <3>2. CASE Whip!IceReturns(p)
      BY <1>1, <1>6, <3>2 DEF Whip!IceReturns, WhipRecord
    <3>3. CASE Whip!CallbackSends(p, Whip!CloseSize)
      BY <1>1, <1>6, <3>3 DEF Whip!CallbackSends, Whip!Signal, WhipRecord
    <3>. QED BY <1>6, <3>1, <3>2, <3>3
  <2>2. r # NoSession /\ r.pc # "idle"
    BY <1>1, <1>6 DEF WhipRecord, NoSession
  <2>3. UNCHANGED <<at, hist, owner>> /\ Fed' = Fed
    BY <1>6 DEF Calm, Fed
  <2>. QED BY <2>1, <2>2, <2>3, Zenon DEF WhipOK
<1>8. CASE PublisherStep(p)
  <2>1. \/ Whip!GetAnswerSDP(p) /\ NoCall
        \/ Whip!TakePkt(p) /\ BeginMsg(Head(st[p].pktChan).kind)
        \/ Whip!TakeClose(p)
    BY <1>8 DEF PublisherStep
  <2>. QED BY <1>3, <1>4, <1>5, <2>1
<1>9. CASE PublisherClient(p)
  <2>1. Whip!Heard(p) /\ Calm
    BY <1>9 DEF PublisherClient, NoCall, HookUnchanged, Others, hookVars, Calm
  <2>2. r \in WhipRecord /\ r.pc \in {"run", "returned"}
    BY <1>1, <2>1 DEF Whip!Heard
  <2>3. \/ Whip!Ice(p) \/ Whip!IceReturns(p)
        \/ MoreToSend(r.read) /\ Whip!UnPack(p, setup.script[r.read + 1], setup.raw)
    BY <1>9 DEF PublisherClient
  <2>4. CASE MoreToSend(r.read) /\ Whip!UnPack(p, setup.script[r.read + 1], setup.raw)
    <3>1. r.read \in Nat
      BY <2>2 DEF WhipRecord
    <3>2. setup.script[r.read + 1] \in Kinds
      BY <2>4, <3>1, ScriptKinds DEF Sound
    <3>. QED BY <2>1, <2>4, <3>2, WhipUnPacks
  <2>. QED BY <1>6, <2>1, <2>2, <2>3, <2>4
<1>10. CASE Whip!CallbackSends(p, Whip!CloseSize) /\ Calm
  <2>1. r \in WhipRecord
    BY <1>1, <1>10 DEF Whip!CallbackSends, Whip!HasPeer
  <2>. QED BY <1>6, <1>10, <2>1
<1>. QED BY <1>2, <1>8, <1>9, <1>10
-----------------------------------------------------------------------------
(***************************************************************************)
(* All of it together.                                                     *)
(***************************************************************************)

LEMMA ViewerRests ==
  ASSUME Kept, NEW c \in Subscribers, UNCHANGED setup,
         st'[c] = st[c], out'[c] = out[c], got'[c] = got[c], sub'[c] = sub[c]
  PROVE  got'[c] \in Seq(Given) /\ ViewerOK(c)'
<1>1. got[c] \in Seq(Given) /\ ViewerOK(c)
  BY DEF Kept
<1>. QED BY <1>1, Zenon DEF ViewerOK

\* A step of a viewer.
LEMMA KeptViewer ==
  ASSUME NEW c \in Subscribers, Now(c)
  PROVE  Kept'
<1>1. /\ Only(c) /\ Aside(c) /\ Calm /\ (UNCHANGED got \/ Deliver(c))
      /\ Kept /\ Sound /\ DOMAIN out = Clients
  BY ViewerAlone DEF Now, Kept
<1>2. ViewerOK(c)'
  <2>1. setup' = setup
    BY <1>1 DEF Calm
  <2>2. CASE setup.viewer = "whep"
    BY <2>1, <2>2, WhepMoves DEF ViewerOK
  <2>3. CASE setup.viewer = "jessibuca"
    BY <2>1, <2>3, JessibucaMoves DEF ViewerOK
  <2>4. CASE setup.viewer = "fmp4"
    BY <2>1, <2>4, Fmp4Moves DEF ViewerOK
  <2>5. CASE setup.viewer = "srt"
    BY <2>1, <2>5, SrtMoves DEF ViewerOK
  <2>6. CASE setup.viewer \notin {"whep", "jessibuca", "fmp4", "srt"}
    <3>1. st[c] = NoSession
      BY <2>6, NowFacts DEF ViewerOK
    <3>2. ~Deliver(c) /\ ~OnStopReturns(c)
      BY <2>6 DEF Deliver, ViewerOnMsg, OnStopReturns, ViewerOnStop
    <3>3. ~ViewerArrives(c) /\ ~ViewerStep(c) /\ ~ViewerClient(c)
      BY <2>6 DEF ViewerArrives, ViewerStep, ViewerClient
    <3>4. ~Callback(c)
      BY <2>6, NowFacts DEF Callback
    <3>5. UNCHANGED st
      BY <2>6, <3>2, <3>3, <3>4, NowFacts DEF Now, ViewerActs
    <3>. QED BY <2>1, <2>6, <3>1, <3>5 DEF ViewerOK
  <2>. QED BY <2>2, <2>3, <2>4, <2>5, <2>6
<1>3. got'[c] \in Seq(Given)
  <2>1. CASE Deliver(c)
    <3>1. got[c] \in Seq(Given) /\ VisitEntries(c) \in Seq(Given)
          /\ got'[c] = got[c] \o VisitEntries(c)
      BY <2>1, Visited, NowFacts
    <3>. QED BY <3>1
  <2>. QED BY <1>1, <2>1, NowFacts
<1>4. \A d \in Subscribers : got'[d] \in Seq(Given) /\ ViewerOK(d)'
  <2>. SUFFICES ASSUME NEW d \in Subscribers, d # c
                PROVE  got'[d] \in Seq(Given) /\ ViewerOK(d)'
    BY <1>2, <1>3
  <2>1. st'[d] = st[d] /\ out'[d] = out[d] /\ got'[d] = got[d] /\ sub'[d] = sub[d]
    BY <1>1 DEF Only, Aside, Sound, Shape, Clients
  <2>. QED BY <1>1, <2>1, ViewerRests DEF Calm
<1>5. \A p \in Publishers : PublisherOK(p)'
  <2>. SUFFICES ASSUME NEW p \in Publishers
                PROVE  PublisherOK(p)'
    OBVIOUS
  <2>1. st'[p] = st[p] /\ out'[p] = out[p] /\ PublisherOK(p)
    BY <1>1, NowFacts DEF Only, Sound, Shape, Clients, Kept
  <2>2. WhipOK(p) => WhipOK(p)'
    BY <1>1, <2>1, WhipRests DEF Calm
  <2>. QED BY <1>1, <2>1, <2>2 DEF PublisherOK, Calm
<1>. QED BY <1>1, <1>4, <1>5 DEF Kept, Only

\* A step of a publisher, a callback of its connection included.
LEMMA KeptPublisher ==
  ASSUME Sound, H!BaseInv, Kept, NEW p \in Publishers, Only(p),
         \/ PublisherBegins(p) \/ PublisherStep(p) \/ PublisherClient(p)
         \/ setup.publisher = "whip" /\ Whip!CallbackSends(p, Whip!CloseSize) /\ Calm
            /\ UNCHANGED hookVars,
         UNCHANGED setup
  PROVE  Kept'
<1>1. UNCHANGED <<got, sub>>
  <2>1. CASE BeginStream(p)
    BY <2>1 DEF BeginStream, Hook!NewHookSession, Hook!subVars
  <2>2. CASE \E kind : BeginMsg(kind)
    BY <2>2 DEF BeginMsg, Hook!OnMsg, Hook!subVars
  <2>3. CASE EndStream
    BY <2>3 DEF EndStream, Hook!OnStop, Hook!subVars
  <2>4. CASE UNCHANGED hookVars
    BY <2>4 DEF hookVars
  <2>. QED BY <2>1, <2>2, <2>3, <2>4
       DEF PublisherBegins, PublisherStep, PublisherClient, NoCall, HookUnchanged
<1>2. \A c \in Subscribers : got'[c] \in Seq(Given) /\ ViewerOK(c)'
  <2>. SUFFICES ASSUME NEW c \in Subscribers
                PROVE  got'[c] \in Seq(Given) /\ ViewerOK(c)'
    OBVIOUS
  <2>1. c # p /\ c \in DOMAIN st /\ c \in DOMAIN out
    BY SessionsAssumption DEF SessionsAssumption, Sound, Shape, Kept, Clients
  <2>2. st'[c] = st[c] /\ out'[c] = out[c]
    BY <2>1 DEF Only
  <2>. QED BY <1>1, <2>2, ViewerRests
<1>3. \A q \in Publishers : q # p => st'[q] = st[q] /\ out'[q] = out[q] /\ PublisherOK(q)
  BY DEF Only, Sound, Shape, Kept, Clients
<1>4. CASE setup.publisher = "whip"
  <2>1. WhipOK(p)'
    <3>1. WhipOK(p)
      BY <1>4 DEF Kept, PublisherOK
    <3>. QED BY <1>4, <3>1, WhipMoves
  <2>2. ASSUME NEW q \in Publishers, q # p
        PROVE  WhipOK(q)'
    <3>1. WhipOK(q) /\ WhipOK(p) /\ st'[q] = st[q] /\ out'[q] = out[q]
      BY <1>3, <1>4, <2>2 DEF Kept, PublisherOK
    <3>2. CASE UNCHANGED <<at, hist, msg, owner>>
      BY <3>1, <3>2, WhipRests
    <3>3. CASE at = "gone"
      <4>1. st[q] = NoSession \/ st[q].pc \notin {"new", "refused", "run"}
        BY <3>1, <3>3 DEF WhipOK
      <4>. QED BY <3>1, <4>1, WhipRests
    <3>4. CASE st[p].pc = "run"
      <4>1. owner = p
        BY <3>1, <3>4 DEF WhipOK, NoSession
      <4>2. st[q] = NoSession \/ st[q].pc \notin {"new", "refused", "run"}
        BY <2>2, <3>1, <4>1 DEF WhipOK
      <4>. QED BY <3>1, <4>2, WhipRests
    <3>5. PublisherBegins(p) => at = "gone"
      BY <1>4 DEF PublisherBegins, BeginStream, Hook!NewHookSession
    <3>6. PublisherStep(p) => UNCHANGED <<at, hist, msg, owner>> \/ st[p].pc = "run"
      BY <1>4 DEF PublisherStep, NoCall, HookUnchanged, hookVars, Others, Whip!TakePkt, Whip!TakeClose
    <3>7. PublisherClient(p) => UNCHANGED <<at, hist, msg, owner>>
      BY <1>4 DEF PublisherClient, NoCall, HookUnchanged, hookVars, Others
    <3>. QED BY <3>2, <3>3, <3>4, <3>5, <3>6, <3>7 DEF Calm
  <2>. QED BY <1>2, <1>4, <2>1, <2>2 DEF Kept, PublisherOK, Only
<1>5. CASE setup.publisher # "whip"
  <2>1. setup.publisher = "srt"
        /\ \/ SrtPub!HandlePublish(p) \/ SrtPub!HandleTaken(p) \/ SrtPub!CallNil(p)
           \/ SrtPub!OnFrame(p) \/ SrtPub!ConnectionEnds(p) \/ SrtPub!Remove(p)
    BY <1>5 DEF PublisherBegins, PublisherStep, PublisherClient
  <2>. DEFINE SrtPubRecord == [pc : {"run", "returned", "nil", "panicked"},
                               conn : {"open", "ended", "closed"}, read : Nat]
  <2>2. p \in DOMAIN st /\ (st[p] = NoSession \/ st[p] \in SrtPubRecord)
    BY <2>1 DEF Kept, PublisherOK, Sound, Shape, Clients
  <2>3. st'[p] \in SrtPubRecord
    BY <2>1, <2>2 DEF SrtPub!HandlePublish, SrtPub!HandleTaken, SrtPub!CallNil, SrtPub!OnFrame, SrtPub!ConnectionEnds, SrtPub!Remove,
       NoSession
  <2>4. \A q \in Publishers : q # p => PublisherOK(q)'
    BY <1>3, <2>1 DEF PublisherOK
  <2>. QED BY <1>2, <2>1, <2>3, <2>4 DEF Kept, PublisherOK, Only
<1>. QED BY <1>4, <1>5

\* A step of no session: lal between its calls, a stream from elsewhere, the ticker.
LEMMA KeptOther ==
  ASSUME Sound, Kept, EndOnMsg \/ EndOnStop \/ Elsewhere \/ Clean
  PROVE  Kept'
<1>1. UNCHANGED <<st, out, setup>>
  BY DEF EndOnMsg, EndOnStop, Elsewhere, Clean, BeginStream, BeginMsg, EndStream, sessionVars
<1>2. UNCHANGED <<got, sub>>
  <2>1. CASE EndOnMsg
    BY <2>1 DEF EndOnMsg, Hook!EndOnMsg, Hook!subVars
  <2>2. CASE EndOnStop
    BY <2>2 DEF EndOnStop, Hook!EndOnStop, Hook!subVars
  <2>3. CASE Elsewhere
    BY <2>3 DEF Elsewhere, BeginStream, BeginMsg, EndStream, Hook!NewHookSession, Hook!OnMsg,
       Hook!OnStop, Hook!subVars
  <2>4. CASE Clean
    BY <2>4 DEF Clean, HookUnchanged, hookVars
  <2>. QED BY <2>1, <2>2, <2>3, <2>4
<1>3. \A c \in Subscribers : got'[c] \in Seq(Given) /\ ViewerOK(c)'
  BY <1>1, <1>2, ViewerRests
<1>4. ASSUME NEW p \in Publishers
      PROVE  PublisherOK(p)'
  <2>1. PublisherOK(p)
    BY DEF Kept
  <2>2. CASE setup.publisher = "whip"
    <3>1. WhipOK(p)
      BY <2>1, <2>2 DEF PublisherOK
    <3>2. CASE EndOnMsg
      <4>1. at = "OnMsg" /\ at' = "live" /\ hist' = Append(hist, msg) /\ UNCHANGED owner
        BY <3>2 DEF EndOnMsg, Hook!EndOnMsg, Hook!Cache!Feed
      <4>2. WhipOK(p)'
        BY <1>1, <2>1, <3>1, <4>1, WhipRests
      <4>. QED BY <1>1, <2>2, <4>2 DEF PublisherOK
    <3>3. CASE EndOnStop
      <4>1. at = "OnStop"
        BY <3>3 DEF EndOnStop, Hook!EndOnStop
      <4>2. st[p] = NoSession \/ st[p].pc \notin {"new", "refused", "run"}
        BY <3>1, <4>1 DEF WhipOK
      <4>3. WhipOK(p)'
        BY <1>1, <2>1, <3>1, <4>2, WhipRests
      <4>. QED BY <1>1, <2>2, <4>3 DEF PublisherOK
    <3>4. CASE Clean
      <4>1. UNCHANGED <<at, hist, msg, owner>>
        BY <3>4 DEF Clean, HookUnchanged, hookVars
      <4>2. WhipOK(p)'
        BY <1>1, <2>1, <3>1, <4>1, WhipRests
      <4>. QED BY <1>1, <2>2, <4>2 DEF PublisherOK
    <3>5. ~Elsewhere
      BY <2>2 DEF Elsewhere
    <3>. QED BY <3>2, <3>3, <3>4, <3>5
  <2>3. CASE setup.publisher # "whip"
    BY <1>1, <2>1, <2>3 DEF PublisherOK
  <2>. QED BY <2>2, <2>3
<1>. QED BY <1>1, <1>3, <1>4 DEF Kept

LEMMA KeptInit == Init => Kept /\ CallingOK
<1>. SUFFICES ASSUME Init
              PROVE  Kept /\ CallingOK
  OBVIOUS
<1>1. /\ DOMAIN out = Clients /\ \A c \in Clients : st[c] = NoSession /\ out[c] = <<>>
      /\ \A c \in Subscribers : got[c] = <<>> /\ sub[c] = "idle"
  BY DEF Init, Hook!Init, Clients, NoSession, Whep!NoSession
<1>2. \A c \in Subscribers : NotYet(out[c], sub[c])
  BY <1>1 DEF NotYet, Joined, Clients
<1>3. \A c \in Subscribers : got[c] \in Seq(Given) /\ ViewerOK(c)
  <2>. SUFFICES ASSUME NEW c \in Subscribers
                PROVE  got[c] \in Seq(Given) /\ ViewerOK(c)
    OBVIOUS
  <2>1. st[c] = NoSession /\ NotYet(out[c], sub[c]) /\ got[c] = <<>>
    BY <1>1, <1>2 DEF Clients
  <2>2. /\ WhepOK(st[c], out[c], got[c], sub[c]) /\ JessibucaOK(st[c], out[c], got[c], sub[c])
        /\ Fmp4OK(st[c], out[c], got[c], sub[c]) /\ SrtOK(st[c], out[c], got[c], sub[c])
    BY <2>1, Zenon DEF WhepOK, JessibucaOK, Fmp4OK, SrtOK
  <2>. QED BY <2>1, <2>2 DEF ViewerOK
<1>4. \A p \in Publishers : PublisherOK(p)
  <2>. SUFFICES ASSUME NEW p \in Publishers
                PROVE  PublisherOK(p)
    OBVIOUS
  <2>1. st[p] = NoSession /\ out[p] = <<>>
    BY <1>1 DEF Clients
  <2>. QED BY <2>1 DEF PublisherOK, WhipOK
<1>5. CallingOK
  BY DEF Init, CallingOK
<1>. QED BY <1>1, <1>3, <1>4, <1>5 DEF Kept

\* lal comes into a call as CallingOK says, and the stream goes on only when it is out of it.
LEMMA CallingStep ==
  ASSUME CallingOK, UNCHANGED setup, [Next]_vars
  PROVE  CallingOK'
<1>1. CASE UNCHANGED vars
  BY <1>1 DEF vars, hookVars, CallingOK
<1>2. CASE LalStep
  <2>1. CASE EndOnMsg \/ EndOnStop
    BY <2>1 DEF EndOnMsg, EndOnStop, CallingOK
  <2>2. ASSUME NEW c \in Subscribers, Deliver(c)
        PROVE  CallingOK'
    BY <2>2 DEF Deliver, CallingOK
  <2>3. ASSUME NEW c \in Subscribers, SrtFails(c) \/ OnStopReturns(c)
        PROVE  CallingOK'
    BY <2>3 DEF SrtFails, OnStopReturns, CallingOK
  <2>4. ASSUME NEW c \in Subscribers, CallOnStop(c) \/ Fmp4OnStop(c)
        PROVE  CallingOK'
    BY <2>4 DEF CallOnStop, Fmp4OnStop, CallingOK, hookVars, Hook!RemoveConsumer
  <2>. QED BY <1>2, <2>1, <2>2, <2>3, <2>4 DEF LalStep
<1>3. ASSUME UNCHANGED calling, at = "OnStop" => at' = "OnStop"
      PROVE  CallingOK'
  BY <1>3 DEF CallingOK
<1>4. /\ \A who : BeginStream(who) => at # "OnStop" /\ UNCHANGED calling
      /\ \A kind : BeginMsg(kind) => at # "OnStop" /\ UNCHANGED calling
      /\ EndStream => at # "OnStop" /\ UNCHANGED calling
      /\ NoCall => UNCHANGED <<at, calling>>
  BY DEF BeginStream, BeginMsg, EndStream, NoCall, HookUnchanged, Others, hookVars, Hook!NewHookSession,
     Hook!OnMsg, Hook!OnStop, Hook!BeginWalk
<1>5. CASE Elsewhere
  BY <1>3, <1>4, <1>5 DEF Elsewhere
<1>6. CASE Clean
  BY <1>3, <1>6 DEF Clean, HookUnchanged, hookVars
<1>7. ASSUME NEW p \in Publishers, PublisherBegins(p) \/ PublisherStep(p) \/ PublisherClient(p)
      PROVE  CallingOK'
  BY <1>3, <1>4, <1>7 DEF PublisherBegins, PublisherStep, PublisherClient
<1>8. ASSUME NEW c \in Subscribers, ViewerArrives(c) \/ ViewerStep(c) \/ ViewerClient(c)
      PROVE  CallingOK'
  <2>1. UNCHANGED calling
    BY <1>8 DEF ViewerArrives, ViewerStep, ViewerClient, Others
  <2>2. UNCHANGED at \/ Hook!AddConsumer(c) \/ Hook!RemoveConsumer(c) \/ Hook!GetHookSession(c)
    <3>1. UNCHANGED hookVars => UNCHANGED at
      BY DEF hookVars
    <3>2. WhepHandler(c) \/ WhepLoop(c) =>
            UNCHANGED hookVars \/ Hook!AddConsumer(c) \/ Hook!RemoveConsumer(c)
      BY DEF WhepHandler, WhepLoop, HookUnchanged
    <3>3. JessibucaHandler(c) \/ JessibucaLoop(c) =>
            UNCHANGED hookVars \/ Hook!AddConsumer(c) \/ Hook!RemoveConsumer(c)
      BY DEF JessibucaHandler, JessibucaLoop, HookUnchanged
    <3>4. Fmp4Handler(c) \/ SrtHandler(c) =>
            UNCHANGED hookVars \/ Hook!AddConsumer(c) \/ Hook!RemoveConsumer(c)
      BY DEF Fmp4Handler, SrtHandler, HookUnchanged
    <3>. QED BY <1>8, <3>1, <3>2, <3>3, <3>4 DEF ViewerArrives, ViewerStep, ViewerClient, HookUnchanged
  <2>3. UNCHANGED at
    BY <2>2 DEF Hook!AddConsumer, Hook!RemoveConsumer, Hook!GetHookSession, Hook!walkVars
  <2>. QED BY <1>3, <2>1, <2>3
<1>9. ASSUME NEW c \in Subscribers \cup Publishers, Callback(c)
      PROVE  CallingOK'
  BY <1>3, <1>9 DEF Callback, HookUnchanged, Others, hookVars
<1>. QED BY <1>1, <1>2, <1>5, <1>6, <1>7, <1>8, <1>9 DEF Next

LEMMA KeptStep ==
  ASSUME Sound, H!BaseInv, H!GotInv, Kept, CallingOK, [Next]_vars
  PROVE  Sound' /\ H!BaseInv' /\ H!GotInv' /\ Kept' /\ CallingOK'
<1>1. Sound' /\ HookStep
  BY SoundStep
<1>2. [H!Next]_(H!vars)
  <2>1. UNCHANGED hookVars => UNCHANGED H!vars
    BY DEF hookVars, H!vars, H!cacheVars, H!walkVars, H!subVars
  <2>. QED BY <1>1, <2>1, SameNext DEF HookStep
<1>3. H!BaseInv' /\ H!GotInv'
  BY <1>2, FanOutAssumption, H!BaseStep, H!GotStep
<1>4. UNCHANGED setup
  <2>1. CASE LalStep
    BY <2>1, LalStepMaps
  <2>2. CASE Elsewhere \/ Clean \/ UNCHANGED vars
    BY <2>2 DEF Elsewhere, Clean, BeginStream, BeginMsg, EndStream, vars
  <2>3. CASE \E c \in Subscribers : ViewerArrives(c) \/ ViewerStep(c) \/ ViewerClient(c)
    BY <2>3, ViewerMaps
  <2>4. CASE \E p \in Publishers : PublisherBegins(p) \/ PublisherStep(p) \/ PublisherClient(p)
    BY <2>4, PublisherMaps
  <2>5. CASE \E c \in Subscribers \cup Publishers : Callback(c)
    BY <2>5, CallbackMaps DEF Clients
  <2>. QED BY <2>1, <2>2, <2>3, <2>4, <2>5 DEF Next
<1>5. CallingOK'
  BY <1>4, CallingStep
<1>6. ASSUME NEW c \in Subscribers, ViewerActs(c)
      PROVE  Kept'
  BY <1>3, <1>6, KeptViewer DEF Now
<1>7. ASSUME NEW p \in Publishers,
             PublisherBegins(p) \/ PublisherStep(p) \/ PublisherClient(p)
      PROVE  Kept'
  <2>1. Only(p)
    <3>1. setup.publisher \notin {"whip", "srt"} =>
            ~(PublisherBegins(p) \/ PublisherStep(p) \/ PublisherClient(p))
      BY DEF PublisherBegins, PublisherStep, PublisherClient
    <3>2. setup.publisher = "srt" => Only(p)
      BY <1>7, SrtPubOnly DEF PublisherBegins, PublisherStep, PublisherClient
    <3>3. setup.publisher = "whip" => Only(p)
      BY <1>7, PeerOnly DEF PublisherBegins, PublisherStep, PublisherClient, Whip!NewWhipSession,
         Whip!GetAnswerSDP, Whip!TakePkt, Whip!TakeClose, Whip!UnPack, Only
    <3>. QED BY <1>7, <3>1, <3>2, <3>3
  <2>. QED BY <1>4, <1>7, <2>1, KeptPublisher
<1>8. ASSUME NEW p \in Publishers, Callback(p), p \notin Subscribers
      PROVE  Kept'
  <2>1. /\ setup.publisher = "whip" /\ Whip!CallbackSends(p, Whip!CloseSize)
        /\ Calm /\ UNCHANGED hookVars
    BY <1>8 DEF Callback, HookUnchanged, Others, hookVars, Calm
  <2>. QED BY <1>4, <2>1, PeerOnly, KeptPublisher
<1>9. Kept'
  <2>1. CASE LalStep
    BY <1>6, <2>1, KeptOther DEF LalStep, ViewerActs
  <2>2. CASE Elsewhere \/ Clean
    BY <2>2, KeptOther
  <2>3. CASE UNCHANGED vars
    <3>1. UNCHANGED <<st, out, got, sub, setup, at, hist, msg, owner>>
      BY <2>3 DEF vars, hookVars, sessionVars
    <3>2. \A c \in Subscribers : got'[c] \in Seq(Given) /\ ViewerOK(c)'
      BY <3>1, ViewerRests
    <3>3. \A p \in Publishers : WhipOK(p) => WhipOK(p)'
      BY <3>1, WhipRests
    <3>4. \A p \in Publishers : PublisherOK(p)'
      BY <3>1, <3>3 DEF Kept, PublisherOK
    <3>. QED BY <3>1, <3>2, <3>4 DEF Kept
  <2>4. CASE \E c \in Subscribers : ViewerArrives(c) \/ ViewerStep(c) \/ ViewerClient(c)
    BY <1>6, <2>4 DEF ViewerActs
  <2>5. CASE \E c \in Subscribers \cup Publishers : Callback(c)
    BY <1>6, <1>8, <2>5 DEF ViewerActs
  <2>. QED BY <1>7, <2>1, <2>2, <2>3, <2>4, <2>5 DEF Next
<1>. QED BY <1>1, <1>3, <1>5, <1>9

\* What the invariant says of each protocol.
LEMMA ConservesNow ==
  ASSUME Sound, H!BaseInv, Kept
  PROVE  NothingLostOnTheWay
<1>1. ASSUME NEW c \in Subscribers, st[c].pc \notin {"idle", "new", "half", "answered", "refused", "found"},
             setup.viewer = "whep"
      PROVE  WhepConserves(c)
  <2>. DEFINE r == st[c]
  <2>1. WhepOK(r, out[c], got[c], sub[c])
    BY <1>1 DEF Kept, ViewerOK
  <2>2. r \in WhepRecord
    BY <1>1, <2>1, WhepIdle
  <2>3. /\ out[c] \in Seq(WhepPacket) /\ Both(out[c], r.box) = Cores(OfKinds(got[c], WhepKinds(r)))
        /\ \A i \in 1 .. Len(out[c]) : out[c][i].bytes = BytesOf(out[c][i], r.video)
    <3>1. r # NoSession /\ r.pc \in {"run", "returned"}
      BY <1>1, <2>2 DEF WhepRecord, NoSession
    <3>. QED BY <2>1, <3>1 DEF WhepOK
  <2>4. DOMAIN out[c] = 1 .. Len(out[c])
    BY <2>3
  <2>5. \A i \in 1 .. Len(out[c]) :
          ~(IsVideo(out[c][i]) /\ r.video = "hevc") => out[c][i].bytes = FrameSize[out[c][i].seq]
    <3>. SUFFICES ASSUME NEW i \in 1 .. Len(out[c]), ~(IsVideo(out[c][i]) /\ r.video = "hevc")
                  PROVE  out[c][i].bytes = FrameSize[out[c][i].seq]
      OBVIOUS
    <3>1. out[c][i].bytes = FrameSize[out[c][i].seq] - 0
      BY <2>3 DEF BytesOf
    <3>2. out[c][i] \in WhepPacket
      BY <2>3
    <3>3. out[c][i].bytes \in Int
      BY <3>2 DEF WhepPacket
    <3>4. FrameSize[out[c][i].seq] \in Nat
      <4>1. out[c][i].seq \in 1 .. MaxMsgs
        BY <3>2 DEF WhepPacket
      <4>2. FrameSize \in Seq(Nat) /\ Len(FrameSize) >= MaxMsgs /\ MaxMsgs \in Nat
        BY SessionsAssumption DEF SessionsAssumption
      <4>3. \A n \in 1 .. Len(FrameSize) : FrameSize[n] \in Nat
        BY <4>2
      <4>4. out[c][i].seq \in 1 .. Len(FrameSize)
        BY <4>1, <4>2
      <4>. QED BY <4>3, <4>4
    <3>. QED BY <3>1, <3>4
  <2>. QED BY <2>3, <2>4, <2>5 DEF WhepConserves, Both, Picked, WhepKinds
<1>2. ASSUME NEW c \in Subscribers, setup.viewer = "jessibuca"
      PROVE  JessibucaConserves(c)
  <2>. DEFINE r == st[c]
  <2>1. JessibucaOK(r, out[c], got[c], sub[c]) /\ got[c] \in Seq(Given)
    BY <1>2 DEF Kept, ViewerOK
  <2>2. OfKinds(got[c], MsgKinds) = got[c]
    <3>1. \A e \in Given : e.kind \in MsgKinds
      BY DEF Given
    <3>. QED BY <2>1, <3>1, OfKindsAll
  <2>3. SUFFICES ASSUME r.dc, r.pc \in {"joined", "headless", "loop"}
                 PROVE  Cores((IF r.pc = "loop" THEN Tail(out[c]) ELSE <<>>) \o r.box) = Cores(got[c])
    BY <2>2 DEF JessibucaConserves, Picked
  <2>4. r # NoSession /\ r \in JessibucaRecord
    BY <2>1, <2>3 DEF JessibucaOK, NoSession
  <2>5. CASE r.pc = "loop"
    BY <2>1, <2>4, <2>5 DEF JessibucaOK, Both
  <2>6. CASE r.pc \in {"joined", "headless"}
    <3>1. Cores(r.box) = Cores(got[c]) /\ r.box \in Seq(Given)
      BY <2>1, <2>3, <2>4, <2>6 DEF JessibucaOK, JessibucaRecord
    <3>2. <<>> \o r.box = r.box
      BY <3>1
    <3>. QED BY <2>6, <3>1, <3>2
  <2>. QED BY <2>3, <2>5, <2>6
<1>3. ASSUME NEW c \in Subscribers, st[c].pc \notin {"idle", "new", "half", "answered", "refused", "found"},
             setup.viewer = "fmp4"
      PROVE  Fmp4Conserves(c)
  <2>. DEFINE r == st[c]
  <2>1. Fmp4OK(r, out[c], got[c], sub[c])
    BY <1>3 DEF Kept, ViewerOK
  <2>2. r # NoSession /\ r \in Fmp4Record /\ out[c] \in Seq(Fmp4Box)
    BY <1>3, <2>1 DEF Fmp4OK, NoSession
  <2>3. SUFFICES ASSUME r.pc # "closed"
                 PROVE  /\ Samples(c, "video") \o r.vfragment.samples = Picked(c, VideoKinds)
                        /\ Samples(c, "audio") \o r.afragment.samples = Picked(c, {"aac", "aacHeader"})
                        /\ \A i, j \in DOMAIN out[c] : out[c][i].number = out[c][j].number => i = j
    BY DEF Fmp4Conserves
  <2>4. Fmp4Good(r, out[c], got[c])
    BY <1>3, <2>1, <2>2, <2>3 DEF Fmp4OK, Fmp4Record
  <2>5. DOMAIN out[c] = 1 .. Len(out[c])
    BY <2>2
  <2>6. \A box : Samples(c, box) = Concatenation(Boxed(out[c], box))
    BY <2>5, Zenon DEF Samples, Boxed
  <2>. QED BY <2>4, <2>5, <2>6 DEF Fmp4Good, Numbered, Picked
<1>4. ASSUME NEW c \in Subscribers, setup.viewer = "srt"
      PROVE  SrtConserves(c)
  <2>1. SrtOK(st[c], out[c], got[c], sub[c])
    BY <1>4 DEF Kept, ViewerOK
  <2>2. SUFFICES ASSUME st[c].pc = "run", st[c].conn \in {"open", "left"}
                 PROVE  Both(out[c], st[c].sendBuf)
                          = Cores(OfKinds(SubSeq(got[c], st[c].missed + 1, Len(got[c])), SrtKinds(st[c])))
    BY DEF SrtConserves, SrtKinds, Both
  <2>. QED BY <2>1, <2>2 DEF SrtOK, SrtGood, NoSession
<1>5. ASSUME NEW p \in Publishers, setup.publisher = "whip"
      PROVE  WhipConserves(p)
  <2>. DEFINE q == st[p].pktChan
  <2>1. SUFFICES ASSUME st[p].pc = "run"
                 PROVE  out[p] = hist \o (IF at = "OnMsg" THEN <<msg>> ELSE <<>>) \o q
    BY DEF WhipConserves
  <2>2. WhipOK(p) /\ st[p] # NoSession
    BY <1>5, <2>1 DEF Kept, PublisherOK, NoSession
  <2>3. out[p] = Fed \o q
    BY <2>1, <2>2 DEF WhipOK
  <2>4. hist \in Seq(Message)
    BY FedFacts
  <2>5. Fed = hist \o (IF at = "OnMsg" THEN <<msg>> ELSE <<>>)
    <3>1. Append(hist, msg) = hist \o <<msg>>
      BY <2>4, AppendLast
    <3>2. hist \o <<>> = hist
      BY <2>4
    <3>. QED BY <3>1, <3>2 DEF Fed
  <2>. QED BY <2>3, <2>5
<1>. QED BY <1>1, <1>2, <1>3, <1>4, <1>5 DEF NothingLostOnTheWay

Inv == Sound /\ H!BaseInv /\ H!GotInv /\ Kept /\ CallingOK

LEMMA InvAlways == Spec => []Inv
<1>1. Init => Inv
  <2>1. Init => H!BaseInv /\ H!GotInv
    BY FanOutAssumption, SameInit, H!BaseInit, H!GotInit DEF Init
  <2>. QED BY <2>1, SoundInit, KeptInit DEF Inv
<1>2. Inv /\ [Next]_vars => Inv'
  BY KeptStep DEF Inv
<1>. QED BY <1>1, <1>2, PTL DEF Spec

\* Between the hook session and the packets, samples and writes made for a client of any
\* protocol, and between the track of a WHIP client and lal, no message is lost, repeated or
\* moved, for every size of the channels and buffers between them and every turn their
\* goroutines take.  (What a connection loses of the writes made to it is not in this, nor
\* what becomes of a frame's bytes for Safari.)
THEOREM NothingLostAlways == Spec => []NothingLostOnTheWay
<1>1. Inv => NothingLostOnTheWay
  BY ConservesNow DEF Inv
<1>. QED BY <1>1, InvAlways, PTL

-----------------------------------------------------------------------------
(***************************************************************************)
(* HLS: what the session of the stream h has kept or written.              *)
(***************************************************************************)

\* OfKinds twice is OfKinds once when the second has no kind of its own.
LEMMA OfKindsTwice ==
  ASSUME NEW S, NEW s \in Seq(S), NEW K, NEW L, L \subseteq K
  PROVE  OfKinds(OfKinds(s, K), L) = OfKinds(s, L)
<1>. DEFINE P(t) == OfKinds(OfKinds(t, K), L) = OfKinds(t, L)
            T == {n \in Nat : \A t \in Seq(S) : Len(t) = n => P(t)}
<1>1. 0 \in T
  <2>1. \A t \in Seq(S) : Len(t) = 0 => t = <<>>
    OBVIOUS
  <2>2. P(<<>>)
    BY OfKindsEmpty
  <2>. HIDE DEF P
  <2>. QED BY <2>1, <2>2
<1>2. ASSUME NEW n \in Nat, n \in T
      PROVE  n + 1 \in T
  <2>1. ASSUME NEW t \in Seq(S), Len(t) = n + 1
        PROVE  P(t)
    <3>1. PICK u \in Seq(S), e \in S : t = Append(u, e) /\ Len(u) = n
      BY <2>1, LastOut
    <3>2. P(u)
      BY <1>2, <3>1
    <3>3. PICK v \in Seq(S) : v = OfKinds(u, K)
      BY OfKindsIn
    <3>4. /\ OfKinds(t, K) = IF e.kind \in K THEN Append(v, e) ELSE v
          /\ OfKinds(t, L) = IF e.kind \in L THEN Append(OfKinds(u, L), e) ELSE OfKinds(u, L)
          /\ OfKinds(Append(v, e), L) = IF e.kind \in L THEN Append(OfKinds(v, L), e) ELSE OfKinds(v, L)
      BY <3>1, <3>3, OfKindsAppend, SMTT(30)
    <3>5. OfKinds(v, L) = OfKinds(u, L)
      BY <3>2, <3>3
    <3>. QED BY <3>4, <3>5
  <2>. HIDE DEF P
  <2>. QED BY <2>1
<1>. QED
  <2>. HIDE DEF T
  <2>0. Len(s) \in Nat
    OBVIOUS
  <2>1. Len(s) \in T
    BY <1>1, <1>2, <2>0, FanOutAssumption, H!SetInduction
  <2>2. \A t \in Seq(S) : Len(t) = Len(s) => P(t)
    BY <2>1 DEF T
  <2>3. P(s)
    <3>. HIDE DEF P
    <3>. QED BY <2>2
  <2>. QED BY <2>3

\* The messages of the stream h are numbered; m is the next.
Numbers(h)  == h \in Seq(Message) /\ \A p \in 1 .. Len(h) : h[p].seq = p
NextOf(h, m) == Numbers(h) /\ m \in Message /\ m.seq = Len(h) + 1

\* The number of the last video header before message n of the stream h, 0 for none
Headers(h, n) == {p \in DOMAIN h : h[p].kind = "videoHeader" /\ h[p].seq < n}
LastIn(S) == CHOOSE p \in S : \A q \in S : q <= p
HeaderAt(h, n) == IF Headers(h, n) = {} THEN 0 ELSE h[LastIn(Headers(h, n))].seq

LEMMA HeaderNone ==
  ASSUME NEW n
  PROVE  HeaderAt(<<>>, n) = 0
BY DEF HeaderAt, Headers

LEMMA NextFacts ==
  ASSUME NEW h, NEW m, NextOf(h, m)
  PROVE  /\ Len(h) \in Nat /\ DOMAIN h = 1 .. Len(h) /\ DOMAIN Append(h, m) = 1 .. Len(h) + 1
         /\ \A p \in 1 .. Len(h) : Append(h, m)[p] = h[p]
         /\ Append(h, m)[Len(h) + 1] = m /\ Len(Append(h, m)) = Len(h) + 1
         /\ Numbers(Append(h, m)) /\ h \in Seq(Message) /\ m \in Message
BY DEF NextOf, Numbers

\* A message changes no header before it,
LEMMA HeaderSame ==
  ASSUME NEW h, NEW m, NextOf(h, m), NEW n \in Nat, n <= Len(h) + 1
  PROVE  HeaderAt(Append(h, m), n) = HeaderAt(h, n)
<1>1. Headers(Append(h, m), n) = Headers(h, n)
  BY NextFacts DEF Headers, NextOf
<1>2. \A p \in Headers(h, n) : Append(h, m)[p] = h[p]
  BY NextFacts DEF Headers
<1>3. Headers(h, n) # {} => LastIn(Headers(h, n)) \in Headers(h, n)
  <2>1. Headers(h, n) \in SUBSET (0 .. Len(h)) /\ Len(h) \in Nat
    BY NextFacts DEF Headers
  <2>2. Headers(h, n) # {} => \E p \in Headers(h, n) : \A q \in Headers(h, n) : q <= p
    BY <2>1, FanOutAssumption, H!MaxExists
  <2>. QED BY <2>2, Zenon DEF LastIn
<1>. QED BY <1>1, <1>2, <1>3, Zenon DEF HeaderAt

\* and is itself the last one after it when it is one.
LEMMA HeaderNext ==
  ASSUME NEW h, NEW m, NextOf(h, m)
  PROVE  HeaderAt(Append(h, m), Len(Append(h, m)) + 1)
           = IF m.kind = "videoHeader" THEN m.seq ELSE HeaderAt(h, Len(h) + 1)
<1>. DEFINE k == Append(h, m)
            n == Len(h) + 1
<1>1. n \in Nat /\ Len(k) + 1 = n + 1
  BY NextFacts
<1>2. CASE m.kind # "videoHeader"
  <2>1. Headers(k, n + 1) = Headers(k, n)
    BY <1>1, <1>2, NextFacts DEF Headers, NextOf, Numbers
  <2>2. HeaderAt(k, n + 1) = HeaderAt(k, n)
    BY <2>1, Zenon DEF HeaderAt
  <2>. QED BY <1>1, <1>2, <2>2, HeaderSame
<1>3. CASE m.kind = "videoHeader"
  <2>1. n \in Headers(k, n + 1) /\ \A q \in Headers(k, n + 1) : q <= n /\ q \in Int
    BY <1>1, <1>3, NextFacts DEF Headers, NextOf, Numbers
  <2>2. PICK B : B = Headers(k, n + 1)
    OBVIOUS
  <2>3. n \in B /\ \A q \in B : q <= n /\ q \in Int
    BY <2>1, <2>2
  <2>4. LastIn(B) = n
    <3>1. LastIn(B) \in B /\ \A q \in B : q <= LastIn(B)
      BY <2>3, Zenon DEF LastIn
    <3>. QED BY <1>1, <2>3, <3>1
  <2>5. HeaderAt(k, n + 1) = k[n].seq
    BY <2>2, <2>3, <2>4, Zenon DEF HeaderAt
  <2>6. k[n] = m
    BY NextFacts
  <2>. QED BY <1>1, <1>3, <2>5, <2>6
<1>. QED BY <1>2, <1>3

\* The access units of the messages of some kinds
UnitOf(h, m) ==
  [kind |-> m.kind, seq |-> m.seq, header |-> IF m.kind = "key" THEN HeaderAt(h, m.seq) ELSE 0]
UnitsOf(h, K) == [i \in 1 .. Len(OfKinds(h, K)) |-> UnitOf(h, OfKinds(h, K)[i])]

LEMMA UnitsNone ==
  ASSUME NEW K
  PROVE  UnitsOf(<<>>, K) = <<>>
BY OfKindsEmpty DEF UnitsOf

LEMMA UnitsMore ==
  ASSUME NEW h, NEW m, NextOf(h, m), NEW K
  PROVE  UnitsOf(Append(h, m), K)
           = IF m.kind \in K THEN Append(UnitsOf(h, K), UnitOf(Append(h, m), m)) ELSE UnitsOf(h, K)
<1>. DEFINE k == Append(h, m)
            E == {e \in Message : e.seq \in 1 .. Len(h)}
<1>1. h \in Seq(E) /\ h \in Seq(Message) /\ m \in Message
  <2>1. \A p \in 1 .. Len(h) : h[p] \in E
    BY NextFacts DEF NextOf, Numbers
  <2>. QED BY <2>1, NextFacts
<1>2. PICK o \in Seq(E) : o = OfKinds(h, K)
  BY <1>1, OfKindsIn
<1>3. \A e \in E : UnitOf(k, e) = UnitOf(h, e)
  <2>1. \A e \in E : e.seq \in Nat /\ e.seq <= Len(h) + 1
    BY NextFacts
  <2>2. \A e \in E : HeaderAt(k, e.seq) = HeaderAt(h, e.seq)
    BY <2>1, HeaderSame
  <2>. QED BY <2>2, Zenon DEF UnitOf
<1>4. OfKinds(k, K) = IF m.kind \in K THEN Append(o, m) ELSE o
  BY <1>1, <1>2, OfKindsAppend
<1>5. \A i \in 1 .. Len(o) : UnitOf(k, o[i]) = UnitOf(h, o[i])
  <2>1. \A i \in 1 .. Len(o) : o[i] \in E
    BY <1>2
  <2>. QED BY <1>3, <2>1, Zenon
<1>6. UnitsOf(h, K) = [i \in 1 .. Len(o) |-> UnitOf(h, o[i])]
  BY <1>2, Zenon DEF UnitsOf
<1>. HIDE DEF E
<1>7. CASE m.kind \notin K
  <2>1. UnitsOf(k, K) = [i \in 1 .. Len(o) |-> UnitOf(k, o[i])]
    BY <1>4, <1>7, Zenon DEF UnitsOf
  <2>2. [i \in 1 .. Len(o) |-> UnitOf(k, o[i])] = [i \in 1 .. Len(o) |-> UnitOf(h, o[i])]
    BY <1>5, Zenon
  <2>. QED BY <1>6, <1>7, <2>1, <2>2, Zenon
<1>8. CASE m.kind \in K
  <2>1. PICK a : a = Append(o, m)
    OBVIOUS
  <2>2. UnitsOf(k, K) = [i \in 1 .. Len(a) |-> UnitOf(k, a[i])]
    BY <1>4, <1>8, <2>1, Zenon DEF UnitsOf
  <2>3. Len(a) = Len(o) + 1 /\ a[Len(o) + 1] = m /\ \A i \in 1 .. Len(o) : a[i] = o[i]
    BY <1>2, <2>1
  <2>4. PICK F : \A i \in 1 .. Len(a) : F[i] = UnitOf(k, a[i])
    <3>. WITNESS [i \in 1 .. Len(a) |-> UnitOf(k, a[i])]
    <3>. QED OBVIOUS
  <2>. HIDE DEF k
  <2>5. UnitsOf(k, K) = [i \in 1 .. Len(o) + 1 |-> F[i]]
    BY <2>2, <2>3, <2>4
  <2>6. \A i \in 1 .. Len(o) : F[i] = UnitOf(h, o[i])
    BY <1>2, <1>5, <2>3, <2>4
  <2>7. F[Len(o) + 1] = UnitOf(k, m)
    BY <1>2, <2>3, <2>4
  <2>8. PICK f : f = UnitsOf(h, K)
    OBVIOUS
  <2>9. f = [i \in 1 .. Len(o) |-> F[i]]
    BY <1>6, <2>6, <2>8
  <2>10. Append(f, F[Len(o) + 1]) = [i \in 1 .. Len(o) + 1 |-> F[i]]
    BY <1>2, <2>9
  <2>. QED BY <1>8, <2>5, <2>7, <2>8, <2>10 DEF k
<1>. QED BY <1>7, <1>8

\* The record of a session, with the codec of the raw audio of its stream.
Units == [kind : MsgKinds, seq : Nat, header : Nat]
HlsRecord(raw) ==
  [done : BOOLEAN, data : Seq(Units), video : BOOLEAN, audio : {"none", "aac", raw}, header : Nat,
   asc : Nat, muxed : Seq(Units), muxer : {"new", "started", "closed"}]

\* The kinds that a session keeps before it starts its muxer.
EarlyKinds(raw) == {"key", "inter", "aac"} \cup (IF raw = "opus" THEN {"rawAudio"} ELSE {})

\* Session s of the stream h
HlsOK(s, h, raw) ==
  /\ s \in HlsRecord(raw)
  /\ s.header = HeaderAt(h, Len(h) + 1)
  /\ ~s.done => \A K \in SUBSET EarlyKinds(raw) : OfKinds(s.data, K) = UnitsOf(h, K)
  /\ s.done => \A K \in SUBSET (EarlyKinds(raw) \cap Hls!HasTrack(s)) :
                 OfKinds(s.muxed, K) = UnitsOf(h, K)

LEMMA HlsFirst ==
  ASSUME NEW raw
  PROVE  HlsOK(Hls!NewSession, <<>>, raw)
<1>1. Len(<<>>) = 0 /\ \A K : OfKinds(<<>>, K) = UnitsOf(<<>>, K)
  BY OfKindsEmpty, UnitsNone
<1>2. HeaderAt(<<>>, Len(<<>>) + 1) = 0
  BY HeaderNone
<1>. QED BY <1>1, <1>2 DEF HlsOK, HlsRecord, Hls!NewSession

\* The unit of a message is made with the header the session has.
LEMMA UnitIs ==
  ASSUME NEW raw, NEW s, NEW h, HlsOK(s, h, raw), NEW m, NextOf(h, m)
  PROVE  /\ m.kind # "videoHeader" => Hls!Unit(s, m) = UnitOf(Append(h, m), m)
         /\ Hls!Unit(s, m) \in Units
<1>1. HeaderAt(Append(h, m), m.seq) = HeaderAt(h, Len(h) + 1)
  <2>1. m.seq \in Nat /\ m.seq <= Len(h) + 1 /\ m.seq = Len(h) + 1
    BY NextFacts DEF NextOf, Message
  <2>. QED BY <2>1, HeaderSame
<1>2. s.header \in Nat /\ s.header = HeaderAt(h, Len(h) + 1)
  BY DEF HlsOK, HlsRecord
<1>. QED BY <1>1, <1>2 DEF Hls!Unit, UnitOf, Units, NextOf, Message

\* One more unit, or none, in a sequence that has the stream h
LEMMA MoreUnits ==
  ASSUME NEW h, NEW m, NextOf(h, m), NEW d \in Seq(Units), NEW u \in Units, u.kind = m.kind,
         NEW K, OfKinds(d, K) = UnitsOf(h, K)
  PROVE  /\ u = UnitOf(Append(h, m), m) =>
              OfKinds(Append(d, u), K) = UnitsOf(Append(h, m), K)
         /\ m.kind \notin K => /\ OfKinds(d, K) = UnitsOf(Append(h, m), K)
                               /\ OfKinds(Append(d, u), K) = UnitsOf(Append(h, m), K)
<1>1. OfKinds(Append(d, u), K) = IF m.kind \in K THEN Append(OfKinds(d, K), u) ELSE OfKinds(d, K)
  BY OfKindsAppend
<1>2. UnitsOf(Append(h, m), K)
        = IF m.kind \in K THEN Append(UnitsOf(h, K), UnitOf(Append(h, m), m)) ELSE UnitsOf(h, K)
  BY UnitsMore
<1>. QED BY <1>1, <1>2

\* A message before the muxer is started,
LEMMA EarlyKeeps ==
  ASSUME NEW raw, NEW s, NEW h, HlsOK(s, h, raw), ~s.done, NEW m, NextOf(h, m)
  PROVE  HlsOK(Hls!Early(s, m, raw), Append(h, m), raw) /\ ~Hls!Early(s, m, raw).done
<1>. DEFINE e == Hls!Early(s, m, raw)
            k == Append(h, m)
            u == Hls!Unit(s, m)
<1>1. s \in HlsRecord(raw) /\ m.kind \in MsgKinds /\ m.seq \in Nat /\ u \in Units /\ u.kind = m.kind
  BY UnitIs DEF HlsOK, NextOf, Message, Hls!Unit
<1>2. s.header \in Nat /\ s.header = HeaderAt(h, Len(h) + 1)
  BY DEF HlsOK, HlsRecord
<1>3. PICK d \in Seq(Units) : d = Append(s.data, u)
  <2>1. s.data \in Seq(Units)
    BY <1>1 DEF HlsRecord
  <2>2. \A q \in Seq(Units), v \in Units : Append(q, v) \in Seq(Units)
    OBVIOUS
  <2>. QED BY <1>1, <2>1, <2>2, Zenon
<1>4. /\ e \in HlsRecord(raw) /\ ~e.done
      /\ e.header = IF m.kind = "videoHeader" THEN m.seq ELSE s.header
      /\ e.data = IF m.kind \in EarlyKinds(raw) THEN d ELSE s.data
  <2>. DEFINE Like(r, header, q) ==
                r \in HlsRecord(raw) /\ ~r.done /\ r.header = header /\ r.data = q
  <2>1. PICK v : v = [s EXCEPT !.video = TRUE, !.header = m.seq] /\ Like(v, m.seq, s.data)
    <3>1. PICK x : x = [s EXCEPT !.video = TRUE, !.header = m.seq]
      OBVIOUS
    <3>2. Like(x, m.seq, s.data)
      BY <1>1, <1>3, <3>1 DEF HlsRecord
    <3>. HIDE DEF Like
    <3>. QED BY <3>1, <3>2, Zenon
  <2>2. PICK f : f = [s EXCEPT !.data = d] /\ Like(f, s.header, d)
    <3>1. PICK x : x = [s EXCEPT !.data = d]
      OBVIOUS
    <3>2. Like(x, s.header, d)
      BY <1>1, <1>3, <3>1 DEF HlsRecord
    <3>. HIDE DEF Like
    <3>. QED BY <3>1, <3>2, Zenon
  <2>3. PICK c : c = [s EXCEPT !.audio = "aac", !.asc = m.seq] /\ Like(c, s.header, s.data)
    <3>1. PICK x : x = [s EXCEPT !.audio = "aac", !.asc = m.seq]
      OBVIOUS
    <3>2. Like(x, s.header, s.data)
      BY <1>1, <1>3, <3>1 DEF HlsRecord
    <3>. HIDE DEF Like
    <3>. QED BY <3>1, <3>2, Zenon
  <2>4. PICK a : a = [s EXCEPT !.audio = "aac", !.data = d] /\ Like(a, s.header, d)
    <3>1. PICK x : x = [s EXCEPT !.audio = "aac", !.data = d]
      OBVIOUS
    <3>2. Like(x, s.header, d)
      BY <1>1, <1>3, <3>1 DEF HlsRecord
    <3>. HIDE DEF Like
    <3>. QED BY <3>1, <3>2, Zenon
  <2>5. PICK o : o = [s EXCEPT !.audio = raw, !.data = d] /\ Like(o, s.header, d)
    <3>1. PICK x : x = [s EXCEPT !.audio = raw, !.data = d]
      OBVIOUS
    <3>2. Like(x, s.header, d)
      BY <1>1, <1>3, <3>1 DEF HlsRecord
    <3>. HIDE DEF Like
    <3>. QED BY <3>1, <3>2, Zenon
  <2>6. PICK g : g = [s EXCEPT !.audio = raw] /\ Like(g, s.header, s.data)
    <3>1. PICK x : x = [s EXCEPT !.audio = raw]
      OBVIOUS
    <3>2. Like(x, s.header, s.data)
      BY <1>1, <1>3, <3>1 DEF HlsRecord
    <3>. HIDE DEF Like
    <3>. QED BY <3>1, <3>2, Zenon
  <2>7. Like(s, s.header, s.data)
    BY <1>1 DEF HlsOK
  <2>8. e = CASE m.kind = "videoHeader"      -> v
              [] m.kind \in {"key", "inter"}  -> f
              [] m.kind = "aacHeader"         -> c
              [] m.kind = "aac"               -> a
              [] m.kind = "rawAudio" /\ raw = "opus" -> o
              [] m.kind = "rawAudio" /\ raw # "opus" -> g
              [] OTHER                        -> s
    BY <1>3, <2>1, <2>2, <2>3, <2>4, <2>5, <2>6, Zenon DEF Hls!Early
  <2>9. \/ m.kind = "videoHeader" /\ e = v
        \/ m.kind \in {"key", "inter"} /\ e = f
        \/ m.kind = "aacHeader" /\ e = c
        \/ m.kind = "aac" /\ e = a
        \/ m.kind = "rawAudio" /\ raw = "opus" /\ e = o
        \/ m.kind = "rawAudio" /\ raw # "opus" /\ e = g
        \/ m.kind \notin {"videoHeader", "key", "inter", "aacHeader", "aac", "rawAudio"} /\ e = s
    <3>. HIDE DEF e
    <3>. QED BY <2>8
  <2>. HIDE DEF e, Like
  <2>10. \/ m.kind = "videoHeader" /\ Like(e, m.seq, s.data)
         \/ m.kind # "videoHeader" /\ m.kind \in EarlyKinds(raw) /\ Like(e, s.header, d)
         \/ m.kind # "videoHeader" /\ m.kind \notin EarlyKinds(raw) /\ Like(e, s.header, s.data)
    BY <2>1, <2>2, <2>3, <2>4, <2>5, <2>6, <2>7, <2>9 DEF EarlyKinds
  <2>11. m.kind = "videoHeader" => m.kind \notin EarlyKinds(raw)
    BY DEF EarlyKinds
  <2>. QED BY <2>10, <2>11 DEF Like
<1>5. e.data = IF m.kind \in EarlyKinds(raw) THEN Append(s.data, u) ELSE s.data
  BY <1>3, <1>4
<1>6. e.header = HeaderAt(k, Len(k) + 1)
  BY <1>2, <1>4, HeaderNext
<1>7. ASSUME NEW K \in SUBSET EarlyKinds(raw)
      PROVE  OfKinds(e.data, K) = UnitsOf(k, K)
  <2>1. OfKinds(s.data, K) = UnitsOf(h, K) /\ s.data \in Seq(Units)
    BY <1>1 DEF HlsOK, HlsRecord
  <2>2. CASE m.kind \in EarlyKinds(raw)
    <3>1. u = UnitOf(k, m)
      BY <2>2, UnitIs DEF EarlyKinds
    <3>2. OfKinds(Append(s.data, u), K) = UnitsOf(k, K)
      BY <1>1, <2>1, <3>1, MoreUnits
    <3>. QED BY <1>5, <2>2, <3>2
  <2>3. CASE m.kind \notin EarlyKinds(raw)
    <3>1. m.kind \notin K
      BY <2>3
    <3>2. OfKinds(s.data, K) = UnitsOf(k, K)
      BY <1>1, <2>1, <3>1, MoreUnits
    <3>. QED BY <1>5, <2>3, <3>2
  <2>. QED BY <2>2, <2>3
<1>. HIDE DEF e, k
<1>8. HlsOK(e, k, raw)
  BY <1>4, <1>6, <1>7 DEF HlsOK
<1>. QED BY <1>4, <1>8 DEF e, k

\* the start of the muxer,
LEMMA DrainKeeps ==
  ASSUME NEW raw, NEW s, NEW h, HlsOK(s, h, raw), ~s.done
  PROVE  HlsOK(Hls!Drain(s), h, raw)
<1>. DEFINE e == Hls!Drain(s)
            o == Hls!OfKinds(s.data, Hls!HasTrack(s))
<1>1. s \in HlsRecord(raw)
  BY DEF HlsOK
<1>2. \A d, K : Hls!OfKinds(d, K) = OfKinds(d, K)
  BY Zenon DEF Hls!OfKinds, OfKinds
<1>3. o = OfKinds(s.data, Hls!HasTrack(s)) /\ s.data \in Seq(Units) /\ o \in Seq(Units)
  BY <1>1, <1>2, OfKindsIn DEF HlsRecord
<1>4. CASE e = s
  BY <1>4
<1>5. CASE e = [s EXCEPT !.done = TRUE, !.muxer = "started", !.muxed = o]
  <2>1. /\ e \in HlsRecord(raw) /\ e.done /\ e.header = s.header /\ e.muxed = o
        /\ e.video = s.video /\ e.audio = s.audio
    <3>. HIDE DEF e, o
    <3>. QED BY <1>1, <1>3, <1>5 DEF HlsRecord
  <2>2. Hls!HasTrack(e) = Hls!HasTrack(s)
    <3>. HIDE DEF e
    <3>. QED BY <2>1, Zenon DEF Hls!HasTrack
  <2>3. ASSUME NEW K \in SUBSET (EarlyKinds(raw) \cap Hls!HasTrack(s))
        PROVE  OfKinds(o, K) = UnitsOf(h, K)
    <3>1. OfKinds(o, K) = OfKinds(s.data, K)
      BY <1>3, OfKindsTwice
    <3>2. K \in SUBSET EarlyKinds(raw)
      OBVIOUS
    <3>. QED BY <3>1, <3>2 DEF HlsOK
  <2>. HIDE DEF e, o
  <2>4. HlsOK(e, h, raw)
    BY <2>1, <2>2, <2>3 DEF HlsOK
  <2>. QED BY <2>4 DEF e
<1>. QED BY <1>4, <1>5, Zenon DEF Hls!Drain

\* and a message after it.
LEMMA LaterKeeps ==
  ASSUME NEW raw, NEW s, NEW h, HlsOK(s, h, raw), s.done, NEW m, NextOf(h, m)
  PROVE  HlsOK(Hls!Later(s, m), Append(h, m), raw)
<1>. DEFINE e == Hls!Later(s, m)
            k == Append(h, m)
            u == Hls!Unit(s, m)
<1>1. s \in HlsRecord(raw) /\ m.kind \in MsgKinds /\ m.seq \in Nat /\ u \in Units /\ u.kind = m.kind
  BY UnitIs DEF HlsOK, NextOf, Message, Hls!Unit
<1>2. s.header \in Nat /\ s.header = HeaderAt(h, Len(h) + 1)
  BY DEF HlsOK, HlsRecord
<1>3. PICK d \in Seq(Units) : d = Append(s.muxed, u)
  <2>1. s.muxed \in Seq(Units)
    BY <1>1 DEF HlsRecord
  <2>2. \A q \in Seq(Units), v \in Units : Append(q, v) \in Seq(Units)
    OBVIOUS
  <2>. QED BY <1>1, <2>1, <2>2, Zenon
<1>4. e = CASE m.kind = "videoHeader"      -> [s EXCEPT !.header = m.seq]
            [] m.kind \in {"key", "inter"} -> [s EXCEPT !.muxed = d]
            [] OTHER -> IF s.audio \in {"aac", "opus"} THEN [s EXCEPT !.muxed = d] ELSE s
  BY <1>3, Zenon DEF Hls!Later
<1>5. /\ e \in HlsRecord(raw) /\ e.done /\ e.video = s.video /\ e.audio = s.audio
      /\ e.header = IF m.kind = "videoHeader" THEN m.seq ELSE s.header
      /\ \/ e.muxed = d /\ m.kind # "videoHeader"
         \/ e.muxed = s.muxed /\ m.kind \notin EarlyKinds(raw) \cap Hls!HasTrack(s)
  <2>. HIDE DEF e, u
  <2>1. CASE m.kind = "videoHeader"
    BY <1>1, <1>4, <2>1 DEF HlsRecord, EarlyKinds
  <2>2. CASE m.kind \in {"key", "inter"}
    BY <1>1, <1>4, <2>2 DEF HlsRecord
  <2>3. CASE m.kind \notin {"videoHeader", "key", "inter"} /\ s.audio \in {"aac", "opus"}
    BY <1>1, <1>4, <2>3 DEF HlsRecord
  <2>4. CASE m.kind \notin {"videoHeader", "key", "inter"} /\ s.audio \notin {"aac", "opus"}
    BY <1>1, <1>4, <2>4 DEF HlsRecord, Hls!HasTrack
  <2>. QED BY <2>1, <2>2, <2>3, <2>4
<1>6. e.header = HeaderAt(k, Len(k) + 1)
  BY <1>2, <1>5, HeaderNext
<1>7. Hls!HasTrack(e) = Hls!HasTrack(s)
  <2>. HIDE DEF e
  <2>. QED BY <1>5, Zenon DEF Hls!HasTrack
<1>8. ASSUME NEW K \in SUBSET (EarlyKinds(raw) \cap Hls!HasTrack(s))
      PROVE  OfKinds(e.muxed, K) = UnitsOf(k, K)
  <2>1. OfKinds(s.muxed, K) = UnitsOf(h, K) /\ s.muxed \in Seq(Units)
    BY <1>1 DEF HlsOK, HlsRecord
  <2>2. CASE e.muxed = d /\ m.kind # "videoHeader"
    <3>1. u = UnitOf(k, m)
      BY <2>2, UnitIs
    <3>2. OfKinds(Append(s.muxed, u), K) = UnitsOf(k, K)
      BY <1>1, <2>1, <3>1, MoreUnits
    <3>. QED BY <1>3, <2>2, <3>2
  <2>3. CASE e.muxed = s.muxed /\ m.kind \notin EarlyKinds(raw) \cap Hls!HasTrack(s)
    <3>1. m.kind \notin K
      BY <2>3
    <3>2. OfKinds(s.muxed, K) = UnitsOf(k, K)
      BY <1>1, <2>1, <3>1, MoreUnits
    <3>. QED BY <2>3, <3>2
  <2>. QED BY <1>5, <2>2, <2>3
<1>. HIDE DEF e, k
<1>9. HlsOK(e, k, raw)
  BY <1>5, <1>6, <1>7, <1>8 DEF HlsOK
<1>. QED BY <1>9 DEF e, k

LEMMA HlsKeeps ==
  ASSUME NEW raw, NEW s, NEW h, HlsOK(s, h, raw), NEW m, NextOf(h, m)
  PROVE  HlsOK(Hls!SessionOnMsg(s, m, raw), Append(h, m), raw)
<1>1. s.done => HlsOK(Hls!Later(s, m), Append(h, m), raw)
  BY LaterKeeps
<1>2. ~s.done => /\ HlsOK(Hls!Early(s, m, raw), Append(h, m), raw)
                 /\ HlsOK(Hls!Drain(Hls!Early(s, m, raw)), Append(h, m), raw)
  BY EarlyKeeps, DrainKeeps
<1>. QED BY <1>1, <1>2, Zenon DEF Hls!SessionOnMsg

-----------------------------------------------------------------------------
(***************************************************************************)
(* The HLS server along the steps of the program.                          *)
(***************************************************************************)

\* The stream as far as the HLS server has been called with it: it comes before the walk.
Sent == IF at = "OnMsg" THEN Append(hist, msg) ELSE hist
Running == at \in {"live", "OnMsg"}

HlsInv ==
  /\ DOMAIN hls = 1 .. MaxSessions
  /\ current \in {0, session} /\ invalid \subseteq 1 .. session /\ current \notin invalid
  /\ setup.hls /\ Running => current = session
  /\ current # 0 => setup.hls /\ Running /\ HlsOK(hls[current], Sent, setup.raw)

\* What the hook session says of the stream.
LEMMA StreamFacts ==
  ASSUME H!BaseInv
  PROVE  /\ Numbers(hist) /\ (at = "OnMsg" => NextOf(hist, msg))
         /\ session \in 0 .. MaxSessions /\ (Running => session # 0)
         /\ at \in {"gone", "live", "OnMsg", "OnStop"}
<1>1. H!TypeOK /\ H!WalkInv /\ H!StreamInv
  BY DEF H!BaseInv
<1>2. Message = H!Message /\ Message = H!Cache!Message
  BY Zenon DEF Message, H!Message, H!Cache!Message, MsgKinds, H!MsgKinds, H!Cache!MsgKinds,
     AudioKinds, H!AudioKinds, H!Cache!AudioKinds, VideoKinds, H!VideoKinds, H!Cache!VideoKinds
<1>3. hist \in Seq(Message)
  BY <1>1, <1>2 DEF H!TypeOK, H!Cache!TypeOK
<1>4. Numbers(hist) /\ Len(hist) = fed
  BY <1>1, <1>3 DEF H!StreamInv, H!IsStream, Numbers
<1>5. at = "OnMsg" => NextOf(hist, msg)
  BY <1>1, <1>2, <1>4 DEF H!WalkInv, NextOf
<1>6. /\ session \in 0 .. MaxSessions /\ (Running => session # 0)
      /\ at \in {"gone", "live", "OnMsg", "OnStop"}
  BY <1>1 DEF H!TypeOK, H!WalkInv, Running
<1>. QED BY <1>4, <1>5, <1>6

\* Steps that the server has no part in, and in which the stream stands still
Still == UNCHANGED <<hlsVars, setup, at, session, hist, msg>>

LEMMA HlsRests ==
  ASSUME HlsInv, Still
  PROVE  HlsInv'
<1>1. UNCHANGED <<current, invalid, hls, setup, at, session, hist, msg>>
  BY DEF Still, hlsVars
<1>2. Sent' = Sent /\ Running' = Running
  BY <1>1 DEF Sent, Running
<1>3. HlsOK(hls[current], Sent, setup.raw)' = HlsOK(hls'[current'], Sent', setup'.raw)
  BY DEF HlsOK
<1>. QED BY <1>1, <1>2, <1>3 DEF HlsInv

\* What a viewer has the hook session do leaves the stream alone.
LEMMA ViewerStill ==
  ASSUME NEW c \in Subscribers, ViewerActs(c), UNCHANGED setup
  PROVE  Still
<1>1. \/ Hook!Deliver(c) \/ Hook!StopConsumer(c) \/ Hook!GetHookSession(c)
      \/ Hook!AddConsumer(c) \/ Hook!RemoveConsumer(c) \/ UNCHANGED hookVars
      => UNCHANGED <<at, session, hist, msg>>
  BY DEF Hook!Deliver, Hook!StopConsumer, Hook!GetHookSession, Hook!AddConsumer,
     Hook!RemoveConsumer, hookVars, Hook!cacheVars, Hook!walkVars
<1>2. /\ WhepHandler(c) \/ WhepLoop(c) =>
           UNCHANGED hookVars \/ Hook!AddConsumer(c) \/ Hook!RemoveConsumer(c)
      /\ JessibucaHandler(c) \/ JessibucaLoop(c) =>
           UNCHANGED hookVars \/ Hook!AddConsumer(c) \/ Hook!RemoveConsumer(c)
      /\ Fmp4Handler(c) \/ SrtHandler(c) =>
           UNCHANGED hookVars \/ Hook!AddConsumer(c) \/ Hook!RemoveConsumer(c)
  BY DEF WhepHandler, WhepLoop, JessibucaHandler, JessibucaLoop, Fmp4Handler, SrtHandler,
     HookUnchanged
<1>3. CASE Deliver(c)
  BY <1>1, <1>3 DEF Deliver, Still
<1>4. CASE SrtFails(c) \/ CallOnStop(c) \/ Fmp4OnStop(c) \/ OnStopReturns(c)
  BY <1>1, <1>4 DEF SrtFails, CallOnStop, Fmp4OnStop, OnStopReturns, Still
<1>5. CASE ViewerArrives(c)
  BY <1>1, <1>5 DEF ViewerArrives, Others, Still
<1>6. CASE ViewerStep(c)
  <2>1. UNCHANGED hlsVars
    BY <1>6 DEF ViewerStep, Others
  <2>2. \/ WhepHandler(c) \/ WhepLoop(c) \/ JessibucaHandler(c) \/ JessibucaLoop(c)
        \/ Fmp4Handler(c) \/ SrtHandler(c)
    BY <1>6 DEF ViewerStep
  <2>. QED BY <1>1, <1>2, <2>1, <2>2 DEF Still
<1>7. CASE ViewerClient(c) \/ Callback(c)
  BY <1>1, <1>7 DEF ViewerClient, Callback, HookUnchanged, Others, Still
<1>. QED BY <1>3, <1>4, <1>5, <1>6, <1>7 DEF ViewerActs

LEMMA HlsEndOnMsg ==
  ASSUME HlsInv, EndOnMsg
  PROVE  HlsInv'
<1>1. /\ UNCHANGED <<current, invalid, hls, setup, session>>
      /\ at = "OnMsg" /\ at' = "live" /\ hist' = Append(hist, msg)
  BY DEF EndOnMsg, hlsVars, Hook!EndOnMsg, Hook!Cache!Feed
<1>2. Sent' = Sent /\ Running /\ Running'
  BY <1>1 DEF Sent, Running
<1>. QED BY <1>1, <1>2 DEF HlsInv, HlsOK

LEMMA HlsEndOnStop ==
  ASSUME HlsInv, EndOnStop
  PROVE  HlsInv'
<1>1. /\ UNCHANGED <<current, invalid, hls, setup, session>>
      /\ at = "OnStop" /\ at' = "gone"
  BY DEF EndOnStop, hlsVars, Hook!EndOnStop
<1>2. ~Running /\ ~Running'
  BY <1>1 DEF Running
<1>. QED BY <1>1, <1>2 DEF HlsInv

LEMMA HlsBegins ==
  ASSUME H!BaseInv, H!BaseInv', HlsInv, NEW who, BeginStream(who)
  PROVE  HlsInv'
<1>1. /\ at = "gone" /\ at' = "live" /\ session' = session + 1 /\ hist' = <<>> /\ UNCHANGED setup
      /\ HlsDoes(Hls!New(session + 1))
  BY DEF BeginStream, Hook!NewHookSession, Hook!Cache!Renew
<1>2. session \in Nat /\ session + 1 \in 1 .. MaxSessions
  <2>1. session' \in 0 .. MaxSessions
    BY DEF H!BaseInv, H!TypeOK
  <2>2. session \in 0 .. MaxSessions /\ MaxSessions \in Nat
    BY StreamFacts, SessionsAssumption
  <2>. QED BY <1>1, <2>1, <2>2
<1>3. Sent' = <<>> /\ Running' /\ ~Running
  BY <1>1 DEF Sent, Running
<1>4. current = 0
  BY <1>3 DEF HlsInv
<1>5. CASE setup.hls
  <2>1. /\ current' = session + 1 /\ hls' = [hls EXCEPT ![session + 1] = Hls!NewSession]
        /\ invalid' = invalid
    BY <1>1, <1>5 DEF HlsDoes, Hls!New
  <2>2. DOMAIN hls' = 1 .. MaxSessions /\ hls'[session + 1] = Hls!NewSession
    BY <1>2, <2>1 DEF HlsInv
  <2>3. HlsOK(hls'[current'], Sent', setup'.raw)
    BY <1>3, <2>1, <2>2, HlsFirst
  <2>4. /\ current' \in {0, session'} /\ current' = session' /\ current' # 0
        /\ invalid' \subseteq 1 .. session' /\ current' \notin invalid'
    BY <1>1, <1>2, <2>1 DEF HlsInv
  <2>5. HlsOK(hls[current], Sent, setup.raw)' = HlsOK(hls'[current'], Sent', setup'.raw)
    BY DEF HlsOK
  <2>. QED BY <1>1, <1>3, <1>5, <2>2, <2>3, <2>4, <2>5 DEF HlsInv
<1>6. CASE ~setup.hls
  <2>1. UNCHANGED <<current, invalid, hls>>
    BY <1>1, <1>6 DEF HlsDoes, hlsVars
  <2>. QED BY <1>1, <1>2, <1>4, <1>6, <2>1 DEF HlsInv
<1>. QED BY <1>5, <1>6

LEMMA HlsGoesOn ==
  ASSUME H!BaseInv, H!BaseInv', HlsInv, NEW kind, BeginMsg(kind)
  PROVE  HlsInv'
<1>. DEFINE m == [kind |-> kind, seq |-> fed + 1]
<1>1. /\ at = "live" /\ at' = "OnMsg" /\ msg' = m /\ UNCHANGED <<hist, session, setup>>
      /\ HlsDoes(Hls!OnMsg(m, setup.raw))
  BY DEF BeginMsg, Hook!OnMsg, Hook!BeginWalk, Hook!cacheVars
<1>. HIDE DEF m
<1>2. NextOf(hist, m)
  <2>1. Numbers(hist)
    BY StreamFacts
  <2>2. Message = H!Message
    BY Zenon DEF Message, H!Message, MsgKinds, H!MsgKinds, AudioKinds, H!AudioKinds,
       VideoKinds, H!VideoKinds
  <2>3. msg' \in H!Message /\ msg'.seq = fed' + 1 /\ Len(hist') = fed'
    BY <1>1 DEF H!BaseInv, H!WalkInv, H!StreamInv, H!IsStream
  <2>. QED BY <1>1, <2>1, <2>2, <2>3 DEF NextOf
<1>3. Sent = hist /\ Sent' = Append(hist, m) /\ Running /\ Running'
  BY <1>1 DEF Sent, Running
<1>4. session \in 1 .. MaxSessions
  BY <1>3, StreamFacts
<1>5. UNCHANGED <<current, invalid>> /\ DOMAIN hls' = 1 .. MaxSessions
  BY <1>1 DEF HlsDoes, Hls!OnMsg, hlsVars, HlsInv
<1>6. current # 0 => HlsOK(hls'[current'], Sent', setup'.raw)
  <2>. SUFFICES ASSUME current # 0
                PROVE  HlsOK(hls'[current], Append(hist, m), setup.raw)
    BY <1>1, <1>3, <1>5
  <2>1. HlsOK(hls[current], hist, setup.raw) /\ current = session
    BY <1>3 DEF HlsInv
  <2>2. CASE setup.hls
    <3>1. hls' = [hls EXCEPT ![current] = Hls!SessionOnMsg(@, m, setup.raw)]
      BY <1>1, <2>2 DEF HlsDoes, Hls!OnMsg
    <3>2. hls'[current] = Hls!SessionOnMsg(hls[current], m, setup.raw)
      BY <1>4, <2>1, <3>1 DEF HlsInv
    <3>. QED BY <1>2, <2>1, <3>2, HlsKeeps
  <2>. QED BY <2>2 DEF HlsInv
<1>7. HlsOK(hls[current], Sent, setup.raw)' = HlsOK(hls'[current'], Sent', setup'.raw)
  BY DEF HlsOK
<1>. QED BY <1>1, <1>3, <1>5, <1>6, <1>7 DEF HlsInv

LEMMA HlsEnds ==
  ASSUME HlsInv, H!BaseInv, EndStream
  PROVE  HlsInv'
<1>1. /\ at = "live" /\ at' = "OnStop" /\ UNCHANGED <<session, setup>>
      /\ HlsDoes(Hls!OnStop)
  BY DEF EndStream, Hook!OnStop, Hook!BeginWalk
<1>2. Running /\ ~Running' /\ session \in 1 .. MaxSessions
  BY <1>1, StreamFacts DEF Running
<1>3. CASE setup.hls
  <2>1. current = session /\ session \notin invalid
    BY <1>2, <1>3 DEF HlsInv
  <2>2. current' = 0 /\ invalid' = invalid \cup {session} /\ DOMAIN hls' = DOMAIN hls
    BY <1>1, <1>2, <1>3, <2>1 DEF HlsDoes, Hls!OnStop
  <2>3. 0 \notin invalid' /\ invalid' \subseteq 1 .. session
    BY <1>2, <2>2 DEF HlsInv
  <2>. QED BY <1>1, <1>2, <2>2, <2>3 DEF HlsInv
<1>4. CASE ~setup.hls
  <2>1. current = 0
    BY <1>4 DEF HlsInv
  <2>2. UNCHANGED <<current, invalid, hls>>
    BY <1>1, <1>4 DEF HlsDoes, hlsVars
  <2>. QED BY <1>1, <1>2, <1>4, <2>1, <2>2 DEF HlsInv
<1>. QED BY <1>3, <1>4

LEMMA HlsClean ==
  ASSUME HlsInv, H!BaseInv, Clean
  PROVE  HlsInv'
<1>1. PICK i \in 1 .. MaxSessions : Hls!CleanInvalidSession(i)
  BY DEF Clean
<1>2. /\ UNCHANGED <<at, session, hist, msg, setup, current>>
      /\ i \in invalid /\ invalid' = invalid \ {i}
      /\ DOMAIN hls' = DOMAIN hls /\ \A j \in DOMAIN hls \ {i} : hls'[j] = hls[j]
  BY <1>1 DEF Clean, HookUnchanged, hookVars, Hls!CleanInvalidSession
<1>3. Sent' = Sent /\ Running' = Running
  BY <1>2 DEF Sent, Running
<1>4. current # 0 => hls'[current] = hls[current]
  BY <1>2, StreamFacts DEF HlsInv
<1>5. HlsOK(hls[current], Sent, setup.raw)' = HlsOK(hls'[current'], Sent', setup'.raw)
  BY DEF HlsOK
<1>. QED BY <1>2, <1>3, <1>4, <1>5 DEF HlsInv

LEMMA HlsInit == Init => HlsInv
BY DEF Init, Hook!Init, Hook!Cache!Init, Hls!Init, HlsInv, Running

OwnerOK == owner \in Publishers \cup {None}

LEMMA HlsStep ==
  ASSUME Inv, Inv', HlsInv, OwnerOK, [Next]_vars
  PROVE  HlsInv' /\ OwnerOK'
<1>. H!BaseInv /\ H!BaseInv'
  BY DEF Inv
<1>1. HookUnchanged /\ UNCHANGED hlsVars /\ UNCHANGED <<setup, owner>> => HlsInv' /\ OwnerOK'
  BY HlsRests DEF Still, HookUnchanged, hookVars, OwnerOK
<1>2. CASE EndOnMsg
  BY <1>2, HlsEndOnMsg DEF EndOnMsg, OwnerOK
<1>3. CASE EndOnStop
  BY <1>3, HlsEndOnStop DEF EndOnStop, OwnerOK
<1>4. ASSUME NEW c \in Subscribers, ViewerActs(c)
      PROVE  HlsInv' /\ OwnerOK'
  <2>1. UNCHANGED <<setup, owner>>
    BY <1>4 DEF ViewerActs, Deliver, SrtFails, CallOnStop, Fmp4OnStop, OnStopReturns,
       ViewerArrives, ViewerStep, ViewerClient, Callback, Others
  <2>. QED BY <1>4, <2>1, ViewerStill, HlsRests DEF OwnerOK
<1>5. ASSUME NEW who \in Publishers \cup {None}, BeginStream(who)
      PROVE  HlsInv' /\ OwnerOK'
  BY <1>5, HlsBegins DEF BeginStream, OwnerOK
<1>6. ASSUME NEW kind, BeginMsg(kind)
      PROVE  HlsInv' /\ OwnerOK'
  BY <1>6, HlsGoesOn DEF BeginMsg, OwnerOK
<1>7. EndStream => HlsInv' /\ OwnerOK'
  BY HlsEnds DEF EndStream, OwnerOK
<1>8. CASE Elsewhere
  BY <1>5, <1>6, <1>7, <1>8 DEF Elsewhere
<1>9. CASE Clean
  BY <1>9, HlsClean DEF Clean, OwnerOK
<1>10. NoCall => HlsInv' /\ OwnerOK'
  BY <1>1 DEF NoCall, Others
<1>11. ASSUME NEW p \in Publishers, PublisherBegins(p) \/ PublisherStep(p) \/ PublisherClient(p)
       PROVE  HlsInv' /\ OwnerOK'
  <2>1. (\E kind : BeginMsg(kind)) \/ BeginStream(p) \/ EndStream \/ NoCall
    BY <1>11 DEF PublisherBegins, PublisherStep, PublisherClient
  <2>. QED BY <1>5, <1>6, <1>7, <1>10, <2>1
<1>12. ASSUME NEW c, Callback(c)
       PROVE  HlsInv' /\ OwnerOK'
  BY <1>1, <1>12 DEF Callback, Others
<1>13. CASE UNCHANGED vars
  BY <1>1, <1>13 DEF vars, HookUnchanged
<1>14. CASE Next
  BY <1>2, <1>3, <1>4, <1>8, <1>9, <1>11, <1>12, <1>14 DEF Next, LalStep, ViewerActs
<1>. QED BY <1>13, <1>14

LEMMA HlsAlways == Spec => [](Inv /\ HlsInv /\ OwnerOK)
<1>1. Init => HlsInv /\ OwnerOK
  BY HlsInit DEF Init, OwnerOK
<1>2. Inv /\ Inv' /\ HlsInv /\ OwnerOK /\ [Next]_vars => HlsInv' /\ OwnerOK'
  BY HlsStep
<1>. QED BY <1>1, <1>2, InvAlways, PTL DEF Spec

LEMMA HlsNow ==
  ASSUME Sound, H!BaseInv, HlsInv
  PROVE  HlsHasEveryFrame
<1>. DEFINE s     == hls[session]
            kinds == (IF s.video \/ ~s.done THEN {"key", "inter"} ELSE {})
                     \cup (IF s.audio = "aac" THEN {"aac"} ELSE {})
                     \cup (IF s.audio = "opus" THEN {"rawAudio"} ELSE {})
            frame(m) == [kind |-> m.kind, seq |-> m.seq,
                         header |-> IF m.kind = "key" THEN InForce("videoHeader", m.seq) ELSE 0]
            units == OfKinds(IF s.done THEN s.muxed ELSE s.data, kinds)
            sent  == OfKinds(hist, kinds)
<1>1. SUFFICES ASSUME setup.hls, current = session, at = "live"
               PROVE  units = [i \in DOMAIN sent |-> frame(sent[i])]
  BY DEF HlsHasEveryFrame
<1>2. HlsOK(s, hist, setup.raw) /\ Numbers(hist)
  BY <1>1, StreamFacts DEF HlsInv, Sent, Running
<1>3. s.audio \in {"none", "aac", setup.raw} /\ s.done \in BOOLEAN
  BY <1>2 DEF HlsOK, HlsRecord
<1>4. kinds \subseteq EarlyKinds(setup.raw)
  <2>. HIDE DEF s
  <2>. QED BY <1>3 DEF EarlyKinds
<1>5. s.done => kinds \subseteq Hls!HasTrack(s)
  <2>. HIDE DEF s
  <2>. QED BY <1>3 DEF Hls!HasTrack
<1>6. units = UnitsOf(hist, kinds)
  <2>. HIDE DEF s, kinds
  <2>1. kinds \in SUBSET EarlyKinds(setup.raw)
    BY <1>4
  <2>2. s.done => kinds \in SUBSET (EarlyKinds(setup.raw) \cap Hls!HasTrack(s))
    BY <1>4, <1>5
  <2>. QED BY <1>2, <1>3, <2>1, <2>2 DEF HlsOK
<1>7. \A n : InForce("videoHeader", n) = HeaderAt(hist, n)
  BY Zenon DEF InForce, Hook!InForce, HeaderAt, Headers, LastIn
<1>8. sent \in Seq(Message) /\ DOMAIN sent = 1 .. Len(sent)
  <2>. HIDE DEF kinds
  <2>1. sent \in Seq(Message)
    BY <1>2, OfKindsIn DEF Numbers
  <2>. QED BY <2>1
<1>. HIDE DEF s, kinds
<1>. QED BY <1>6, <1>7, <1>8, ZenonT(60) DEF UnitsOf, UnitOf

\* From its first message on, every frame of the stream, with the parameter sets in force, is
\* in the muxer or waits for it, once.
THEOREM HlsHasEveryFrameAlways == Spec => []HlsHasEveryFrame
<1>1. Inv /\ HlsInv => HlsHasEveryFrame
  BY HlsNow DEF Inv
<1>. QED BY <1>1, HlsAlways, PTL

-----------------------------------------------------------------------------
LEMMA TypesNow ==
  ASSUME Inv, HlsInv, OwnerOK
  PROVE  TypeOK
<1>1. Hook!TypeOK
  <2>1. H!TypeOK
    BY DEF Inv, H!BaseInv
  <2>2. Hook!Message = H!Message /\ Hook!Cache!Message = H!Cache!Message
    BY Zenon DEF Hook!Message, H!Message, Hook!Cache!Message, H!Cache!Message, Hook!MsgKinds,
       H!MsgKinds, Hook!Cache!MsgKinds, H!Cache!MsgKinds, Hook!AudioKinds, H!AudioKinds,
       Hook!Cache!AudioKinds, H!Cache!AudioKinds, Hook!VideoKinds, H!VideoKinds,
       Hook!Cache!VideoKinds, H!Cache!VideoKinds
  <2>3. Hook!EntryType = H!EntryType
    BY Zenon DEF Hook!EntryType, H!EntryType, Hook!MsgKinds, H!MsgKinds, Hook!AudioKinds,
       H!AudioKinds, Hook!VideoKinds, H!VideoKinds
  <2>4. Hook!NoMsg = H!NoMsg /\ Hook!Cache!NoMsg = H!Cache!NoMsg
    BY Zenon DEF Hook!NoMsg, H!NoMsg, Hook!Cache!NoMsg, H!Cache!NoMsg
  <2>5. Hook!Cache!Slots = H!Cache!Slots
    BY Zenon DEF Hook!Cache!Slots, H!Cache!Slots, Hook!Cache!gopSize, H!Cache!gopSize,
       Hook!Cache!Keep, H!Cache!Keep
  <2>6. Hook!Cache!TypeOK <=> H!Cache!TypeOK
    BY <2>2, <2>4, <2>5, Zenon DEF Hook!Cache!TypeOK, H!Cache!TypeOK
  <2>. QED BY <2>1, <2>2, <2>3, <2>4, <2>6, Zenon DEF Hook!TypeOK, H!TypeOK
<1>2. owner \in Publishers \cup {None} /\ calling \in Subscribers \cup {None}
  BY DEF Inv, CallingOK, OwnerOK
<1>3. setup \in Setups /\ setup.viewer \in {"none", "whep", "jessibuca", "fmp4", "srt"}
      /\ setup.publisher \in {"lal", "whip", "srt"}
  BY SessionsAssumption DEF Inv, Sound, SessionsAssumption
<1>4. NoSession.pc = "idle"
  BY DEF NoSession
<1>5. ASSUME NEW c \in Subscribers
      PROVE  /\ st[c].pc \in PcType
             /\ st[c].pc # "idle" =>
                  CASE setup.viewer = "whep"      -> PeerType(c, Whep!CloseSize)
                    [] setup.viewer = "jessibuca" -> PeerType(c, Jessibuca!CloseSize)
                    [] setup.viewer = "fmp4"      ->
                         /\ Len(st[c].vfragment.samples) <= FragmentSamples + 1
                         /\ Len(st[c].afragment.samples) <= FragmentSamples + 1
                         /\ st[c].queued \in 0 .. WriteChanSize
                    [] setup.viewer = "srt"       -> Len(st[c].sendBuf) <= MaxSend
  <2>1. ViewerOK(c)
    BY DEF Inv, Kept
  <2>2. CASE setup.viewer = "whep"
    <3>1. st[c] = NoSession \/ st[c] \in WhepRecord
      BY <2>1, <2>2 DEF ViewerOK, WhepOK
    <3>2. st[c].pc # "idle" => PeerType(c, Whep!CloseSize)
      BY <1>4, <3>1 DEF WhepRecord, PeerType, IceStates, Whep!Lost
    <3>. QED BY <1>4, <2>2, <3>1, <3>2 DEF WhepRecord, PcType
  <2>3. CASE setup.viewer = "jessibuca"
    <3>1. st[c] = NoSession \/ st[c] \in JessibucaRecord
      BY <2>1, <2>3 DEF ViewerOK, JessibucaOK
    <3>2. st[c].pc # "idle" => PeerType(c, Jessibuca!CloseSize)
      BY <1>4, <3>1 DEF JessibucaRecord, PeerType, IceStates, Whep!Lost
    <3>. QED BY <1>4, <2>3, <3>1, <3>2 DEF JessibucaRecord, PcType
  <2>4. CASE setup.viewer = "fmp4"
    <3>1. \/ st[c] = NoSession
          \/ /\ st[c] \in Fmp4Record
             /\ Len(st[c].vfragment.samples) <= FragmentSamples + 1
             /\ Len(st[c].afragment.samples) <= FragmentSamples + 1
             /\ st[c].queued <= WriteChanSize
      BY <2>1, <2>4 DEF ViewerOK, Fmp4OK, InBounds
    <3>2. st[c] \in Fmp4Record => st[c].queued \in Nat
      BY DEF Fmp4Record
    <3>3. WriteChanSize \in Nat
      BY SessionsAssumption DEF SessionsAssumption
    <3>. QED BY <1>4, <2>4, <3>1, <3>2, <3>3 DEF Fmp4Record, PcType
  <2>5. CASE setup.viewer = "srt"
    <3>1. st[c] = NoSession \/ (st[c] \in SrtRecord /\ Len(st[c].sendBuf) <= MaxSend)
      BY <2>1, <2>5 DEF ViewerOK, SrtOK, SrtGood
    <3>. QED BY <1>4, <2>5, <3>1 DEF SrtRecord, PcType
  <2>6. CASE setup.viewer = "none"
    BY <1>4, <2>1, <2>6 DEF ViewerOK, PcType
  <2>. QED BY <1>3, <2>2, <2>3, <2>4, <2>5, <2>6
<1>6. ASSUME NEW p \in Publishers
      PROVE  /\ st[p].pc \in PcType
             /\ setup.publisher = "whip" /\ st[p].pc # "idle" =>
                  PeerType(p, Whip!CloseSize) /\ Len(st[p].pktChan) <= PktChanSize
  <2>1. PublisherOK(p)
    BY DEF Inv, Kept
  <2>2. CASE setup.publisher = "whip"
    <3>1. st[p] = NoSession \/ st[p] \in WhipRecord
      BY <2>2 DEF Inv, Sound, Shape, WhipSound, NoSession, Whip!NoSession
    <3>2. st[p] # NoSession => Len(st[p].pktChan) <= PktChanSize
      BY <2>1, <2>2 DEF PublisherOK, WhipOK
    <3>3. Whip!Lost = Whep!Lost
      BY DEF Whip!Lost, Whep!Lost
    <3>. QED BY <1>4, <3>1, <3>2, <3>3 DEF WhipRecord, PcType, PeerType
  <2>3. CASE setup.publisher = "srt"
    BY <1>4, <2>1, <2>3 DEF PublisherOK, PcType
  <2>4. CASE setup.publisher = "lal"
    BY <1>4, <2>1, <2>4 DEF PublisherOK, PcType
  <2>. QED BY <1>3, <2>2, <2>3, <2>4
<1>7. /\ current \in {0, session} /\ invalid \subseteq 1 .. session
      /\ current = session \/ at \in {"gone", "OnStop"} \/ ~setup.hls
  BY StreamFacts DEF Inv, HlsInv, Running
<1>. QED BY <1>1, <1>2, <1>5, <1>6, <1>7 DEF TypeOK

\* Types, and what no channel or buffer of a session outgrows.
THEOREM TypeOKAlways == Spec => []TypeOK
<1>1. Inv /\ HlsInv /\ OwnerOK => TypeOK
  BY TypesNow
<1>. QED BY <1>1, HlsAlways, PTL
=============================================================================
