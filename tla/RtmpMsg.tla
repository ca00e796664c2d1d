------------------------------- MODULE RtmpMsg -------------------------------
(***************************************************************************)
(* The RTMP messages that lal hands to lalmax's hook sessions              *)
(* (base.RtmpMsg of the lal library), reduced to what lalmax tells apart:  *)
(* the kind decides every branch of GopCache.Feed and HookSession.OnMsg,   *)
(* the sequence number says which message of the stream it is.             *)
(***************************************************************************)
EXTENDS Integers, Sequences

(***************************************************************************)
(*   metadata     RtmpTypeIdMetadata                                       *)
(*   aacHeader    audio, IsAacSeqHeader                                    *)
(*   aac          any other audio frame that is not G711A, G711U or Opus   *)
(*   rawAudio     a G711A, G711U or Opus audio frame                       *)
(*   videoHeader  video, IsVideoKeySeqHeader (SPS/PPS/VPS)                 *)
(*   key          video, IsVideoKeyNalu                                    *)
(*   inter        any other video frame                                    *)
(***************************************************************************)
AudioKinds == {"aacHeader", "aac", "rawAudio"}
VideoKinds == {"videoHeader", "key", "inter"}
MsgKinds   == AudioKinds \cup VideoKinds \cup {"metadata"}

Message == [kind : MsgKinds, seq : Nat]

\* A nil *base.RtmpMsg.
NoMsg == [kind |-> "none", seq |-> 0]

IsVideo(msg)        == msg.kind \in VideoKinds
IsAudio(msg)        == msg.kind \in AudioKinds
IsVideoKeyNalu(msg) == msg.kind = "key"

\* The messages of a sequence that are of some kinds, in their order
OfKinds(s, kinds) ==
  LET f[i \in 0 .. Len(s)] ==
        IF i = 0 THEN <<>>
        ELSE IF s[i].kind \in kinds THEN Append(f[i - 1], s[i]) ELSE f[i - 1]
  IN f[Len(s)]

\* The sequences of ss one behind the other: FlattenSeq of SequencesExt, without the rest of
\* that module in the context of every proof
Concatenation(ss) ==
  IF ss = <<>> THEN <<>>
  ELSE LET f[i \in 1 .. Len(ss)] == IF i = 1 THEN ss[i] ELSE f[i - 1] \o ss[i]
       IN f[Len(ss)]
=============================================================================
