------------------------------ MODULE MCSessions ------------------------------
(***************************************************************************)
(* Sessions for TLC: a viewer of each protocol of a stream from elsewhere  *)
(* with different streams; the HLS server; the publishers; and a viewer    *)
(* with HLS behind a publisher by SRT.                                     *)
(***************************************************************************)
EXTENDS Sessions

CONSTANTS c1, p1, p2

MCSubscribers == {c1}
MCPublishers  == {p1, p2}
MCKinds       == MsgKinds

Plain     == <<"videoHeader", "aacHeader", "key", "inter", "aac">>
Raw       == <<"videoHeader", "rawAudio", "key", "rawAudio", "inter">>
AudioLast == <<"key", "videoHeader", "aac", "aacHeader", "key">>
Changes   == <<"videoHeader", "aacHeader", "key", "videoHeader", "key">>
VideoOnly == <<"videoHeader", "key", "inter", "inter", "aac">>
Announced == <<"aacHeader", "aac", "aac", "aac", "metadata">>
Mixed     == <<"videoHeader", "rawAudio", "key", "aacHeader", "aac">>
Short     == <<"videoHeader", "rawAudio", "key">>

Setup(viewer, publisher, hlsOn, script, video, safari, raw) ==
  [viewer |-> viewer, publisher |-> publisher, hls |-> hlsOn, script |-> script,
   video |-> video, safari |-> safari, raw |-> raw]

MCSetups ==
  {Setup("whep", "lal", FALSE, Raw, "h264", FALSE, "opus"),
   Setup("whep", "lal", FALSE, Plain, "hevc", TRUE, "opus"),
   Setup("whep", "lal", FALSE, Short, "hevc", FALSE, "pcma"),
   Setup("whep", "lal", FALSE, Mixed, "h264", FALSE, "opus"),
   Setup("jessibuca", "lal", FALSE, Plain, "h264", FALSE, "opus"),
   Setup("fmp4", "lal", FALSE, Plain, "h264", FALSE, "opus"),
   Setup("fmp4", "lal", FALSE, Raw, "h264", FALSE, "opus"),
   Setup("srt", "lal", FALSE, Plain, "h264", FALSE, "opus"),
   Setup("srt", "lal", FALSE, Raw, "h264", FALSE, "opus"),
   Setup("srt", "lal", FALSE, Mixed, "h264", FALSE, "opus"),
   Setup("srt", "srt", TRUE, Plain, "h264", FALSE, "opus"),
   Setup("none", "whip", FALSE, SubSeq(Short, 2, 3), "h264", FALSE, "opus"),
   Setup("none", "whip", FALSE, Short, "h264", FALSE, "pcma"),
   Setup("none", "srt", FALSE, Plain, "h264", FALSE, "opus")}
  \cup {Setup("none", "lal", TRUE, s, "h264", FALSE, "opus") :
          s \in {Plain, Raw, AudioLast, Changes, VideoOnly, Announced}}
  \cup {Setup("none", "lal", TRUE, Raw, "h264", FALSE, "pcma")}

MCFrameSize == <<1, 5, 9, 11, 4>>
=============================================================================
