------------------------------ MODULE GopWindow ------------------------------
(***************************************************************************)
(* What the GOP cache of a stream promises: a window onto the most recent  *)
(* groups of pictures.  A key frame opens a new group and, once Keep       *)
(* groups are held, drops the oldest one; every other frame joins the      *)
(* newest group until that group has its share.  The last sequence         *)
(* headers are kept beside the window.                                     *)
(***************************************************************************)
EXTENDS RtmpMsg, Sequences

CONSTANTS
  Messages,            \* the messages the stream can carry
  Keep,                \* how many groups the window holds
  SingleGopMaxFrameNum \* 0: no limit on the frames of a group

VARIABLES window, videoheader, audioheader

wvars == <<window, videoheader, audioheader>>

Init ==
  /\ window = << >>
  /\ videoheader = NoMsg
  /\ audioheader = NoMsg

\* The window with room for one more group.
Evicted == IF Len(window) < Keep THEN window ELSE Tail(window)

HasRoom(gop) == SingleGopMaxFrameNum = 0 \/ Len(gop) <= SingleGopMaxFrameNum

OpenGop(msg) ==
  /\ IsVideoKeyNalu(msg)
  /\ window' = IF Keep = 0 THEN window ELSE Append(Evicted, <<msg>>)
  /\ UNCHANGED <<videoheader, audioheader>>

ExtendGop(msg) ==
  /\ msg.kind \in {"inter", "aac", "rawAudio"}
  /\ window' = IF window # << >> /\ HasRoom(window[Len(window)])
               THEN [window EXCEPT ![Len(window)] = Append(@, msg)]
               ELSE window
  /\ audioheader' = IF msg.kind = "rawAudio" THEN msg ELSE audioheader
  /\ UNCHANGED videoheader

StoreHeader(msg) ==
  /\ \/ /\ msg.kind = "videoHeader"
        /\ videoheader' = msg
        /\ UNCHANGED audioheader
     \/ /\ msg.kind = "aacHeader"
        /\ audioheader' = msg
        /\ UNCHANGED videoheader
  /\ UNCHANGED window

Clear ==
  /\ window' = << >>
  /\ UNCHANGED <<videoheader, audioheader>>

Next ==
  \/ \E msg \in Messages : OpenGop(msg) \/ ExtendGop(msg) \/ StoreHeader(msg)
  \/ Clear

Spec == Init /\ [][Next]_wvars
=============================================================================
