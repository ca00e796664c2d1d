----------------------------- MODULE MCGopCache -----------------------------
(***************************************************************************)
(* GopCache for TLC.  Three kinds of frame and one header cover every      *)
(* branch of Feed; two GOPs wrap the three-slot ring more than once in     *)
(* MCMaxMsgs messages.                                                     *)
(***************************************************************************)
EXTENDS GopCache

MCKinds   == {"videoHeader", "aacHeader", "rawAudio", "key", "inter", "metadata"}
MCMaxMsgs == 6
=============================================================================
