------------------------------ MODULE MCGbMedia ------------------------------
(***************************************************************************)
(* GbMedia for TLC.  MCGbMedia.cfg has two channels of one camera that can *)
(* be invited under one stream name, and one connection;                   *)
(* MCGbMediaConns.cfg one channel and two connections.                     *)
(***************************************************************************)
EXTENDS GbMedia
=============================================================================
