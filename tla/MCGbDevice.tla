------------------------------ MODULE MCGbDevice ------------------------------
(***************************************************************************)
(* GbDevice for TLC: one camera.  Without quick_login two REGISTERs at a   *)
(* time find the camera unknown, with it one REGISTER or Keepalive does.   *)
(* A tick is longer than what keeps a camera on line (OfflineAfter), half  *)
(* of what keeps it in the list (DropAfter).                               *)
(***************************************************************************)
EXTENDS GbDevice
=============================================================================
