--------------------------- MODULE MCAvailConnPool ---------------------------
(***************************************************************************)
(* AvailConnPool for TLC: two INVITEs at a time and a range of four ports. *)
(***************************************************************************)
EXTENDS AvailConnPool

CONSTANTS c1, c2

MCCallers == {c1, c2}
=============================================================================
