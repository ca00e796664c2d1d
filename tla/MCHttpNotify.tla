----------------------------- MODULE MCHttpNotify -----------------------------
(***************************************************************************)
(* HttpNotify for TLC: two more events than a channel holds, so that it    *)
(* fills up, turns events away and takes events again.                     *)
(***************************************************************************)
EXTENDS HttpNotify
=============================================================================
