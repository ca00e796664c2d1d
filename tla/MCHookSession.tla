---------------------------- MODULE MCHookSession ----------------------------
(***************************************************************************)
(* HookSession for TLC: one viewer and a bystander that may change the     *)
(* walk under its feet, a stream with both headers.                        *)
(***************************************************************************)
EXTENDS HookSession, TLC

CONSTANTS c1, c2

MCSubscribers == {c1, c2}
MCSymmetry    == Permutations(MCSubscribers)
MCKinds       == {"videoHeader", "aacHeader", "key", "inter", "aac"}
=============================================================================
