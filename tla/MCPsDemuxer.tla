----------------------------- MODULE MCPsDemuxer -----------------------------
(***************************************************************************)
(* PsDemuxer for TLC.                                                      *)
(***************************************************************************)
EXTENDS PsDemuxer

Tok(type, head) == [type |-> type, head |-> head]

\* A picture behind a delimiter, and a key frame
MCShapes ==
  {[tokens |-> <<Tok("aud", TRUE), Tok("p", TRUE), Tok("p", FALSE)>>, cuts |-> {2}],
   [tokens |-> <<Tok("sps", TRUE), Tok("pps", TRUE), Tok("idr", TRUE), Tok("idr", FALSE)>>,
    cuts |-> {1, 3}]}

MCSettings ==
  {[psm |-> TRUE, first |-> 0], [psm |-> TRUE, first |-> 1], [psm |-> FALSE, first |-> 1],
   [psm |-> TRUE, first |-> NoPts]}
=============================================================================
