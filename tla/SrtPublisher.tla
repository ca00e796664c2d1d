----------------------------- MODULE SrtPublisher -----------------------------
(***************************************************************************)
(* srt/pub.go and handlePublish of srt/server.go: a stream published over  *)
(* SRT as MPEG-TS.  handlePublish takes the stream name at lal; Run feeds  *)
(* each frame of the TS demuxer to lal until the connection ends, and then *)
(* gives the name back, all in one goroutine.                              *)
(*                                                                         *)
(* A publisher of a name that is taken runs, too, with a nil session: the  *)
(* first frame it feeds ends the process.                                  *)
(***************************************************************************)
EXTENDS RtmpMsg, Sequences

VARIABLES
  st,  \* the publisher of each client: a record, whose pc says how far it is
  out  \* history: unused here

HandlePublish(p) ==
  /\ st[p].pc = "idle"
  /\ st' = [st EXCEPT ![p] = [pc |-> "run", conn |-> "open", read |-> 0]]
  /\ UNCHANGED out

\* AddCustomizePubSession fails; the error is logged.
HandleTaken(p) ==
  /\ st[p].pc = "idle"
  /\ st' = [st EXCEPT ![p] = [pc |-> "nil", conn |-> "open", read |-> 0]]
  /\ UNCHANGED out

\* OnFrame calls the nil session, or Remove hands it to lal, which may not stand it either.
CallNil(p) ==
  /\ st[p].pc = "nil"
  /\ \E pc \in {"panicked", "returned"} : st' = [st EXCEPT ![p].pc = pc, ![p].conn = "closed"]
  /\ UNCHANGED out

\* OnFrame of the demuxer.
OnFrame(p) ==
  /\ st[p].pc = "run" /\ st[p].conn = "open"
  /\ st' = [st EXCEPT ![p].read = @ + 1]
  /\ UNCHANGED out

ConnectionEnds(p) ==
  /\ st[p].pc = "run" /\ st[p].conn = "open"
  /\ st' = [st EXCEPT ![p].conn = "ended"]
  /\ UNCHANGED out

\* Input returns: the deferred function closes the connection and calls Remove.
Remove(p) ==
  /\ st[p].pc = "run" /\ st[p].conn = "ended"
  /\ st' = [st EXCEPT ![p].pc = "returned", ![p].conn = "closed"]
  /\ UNCHANGED out
=============================================================================
