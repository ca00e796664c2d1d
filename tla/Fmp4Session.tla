------------------------------ MODULE Fmp4Session ------------------------------
(***************************************************************************)
(* fmp4/http-fmp4: a player that downloads a stream as fragmented MP4.     *)
(* The handler makes the init segment of the headers, joins the consumers, *)
(* writes the init segment and waits until the player is gone.  Meanwhile  *)
(* OnMsg, in lal's goroutine, collects samples and writes a fragment when  *)
(* there are more than FragmentSamples.                                    *)
(*                                                                         *)
(* The connection (naza's) queues what is written for a goroutine of its   *)
(* own; a write that finds WriteChanSize others waiting fails, and nobody  *)
(* looks at the errors of Encode.                                          *)
(*                                                                         *)
(* Every video message is a sample, a sequence header, too.  Durations and *)
(* decode times are left out.                                              *)
(***************************************************************************)
EXTENDS RtmpMsg, Sequences

CONSTANTS
  FragmentSamples, \* 10
  WriteChanSize,   \* 256: the writes that can wait in a connection
  EncodeWrites     \* the writes that Encode makes, of the init segment or of a fragment

VARIABLES
  st,  \* the session of each client: a record, whose pc says how far it is
  out  \* history: what was encoded, with the number of its writes that found room

NoFragment == [number |-> 0, samples |-> <<>>]

NewFmp4Session(c) ==
  /\ st[c].pc = "idle"
  /\ st' = [st EXCEPT ![c] = [pc |-> "new", video |-> FALSE, seqNumber |-> 0, queued |-> 0,
                              vfragment |-> NoFragment, afragment |-> NoFragment]]
  /\ UNCHANGED out

\* handleSession reads the headers one after another ...
ReadVideoHeader(c, videoheader) ==
  /\ st[c].pc = "new"
  /\ st' = [st EXCEPT ![c].pc = "half", ![c].video = videoheader # NoMsg]
  /\ UNCHANGED out

\* ... and writes the HTTP header; or it gives up: there is no header, or no connection.
Answer(c, audioheader) ==
  /\ st[c].pc = "half"
  /\ \/ /\ st[c].video \/ audioheader # NoMsg
        /\ st' = [st EXCEPT ![c].pc = "answered", ![c].queued = 1]
     \/ st' = [st EXCEPT ![c].pc = "refused"]
  /\ UNCHANGED out

Join(c) ==
  /\ st[c].pc = "answered"
  /\ st' = [st EXCEPT ![c].pc = "joined"]
  /\ UNCHANGED out

\* How many of Encode's writes find room when q others wait: the first that fails is the last.
Fits(q) == IF q + EncodeWrites <= WriteChanSize THEN EncodeWrites ELSE WriteChanSize - q

\* The goroutine of the connection has taken some of the writes meanwhile: q are left.
WriteInit(c) ==
  /\ st[c].pc = "joined"
  /\ \E q \in 0 .. st[c].queued :
       /\ st' = [st EXCEPT ![c].pc = "reading", ![c].queued = q + Fits(q)]
       /\ out' = [out EXCEPT ![c] = Append(@, [box |-> "init", number |-> 0, samples |-> <<>>,
                                               writes |-> Fits(q)])]

\* The read returns; dispose calls OnStop and closes the connection.
ReadReturns(c) ==
  /\ st[c].pc = "reading"
  /\ st' = [st EXCEPT ![c].pc = "disposed"]
  /\ UNCHANGED out

Close(c) ==
  /\ st[c].pc = "disposed"
  /\ st' = [st EXCEPT ![c].pc = "closed"]
  /\ UNCHANGED out

-----------------------------------------------------------------------------
Sample(e) == [kind |-> e.kind, seq |-> e.seq]

\* Mutant: the number is taken when the fragment is encoded.
FeedNumberLate(s, box, f, e) ==
  LET full == Len(f.samples) > FragmentSamples
      new  == [number |-> s.seqNumber,
               samples |-> IF full THEN <<Sample(e)>> ELSE Append(f.samples, Sample(e))]
  IN  {[seqNumber |-> IF full THEN s.seqNumber + 1 ELSE s.seqNumber,
        queued    |-> IF full THEN q + Fits(q) ELSE s.queued,
        sent      |-> IF full
                      THEN Append(s.sent, [box |-> box, number |-> f.number,
                                           samples |-> f.samples, writes |-> Fits(q)])
                      ELSE s.sent,
        vfragment |-> IF box = "video" THEN new ELSE s.vfragment,
        afragment |-> IF box = "audio" THEN new ELSE s.afragment] : q \in 0 .. s.queued}

\* A fragment with its sample; the full one before it is encoded, and a new one is created
\* with the next number.  "s" holds the session and what it encodes; q as in WriteInit.
Feed(s, box, f, e) ==
  LET full  == Len(f.samples) > FragmentSamples
      fresh == full \/ f = NoFragment
      next  == IF fresh THEN s.seqNumber + 1 ELSE s.seqNumber
      new   == [number |-> IF fresh THEN next ELSE f.number,
                samples |-> IF full THEN <<Sample(e)>> ELSE Append(f.samples, Sample(e))]
  IN  {[seqNumber |-> next,
        queued    |-> IF full THEN q + Fits(q) ELSE s.queued,
        sent      |-> IF full
                      THEN Append(s.sent, [box |-> box, number |-> f.number,
                                           samples |-> f.samples, writes |-> Fits(q)])
                      ELSE s.sent,
        vfragment |-> IF box = "video" THEN new ELSE s.vfragment,
        afragment |-> IF box = "audio" THEN new ELSE s.afragment] : q \in 0 .. s.queued}

\* FeedVideo and FeedAudio: audio is AAC only, its sequence header included.
FeedMsg(s, e) ==
  CASE IsVideo(e)                     -> Feed(s, "video", s.vfragment, e)
    [] e.kind \in {"aac", "aacHeader"} -> Feed(s, "audio", s.afragment, e)
    [] OTHER                          -> {s}

\* The messages of one call, one after another.
FeedAll(s, entries) ==
  LET f[i \in 0 .. Len(entries)] ==
        IF i = 0 THEN {s} ELSE UNION {FeedMsg(r, entries[i]) : r \in f[i - 1]}
  IN f[Len(entries)]

OnMsg(c, entries) ==
  \E s \in FeedAll([seqNumber |-> st[c].seqNumber, queued |-> st[c].queued, sent |-> <<>>,
                    vfragment |-> st[c].vfragment, afragment |-> st[c].afragment], entries) :
      /\ st' = [st EXCEPT ![c].seqNumber = s.seqNumber, ![c].queued = s.queued,
                          ![c].vfragment = s.vfragment, ![c].afragment = s.afragment]
      /\ out' = [out EXCEPT ![c] = IF st[c].pc = "closed" THEN @ ELSE @ \o s.sent]
=============================================================================
