------------------------------ MODULE HttpNotify ------------------------------
(***************************************************************************)
(* server/http_notify.go: the events of lal (publisher and subscriber      *)
(* start and stop, relay pull, RTMP connect, HLS segments and the periodic *)
(* update) posted to the web hooks of the operator.                        *)
(*                                                                         *)
(* lal's goroutines call the Notify methods and must not be held up, so    *)
(* an event goes into a channel and one goroutine per channel posts from   *)
(* it.  The updates have a channel of their own.  An event whose hook has  *)
(* no URL, or any event when notifications are off, changes nothing here.  *)
(*                                                                         *)
(* The web server may take the request and still answer too late or with   *)
(* an error: whether the event arrived and what post returns are not       *)
(* related, and post only logs what it returns.                            *)
(***************************************************************************)
EXTENDS Naturals, Sequences

CONSTANTS
  maxTaskLen, \* the length of either channel
  MaxEvents   \* bound: events per channel

ASSUME NotifyAssumption == maxTaskLen \in Nat \ {0} /\ MaxEvents \in Nat

Queues == {"task", "notifyUpdate"}

VARIABLES
  queue,   \* taskQueue and notifyUpdateQueue
  posting, \* the task RunLoop or NotifyUpdateRunLoop took, in a sequence
  fired,   \* history: how many events each channel was offered
  received \* history: what arrived at the web server

vars == <<queue, posting, fired, received>>

Init ==
  /\ queue = [q \in Queues |-> << >>]
  /\ posting = [q \in Queues |-> << >>]
  /\ fired = [q \in Queues |-> 0]
  /\ received = [q \in Queues |-> << >>]

-----------------------------------------------------------------------------
\* Mutants: a full channel loses its oldest task; a channel is full one task too
\* early, or never; the loop takes the newest task.
asyncPostDropOldest(q) ==
  /\ fired[q] < MaxEvents
  /\ fired' = [fired EXCEPT ![q] = @ + 1]
  /\ queue' = [queue EXCEPT ![q] =
                 Append(IF Len(@) < maxTaskLen THEN @ ELSE Tail(@), fired[q] + 1)]
  /\ UNCHANGED <<posting, received>>

asyncPostEarlyFull(q) ==
  /\ fired[q] < MaxEvents
  /\ fired' = [fired EXCEPT ![q] = @ + 1]
  /\ queue' = IF Len(queue[q]) < maxTaskLen - 1
              THEN [queue EXCEPT ![q] = Append(@, fired[q] + 1)]
              ELSE queue
  /\ UNCHANGED <<posting, received>>

asyncPostUnbounded(q) ==
  /\ fired[q] < MaxEvents
  /\ fired' = [fired EXCEPT ![q] = @ + 1]
  /\ queue' = [queue EXCEPT ![q] = Append(@, fired[q] + 1)]
  /\ UNCHANGED <<posting, received>>

RunLoopNewest(q) ==
  /\ posting[q] = << >> /\ queue[q] # << >>
  /\ posting' = [posting EXCEPT ![q] = <<queue[q][Len(queue[q])]>>]
  /\ queue' = [queue EXCEPT ![q] = SubSeq(@, 1, Len(@) - 1)]
  /\ UNCHANGED <<fired, received>>

\* asyncPost and notifyUpdateAsyncPost: a full channel turns the event away.
asyncPost(q) ==
  /\ fired[q] < MaxEvents
  /\ fired' = [fired EXCEPT ![q] = @ + 1]
  /\ queue' = IF Len(queue[q]) < maxTaskLen
              THEN [queue EXCEPT ![q] = Append(@, fired[q] + 1)]
              ELSE queue
  /\ UNCHANGED <<posting, received>>

\* RunLoop and NotifyUpdateRunLoop
RunLoop(q) ==
  /\ posting[q] = << >> /\ queue[q] # << >>
  /\ posting' = [posting EXCEPT ![q] = <<Head(queue[q])>>]
  /\ queue' = [queue EXCEPT ![q] = Tail(@)]
  /\ UNCHANGED <<fired, received>>

post(q) ==
  /\ posting[q] # << >>
  /\ received' \in {received, [received EXCEPT ![q] = @ \o posting[q]]}
  /\ posting' = [posting EXCEPT ![q] = << >>]
  /\ UNCHANGED <<queue, fired>>

Next == \E q \in Queues : asyncPost(q) \/ RunLoop(q) \/ post(q)

\* The goroutines run whenever they can, and the HTTP client gives up on a
\* request after notifyTimeoutSec.
Fairness == \A q \in Queues : WF_vars(RunLoop(q)) /\ WF_vars(post(q))

Spec == Init /\ [][Next]_vars /\ Fairness

-----------------------------------------------------------------------------
(***************************************************************************)
(* Properties.                                                             *)
(***************************************************************************)

TypeOK ==
  /\ queue \in [Queues -> Seq(Nat)] /\ \A q \in Queues : Len(queue[q]) <= maxTaskLen
  /\ posting \in [Queues -> Seq(Nat)] /\ \A q \in Queues : Len(posting[q]) <= 1
  /\ fired \in [Queues -> Nat]
  /\ received \in [Queues -> Seq(Nat)]

Increasing(s) == \A i, j \in DOMAIN s : i < j => s[i] < s[j]

\* The web server gets the events of a channel in the order in which they
\* happened and none twice, whatever was turned away and whichever posts
\* failed: a stop never comes before the start it ends.
ReceivedInOrder == \A q \in Queues : Increasing(received[q])

\* Each channel with its goroutine is the queue of LossyFifo.
TaskFifo == INSTANCE LossyFifo WITH
              Capacity <- maxTaskLen,
              offered  <- fired["task"],
              pending  <- posting["task"] \o queue["task"],
              received <- received["task"]
UpdateFifo == INSTANCE LossyFifo WITH
              Capacity <- maxTaskLen,
              offered  <- fired["notifyUpdate"],
              pending  <- posting["notifyUpdate"] \o queue["notifyUpdate"],
              received <- received["notifyUpdate"]
RefinesLossyFifo == TaskFifo!Spec /\ UpdateFifo!Spec

\* An event that was not turned away is eventually posted, also when every
\* post before it fails.
AcceptedIsPosted ==
  \A q \in Queues : \A n \in 1 .. MaxEvents :
    (\E i \in DOMAIN queue[q] : queue[q][i] = n) ~> (posting[q] = <<n>>)
=============================================================================
