------------------------------- MODULE GbMedia -------------------------------
(***************************************************************************)
(* The media side of GB28181 (gb28181/channel.go, gb28181/server.go and    *)
(* gb28181/mediaserver): start_play INVITEs a camera's channel and opens a *)
(* media server for it, the camera connects and its stream is published in *)
(* lal, and stop_play, a BYE of the device or the end of the connection    *)
(* takes it all down again.  Every channel has a port of its own here (the *)
(* multi port mode).                                                       *)
(*                                                                         *)
(* None of this is locked.  The goroutines are the threads of the model:   *)
(* one per Invite, one per accepted connection, and those of the HTTP and  *)
(* SIP handlers.  pc is the next step of a thread; a step reads or writes  *)
(* shared state at one point of the code.                                  *)
(*                                                                         *)
(* An INVITE stands for its SIP dialog, its SSRC (drawn anew for each: see *)
(* README) and the media server it creates, if it creates one.  A panic    *)
(* outside gin's handlers ends the process: crashed.                       *)
(***************************************************************************)
EXTENDS Naturals, FiniteSets

CONSTANTS
  Channels,  \* cameras that are online
  Streams,   \* stream names start_play asks for
  Ports,     \* the range of the port pool
  Invites,   \* goroutines running Channel.Invite
  Conns,     \* goroutines running Conn.Serve
  StopCalls, \* goroutines of stop_play requests
  ByeCalls,  \* goroutines of BYE requests
  Nil        \* no value: a nil pointer, SSRC 0, the empty name

ASSUME GbAssumption ==
  /\ Nil \notin Channels \cup Streams \cup Ports \cup Invites \cup Conns
  /\ Invites \cap Conns = {} /\ Invites \cap StopCalls = {} /\ Invites \cap ByeCalls = {}
  /\ Conns \cap StopCalls = {} /\ Conns \cap ByeCalls = {} /\ StopCalls \cap ByeCalls = {}

Threads == Invites \cup Conns \cup StopCalls \cup ByeCalls
Names == Streams \cup {Nil}

VARIABLES
  pc,       \* the next step of each thread
  chan,     \* the channel a thread works on
  name,     \* the stream name an Invite was given, c.streamName of a connection
  at,       \* the media server of an Invite, or that accepted a connection
  held,     \* the media server a thread is about to stop
  info,     \* MediaInfo of each channel
  ackReq,   \* the dialog a channel can send BYE in
  played,   \* whether a channel's playInfo is set
  svrMap,   \* MediaServerMap
  key,      \* the mediaKey of each media server: its port
  bound,    \* media servers whose listener is open
  started,  \* media servers that have run Start
  disposed, \* media servers that have run Dispose
  conns,    \* the connections each media server knows, by stream name
  dialog,   \* the device's side of each dialog
  feed,     \* the dialog whose media a connection carries
  closed,   \* connections that have run Close
  pub,      \* what a connection publishes in lal: one stream or none
  crashed   \* a goroutine has panicked

threadVars == <<pc, chan, name, at, held>>
chanVars == <<info, ackReq, played>>
svrVars == <<svrMap, key, bound, started, disposed>>
connVars == <<conns, feed, closed, pub>>
vars == <<threadVars, chanVars, svrVars, connVars, dialog, crashed>>

MediaInfo == [isInvite : BOOLEAN, ssrc : Invites \cup {Nil}, stream : Names, key : Ports \cup {Nil}]
NoMedia == [isInvite |-> FALSE, ssrc |-> Nil, stream |-> Nil, key |-> Nil]

\* MediaInfo.Clear: MediaKey stays.
Cleared(m) == [NoMedia EXCEPT !.key = m.key]

Init ==
  /\ pc = [t \in Threads |-> IF t \in Invites \cup Conns THEN "new" ELSE "idle"]
  /\ chan = [t \in Threads |-> Nil]
  /\ name = [t \in Invites \cup Conns |-> Nil]
  /\ at = [t \in Invites \cup Conns |-> Nil]
  /\ held = [t \in Threads |-> Nil]
  /\ info = [c \in Channels |-> NoMedia]
  /\ ackReq = [c \in Channels |-> Nil]
  /\ played = [c \in Channels |-> FALSE]
  /\ svrMap = [c \in Channels |-> Nil]
  /\ key = [s \in Invites |-> Nil]
  /\ bound = {} /\ started = {} /\ disposed = {}
  /\ conns = [s \in Invites |-> [n \in Names |-> Nil]]
  /\ dialog = [i \in Invites |-> "none"]
  /\ feed = [k \in Conns |-> Nil]
  /\ closed = {}
  /\ pub = [k \in Conns |-> {}]
  /\ crashed = FALSE

Crash ==
  /\ crashed' = TRUE
  /\ UNCHANGED <<threadVars, chanVars, svrVars, connVars, dialog>>

At(t, step) == pc[t] = step /\ ~crashed
Goto(t, step) == pc' = [pc EXCEPT ![t] = step]

-----------------------------------------------------------------------------
(* Starting: start_play, TryAutoInvite and the goroutine of Invite. *)

\* TryAutoInvite: CanInvite looks at IsInvite, which Invite sets much later.
TryAutoInvite(i, c, n) ==
  /\ At(i, "new")
  /\ ~info[c].isInvite
  /\ Goto(i, "load")
  /\ chan' = [chan EXCEPT ![i] = c]
  /\ name' = [name EXCEPT ![i] = n]
  /\ UNCHANGED <<at, held, chanVars, svrVars, connVars, dialog, crashed>>

\* OnStartMediaServer: a media server the channel already has is used again ...
LoadMediaServer(i) ==
  /\ At(i, "load")
  /\ at' = [at EXCEPT ![i] = svrMap[chan[i]]]
  /\ Goto(i, IF svrMap[chan[i]] = Nil THEN "acquire" ELSE "invite")
  /\ UNCHANGED <<chan, name, held, chanVars, svrVars, connVars, dialog, crashed>>

\* ... or one is made on the next free port, and Start left to a goroutine.  Nobody
\* else can see the listener before MediaServerMap.Store: one step.
AcquireMediaServer(i) ==
  /\ At(i, "acquire")
  /\ \E p \in Ports \ {key[s] : s \in bound} :
       key' = [key EXCEPT ![i] = p]
  /\ bound' = bound \cup {i}
  /\ svrMap' = [svrMap EXCEPT ![chan[i]] = i]
  /\ at' = [at EXCEPT ![i] = i]
  /\ Goto(i, "invite")
  /\ UNCHANGED <<chan, name, held, started, disposed, chanVars, connVars, dialog, crashed>>

\* Acquire found no port: other programs may hold any of them.
AcquireFails(i) ==
  /\ At(i, "acquire")
  /\ Goto(i, "done")
  /\ chan' = [chan EXCEPT ![i] = Nil]
  /\ name' = [name EXCEPT ![i] = Nil]
  /\ UNCHANGED <<at, held, chanVars, svrVars, connVars, dialog, crashed>>

\* GB28181MediaServer.Start: from here Dispose finds the listener.
Start(s) ==
  /\ ~crashed
  /\ key[s] # Nil /\ s \notin started
  /\ started' = started \cup {s}
  /\ UNCHANGED <<threadVars, chanVars, svrMap, key, bound, disposed, connVars, dialog, crashed>>

\* The device accepts the INVITE: for the device the dialog is up.
InviteAccepted(i) ==
  /\ At(i, "invite")
  /\ dialog' = [dialog EXCEPT ![i] = "up"]
  /\ Goto(i, "answered")
  /\ UNCHANGED <<chan, name, at, held, chanVars, svrVars, connVars, crashed>>

\* It refuses, or the transaction times out: OnStopMediaServer.
InviteRefused(i) ==
  /\ At(i, "invite")
  /\ Goto(i, "stop")
  /\ name' = [name EXCEPT ![i] = Nil]
  /\ at' = [at EXCEPT ![i] = Nil]
  /\ UNCHANGED <<chan, held, chanVars, svrVars, connVars, dialog, crashed>>

SetInvited(i) ==
  /\ At(i, "answered")
  /\ info' = [info EXCEPT ![chan[i]] = [@ EXCEPT !.isInvite = TRUE, !.ssrc = i]]
  /\ Goto(i, "named")
  /\ UNCHANGED <<chan, name, at, held, ackReq, played, svrVars, connVars, dialog, crashed>>

\* Mutant: the key names the media server, not its port.
SetStreamServerKey(i) ==
  /\ At(i, "named")
  /\ info' = [info EXCEPT ![chan[i]] = [@ EXCEPT !.stream = name[i], !.key = at[i]]]
  /\ Goto(i, "ack")
  /\ UNCHANGED <<chan, name, at, held, ackReq, played, svrVars, connVars, dialog, crashed>>

SetStream(i) ==
  /\ At(i, "named")
  /\ info' = [info EXCEPT ![chan[i]] = [@ EXCEPT !.stream = name[i], !.key = key[at[i]]]]
  /\ Goto(i, "ack")
  /\ UNCHANGED <<chan, name, at, held, ackReq, played, svrVars, connVars, dialog, crashed>>

SendAck(i) ==
  /\ At(i, "ack")
  /\ ackReq' = [ackReq EXCEPT ![chan[i]] = i]
  /\ played' = [played EXCEPT ![chan[i]] = TRUE]
  /\ Goto(i, "done")
  /\ chan' = [chan EXCEPT ![i] = Nil]
  /\ name' = [name EXCEPT ![i] = Nil]
  /\ UNCHANGED <<at, held, info, svrVars, connVars, dialog, crashed>>

-----------------------------------------------------------------------------
(* Stopping.  Channel.Bye and byeClear run in any of three kinds of thread, *)
(* OnStopMediaServer in all four; where a thread goes on depends on it.     *)

AfterStop(t) ==
  CASE t \in Invites -> "done"
    [] t \in StopCalls -> "idle"
    [] OTHER -> "clear"

\* A thread drops what it no longer needs.
Return(t) ==
  /\ Goto(t, AfterStop(t))
  /\ held' = [held EXCEPT ![t] = Nil]
  /\ chan' = IF t \in Invites \cup StopCalls THEN [chan EXCEPT ![t] = Nil] ELSE chan

\* GbLogic.StopPlay
StopPlay(t, c) ==
  /\ At(t, "idle") /\ t \in StopCalls
  /\ chan' = [chan EXCEPT ![t] = c]
  /\ Goto(t, "bye")
  /\ UNCHANGED <<name, at, held, chanVars, svrVars, connVars, dialog, crashed>>

\* GB28181Server.OnBye: the device ends dialog i, known by the call id of a channel
\* or not.
OnBye(t, i) ==
  /\ At(t, "idle") /\ t \in ByeCalls
  /\ dialog[i] = "up"
  /\ dialog' = [dialog EXCEPT ![i] = "down"]
  /\ \/ \E c \in Channels : /\ ackReq[c] = i
                           /\ chan' = [chan EXCEPT ![t] = c]
                           /\ Goto(t, "stop")
     \/ /\ \A c \in Channels : ackReq[c] # i
        /\ UNCHANGED <<pc, chan>>
  /\ UNCHANGED <<name, at, held, chanVars, svrVars, connVars, crashed>>

\* Channel.Bye, first its test of ackReq ...
CheckAckReq(t) ==
  /\ At(t, "bye")
  /\ Goto(t, IF ackReq[chan[t]] = Nil THEN "stop" ELSE "take")
  /\ UNCHANGED <<chan, name, at, held, chanVars, svrVars, connVars, dialog, crashed>>

\* ... then reading it again: the BYE reaches the device or is lost.  Two Byes that
\* read the same request would only send the BYE twice.
SendBye(t) ==
  /\ At(t, "take")
  /\ ackReq[chan[t]] # Nil
  /\ ackReq' = [ackReq EXCEPT ![chan[t]] = Nil]
  /\ \/ dialog' = [dialog EXCEPT ![ackReq[chan[t]]] = "down"]
     \/ UNCHANGED dialog
  /\ Goto(t, "stop")
  /\ UNCHANGED <<chan, name, at, held, info, played, svrVars, connVars, crashed>>

\* Another Bye took it in between: a call on nil panics; gin recovers stop_play.
ByePanics(t) ==
  /\ At(t, "take")
  /\ ackReq[chan[t]] = Nil
  /\ \/ /\ t \in StopCalls
        /\ Return(t)
        /\ UNCHANGED <<name, at, chanVars, svrVars, connVars, dialog, crashed>>
     \/ t \notin StopCalls /\ Crash

\* stopMediaServer does nothing without playInfo; Invite calls OnStopMediaServer itself.
LoadForStop(t) ==
  /\ At(t, "stop")
  /\ LET s == IF t \in Invites \/ played[chan[t]] THEN svrMap[chan[t]] ELSE Nil IN
       IF s = Nil
       THEN Return(t)
       ELSE Goto(t, "delete") /\ held' = [held EXCEPT ![t] = s] /\ UNCHANGED chan
  /\ UNCHANGED <<name, at, chanVars, svrVars, connVars, dialog, crashed>>

\* Mutant: the media server stays in the map.
DeleteMediaServerKept(t) ==
  /\ At(t, "delete")
  /\ Goto(t, "dispose")
  /\ UNCHANGED <<chan, name, at, held, chanVars, svrVars, connVars, dialog, crashed>>

DeleteMediaServer(t) ==
  /\ At(t, "delete")
  /\ svrMap' = [svrMap EXCEPT ![chan[t]] = Nil]
  /\ Goto(t, "dispose")
  /\ UNCHANGED <<chan, name, at, held, chanVars, key, bound, started, disposed,
                 connVars, dialog, crashed>>

\* GB28181MediaServer.Dispose, once for each media server: it closes the
\* connections that are registered now, and the listener if Start has run.
Dispose(t) ==
  /\ At(t, "dispose")
  /\ LET s == held[t]
         registered == {conns[s][n] : n \in Names} \ {Nil}
     IN IF s \in disposed
        THEN UNCHANGED <<closed, bound, disposed>>
        ELSE /\ closed' = closed \cup registered
             /\ bound' = IF s \in started THEN bound \ {s} ELSE bound
             /\ disposed' = disposed \cup {s}
  /\ Return(t)
  /\ UNCHANGED <<name, at, chanVars, svrMap, key, started, conns, feed, pub,
                 dialog, crashed>>

\* The accept loop reads s.listener twice: Dispose in between leaves it a nil
\* listener, and Accept on nil panics.
DisposePanics(t) ==
  /\ At(t, "dispose")
  /\ held[t] \in started \ disposed
  /\ Crash

\* Mutant: NotifyClose leaves it to Bye to clear the channel.
ClearByByeOnly(t) ==
  /\ At(t, "clear")
  /\ info' = IF t \in ByeCalls THEN [info EXCEPT ![chan[t]] = Cleared(@)] ELSE info
  /\ ackReq' = IF t \in ByeCalls THEN [ackReq EXCEPT ![chan[t]] = Nil] ELSE ackReq
  /\ Goto(t, IF t \in ByeCalls THEN "idle" ELSE "unpublish")
  /\ chan' = [chan EXCEPT ![t] = Nil]
  /\ UNCHANGED <<name, at, held, played, svrVars, connVars, dialog, crashed>>

\* The end of byeClear, and of NotifyClose for a channel it found invited.
Clear(t) ==
  /\ At(t, "clear")
  /\ info' = [info EXCEPT ![chan[t]] = Cleared(@)]
  /\ ackReq' = IF t \in ByeCalls THEN [ackReq EXCEPT ![chan[t]] = Nil] ELSE ackReq
  /\ Goto(t, IF t \in ByeCalls THEN "idle" ELSE "unpublish")
  /\ chan' = [chan EXCEPT ![t] = Nil]
  /\ UNCHANGED <<name, at, held, played, svrVars, connVars, dialog, crashed>>

\* addOrUpdateChannel, from a catalog the device sends: ChannelInfo is replaced as
\* a whole, the MediaInfo in it included; ackReq and playInfo are not part of it.
Catalog(c) ==
  /\ ~crashed
  /\ info' = [info EXCEPT ![c] = NoMedia]
  /\ UNCHANGED <<threadVars, ackReq, played, svrVars, connVars, dialog, crashed>>

-----------------------------------------------------------------------------
(* Conn.Serve *)

Accept(k, s) ==
  /\ At(k, "new")
  /\ s \in started \cap bound
  /\ at' = [at EXCEPT ![k] = s]
  /\ Goto(k, "reading")
  /\ UNCHANGED <<chan, name, held, chanVars, svrVars, connVars, dialog, crashed>>

\* The first packet: CheckSsrc finds the channel by the SSRC, GetMediaInfoByKey by
\* the port when the SSRC is zero; the connection is known to the media server from
\* here on, under the stream name the channel has now.
FirstPacket(k, i) ==
  /\ At(k, "reading")
  /\ dialog[i] = "up" /\ at[i] = at[k] /\ k \notin closed
  /\ \E c \in Channels :
       /\ info[c].ssrc = i \/ info[c].key = key[at[k]]
       /\ chan' = [chan EXCEPT ![k] = c]
       /\ name' = [name EXCEPT ![k] = info[c].stream]
       /\ conns' = [conns EXCEPT ![at[k]][info[c].stream] = k]
  /\ feed' = [feed EXCEPT ![k] = i]
  /\ Goto(k, "publish")
  /\ UNCHANGED <<at, held, chanVars, svrVars, closed, pub, dialog, crashed>>

\* AddCustomizePubSession reads the name again; lal takes one publisher per stream.
Publish(k) ==
  /\ At(k, "publish")
  /\ LET n == info[chan[k]].stream IN
       /\ \A other \in Conns : n \notin pub[other]
       /\ pub' = [pub EXCEPT ![k] = {n}]
  /\ Goto(k, "serving")
  /\ UNCHANGED <<chan, name, at, held, chanVars, svrVars, conns, feed, closed, dialog, crashed>>

\* It fails when a connection or another protocol publishes the stream.
PublishFails(k) ==
  /\ At(k, "publish")
  /\ Goto(k, "closing")
  /\ UNCHANGED <<chan, name, at, held, chanVars, svrVars, connVars, dialog, crashed>>

\* The read loop ends: the peer hangs up, nothing comes for ten seconds, the socket
\* was closed here, or the first packet is of no session.
ReadFails(k) ==
  /\ pc[k] \in {"reading", "serving"} /\ ~crashed
  /\ Goto(k, "closing")
  /\ UNCHANGED <<chan, name, at, held, chanVars, svrVars, connVars, dialog, crashed>>

\* The deferred function: Close, then NotifyClose, which looks for a channel by the
\* stream name of the connection.
NotifyClose(k) ==
  /\ At(k, "closing")
  /\ closed' = closed \cup {k}
  /\ \/ /\ \A c \in Channels : info[c].stream # name[k]
        /\ Goto(k, "unpublish")
        /\ chan' = [chan EXCEPT ![k] = Nil]
        /\ UNCHANGED info
     \/ \E c \in Channels :
          /\ info[c].stream = name[k]
          /\ IF info[c].isInvite
             THEN Goto(k, "bye") /\ chan' = [chan EXCEPT ![k] = c] /\ UNCHANGED info
             ELSE /\ info' = [info EXCEPT ![c] = Cleared(@)]
                  /\ Goto(k, "unpublish")
                  /\ chan' = [chan EXCEPT ![k] = Nil]
  /\ UNCHANGED <<name, at, held, ackReq, played, svrVars, conns, feed, pub, dialog, crashed>>

\* Mutants: only a connection with a stream name takes its publisher away; the
\* connection stays registered.
UnpublishNamed(k) ==
  /\ At(k, "unpublish")
  /\ pub' = IF name[k] = Nil THEN pub ELSE [pub EXCEPT ![k] = {}]
  /\ Goto(k, "forget")
  /\ UNCHANGED <<chan, name, at, held, chanVars, svrVars, conns, feed, closed, dialog, crashed>>

ForgetNothing(k) ==
  /\ At(k, "forget")
  /\ Goto(k, "done")
  /\ name' = [name EXCEPT ![k] = Nil]
  /\ at' = [at EXCEPT ![k] = Nil]
  /\ feed' = [feed EXCEPT ![k] = Nil]
  /\ UNCHANGED <<chan, held, chanVars, svrVars, conns, closed, pub, dialog, crashed>>

\* DelCustomizePubSession, if it had one
Unpublish(k) ==
  /\ At(k, "unpublish")
  /\ pub' = [pub EXCEPT ![k] = {}]
  /\ Goto(k, "forget")
  /\ UNCHANGED <<chan, name, at, held, chanVars, svrVars, conns, feed, closed, dialog, crashed>>

\* s.conns.Delete(c.streamName), whosever the entry is
Forget(k) ==
  /\ At(k, "forget")
  /\ conns' = [conns EXCEPT ![at[k]][name[k]] = Nil]
  /\ Goto(k, "done")
  /\ name' = [name EXCEPT ![k] = Nil]
  /\ at' = [at EXCEPT ![k] = Nil]
  /\ feed' = [feed EXCEPT ![k] = Nil]
  /\ UNCHANGED <<chan, held, chanVars, svrVars, closed, pub, dialog, crashed>>

-----------------------------------------------------------------------------
Stopping(t) ==
  \/ CheckAckReq(t) \/ SendBye(t) \/ ByePanics(t)
  \/ LoadForStop(t) \/ DeleteMediaServer(t) \/ Dispose(t) \/ DisposePanics(t)
  \/ Clear(t)

Inviting(i) ==
  \/ LoadMediaServer(i) \/ AcquireMediaServer(i) \/ AcquireFails(i)
  \/ InviteAccepted(i) \/ InviteRefused(i)
  \/ SetInvited(i) \/ SetStream(i) \/ SendAck(i)
  \/ Stopping(i)

\* The steps of Conn.Serve that wait for nobody outside the program
Closing(k) ==
  \/ Publish(k) \/ PublishFails(k)
  \/ NotifyClose(k) \/ Stopping(k) \/ Unpublish(k) \/ Forget(k)

\* Requests and messages, and the answer of CanInvite
Calls ==
  \/ \E i \in Invites, c \in Channels, n \in Streams : TryAutoInvite(i, c, n)
  \/ \E t \in StopCalls, c \in Channels : StopPlay(t, c)
  \/ \E t \in ByeCalls, i \in Invites : OnBye(t, i)
  \/ \E c \in Channels : Catalog(c)

Next ==
  \/ Calls
  \/ \E i \in Invites : Inviting(i) \/ Start(i)
  \/ \E t \in StopCalls \cup ByeCalls : Stopping(t)
  \/ \E k \in Conns : \/ Closing(k) \/ ReadFails(k)
                      \/ \E s \in Invites : Accept(k, s)
                      \/ \E i \in Invites : FirstPacket(k, i)

\* No media can come any more: the socket is closed here, or the device has ended
\* the session its media belonged to.
Dead(k) == k \in closed \/ (feed[k] # Nil /\ dialog[feed[k]] = "down")

\* The goroutine of a connection runs, and a dead connection fails to read within
\* the ten seconds of its deadline.  No other thread has to move for what follows.
Fairness ==
  \A k \in Conns : WF_vars(Closing(k)) /\ WF_vars(Dead(k) /\ ReadFails(k))

Spec == Init /\ [][Next]_vars /\ Fairness

-----------------------------------------------------------------------------
Steps == {"new", "idle", "load", "acquire", "invite", "answered", "named", "ack",
          "bye", "take", "stop", "delete", "dispose", "clear",
          "reading", "publish", "serving", "closing", "unpublish", "forget", "done"}

ThreadTypes ==
  /\ pc \in [Threads -> Steps]
  /\ chan \in [Threads -> Channels \cup {Nil}]
  /\ name \in [Invites \cup Conns -> Names]
  /\ at \in [Invites \cup Conns -> Invites \cup {Nil}]
  /\ held \in [Threads -> Invites \cup {Nil}]

ChannelTypes ==
  /\ info \in [Channels -> MediaInfo]
  /\ ackReq \in [Channels -> Invites \cup {Nil}]
  /\ played \in [Channels -> BOOLEAN]

ServerTypes ==
  /\ svrMap \in [Channels -> Invites \cup {Nil}]
  /\ key \in [Invites -> Ports \cup {Nil}]
  /\ bound \subseteq Invites /\ started \subseteq Invites /\ disposed \subseteq Invites

ConnTypes ==
  /\ conns \in [Invites -> [Names -> Conns \cup {Nil}]]
  /\ feed \in [Conns -> Invites \cup {Nil}]
  /\ closed \subseteq Conns
  /\ pub \in [Conns -> SUBSET Names]

\* Every variable has its type.
TypeOK ==
  /\ ThreadTypes /\ ChannelTypes /\ ServerTypes /\ ConnTypes
  /\ dialog \in [Invites -> {"none", "up", "down"}]
  /\ crashed \in BOOLEAN

\* An INVITE is never given a media server that has been disposed of: whatever
\* number of goroutines stop the same channel at once, MediaServerMap only holds
\* media servers that are still to be disposed of (server.go:222-260 against :170).
MapHoldsLive == \A c \in Channels : svrMap[c] \notin disposed

\* Dispose and CloseConn only meet connections whose goroutine still runs: an entry
\* never outlives the connection it names (mediaserver/server.go:66-69), even when
\* several connections share a stream name.
RegisteredIsAlive ==
  \A s \in Invites, n \in Names :
    conns[s][n] # Nil => pc[conns[s][n]] \notin {"new", "reading", "done"}

\* The channels that have stream name n.
Holders(n) == {c \in Channels : info[c].stream = n}

\* A channel that alone has the stream name of a dead connection is freed, so that it can be
\* invited again: NotifyClose clears the channel it finds by the name (server.go:316-337),
\* whoever else invites or stops channels at the time.  When several channels have the name it
\* clears the first it comes to, and the others may stay invited for ever.
ChannelIsFreed ==
  \A k \in Conns, n \in Streams, c \in Channels :
    (pc[k] = "serving" /\ Dead(k) /\ name[k] = n /\ Holders(n) = {c})
      ~> (crashed \/ Holders(n) # {c})

\* A connection that is dead leaves no publisher behind in lal, also when it was
\* closed before it had published (mediaserver/conn.go:79-93).
PublisherGoes == \A k \in Conns : (Dead(k) ~> (crashed \/ pub[k] = {}))

\* channel.go:100 says of Invite: the lock in it, which the channel holds, ensures
\* that INVITEs are not sent at the same time.
DocOneInviteAtATime ==
  \A i, j \in Invites : (pc[i] = "invite" /\ pc[j] = "invite" /\ chan[i] = chan[j]) => i = j

=============================================================================
