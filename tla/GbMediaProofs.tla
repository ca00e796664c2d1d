---------------------------- MODULE GbMediaProofs ----------------------------
(***************************************************************************)
(* What holds of GbMedia for any number of channels, INVITEs, connections  *)
(* and requests: the types, and that MediaServerMap never holds a media    *)
(* server that has been disposed of.                                       *)
(***************************************************************************)
EXTENDS GbMedia, TLAPS

USE DEF At, Goto, threadVars, chanVars, svrVars, connVars

-----------------------------------------------------------------------------
(* The inductive invariant *)

\* A thread at one of these steps works on a channel.
Working == {"load", "acquire", "invite", "answered", "named", "ack",
            "bye", "take", "stop", "delete", "dispose", "clear", "publish"}

\* What a thread goes on to use is there.
Located ==
  /\ \A t \in Threads : pc[t] \in Working => chan[t] \in Channels
  /\ \A t \in Threads : pc[t] \in {"delete", "dispose"} => held[t] \in Invites
  /\ \A i \in Invites : pc[i] \in {"invite", "answered", "named", "ack"} => at[i] \in Invites
  /\ \A k \in Conns : pc[k] \notin {"new", "done"} => at[k] \in Invites

\* A media server not made yet is nowhere; one in the map is the map's for one
\* channel only, is not disposed of, and no thread past DeleteMediaServer has it.
MapInv ==
  /\ \A s \in Invites : pc[s] \in {"new", "load", "acquire"} =>
       /\ s \notin disposed
       /\ \A c \in Channels : svrMap[c] # s
       /\ \A t \in Threads : pc[t] \in {"delete", "dispose"} => held[t] # s
  /\ \A c, d \in Channels : svrMap[c] # Nil /\ svrMap[c] = svrMap[d] => c = d
  /\ \A t \in Threads, c \in Channels :
       /\ pc[t] = "delete" /\ svrMap[c] = held[t] => c = chan[t]
       /\ pc[t] = "dispose" => svrMap[c] # held[t]
  /\ MapHoldsLive

\* A connection has one entry at most, at its own media server under its own name.
RegisteredInv ==
  \A s \in Invites, n \in Names : conns[s][n] # Nil =>
    /\ at[conns[s][n]] = s /\ name[conns[s][n]] = n
    /\ pc[conns[s][n]] \notin {"new", "reading", "done"}

IInv == TypeOK /\ Located /\ MapInv /\ RegisteredInv

\* The step labels
LEMMA Labels ==
  /\ "new" \in Steps /\ "idle" \in Steps /\ "load" \in Steps /\ "acquire" \in Steps
  /\ "invite" \in Steps /\ "answered" \in Steps /\ "named" \in Steps /\ "ack" \in Steps
  /\ "bye" \in Steps /\ "take" \in Steps /\ "stop" \in Steps /\ "delete" \in Steps
  /\ "dispose" \in Steps /\ "clear" \in Steps /\ "reading" \in Steps
  /\ "publish" \in Steps /\ "serving" \in Steps /\ "closing" \in Steps
  /\ "unpublish" \in Steps /\ "forget" \in Steps /\ "done" \in Steps
  BY DEF Steps

\* The threads and the empty name
LEMMA Members ==
  /\ Nil \in Names
  /\ \A n \in Streams : n \in Names
  /\ \A i \in Invites : i \in Threads /\ i \in Invites \cup Conns
  /\ \A k \in Conns : k \in Threads /\ k \in Invites \cup Conns
  /\ \A t \in StopCalls \cup ByeCalls : t \in Threads
  BY DEF Threads, Names

\* Clear and the catalog leave a MediaInfo.
LEMMA MediaMembers ==
  /\ NoMedia \in MediaInfo
  /\ \A m \in MediaInfo : Cleared(m) \in MediaInfo
  BY DEF Cleared, NoMedia, MediaInfo, Names

\* SetInvited writes a MediaInfo.
LEMMA InvitedMember ==
  ASSUME NEW m \in MediaInfo, NEW i \in Invites
  PROVE  [m EXCEPT !.isInvite = TRUE, !.ssrc = i] \in MediaInfo
  BY DEF MediaInfo

\* SetStream writes a MediaInfo.
LEMMA StreamMember ==
  ASSUME NEW m \in MediaInfo, NEW n \in Names, NEW p \in Ports \cup {Nil}
  PROVE  [m EXCEPT !.stream = n, !.key = p] \in MediaInfo
  BY DEF MediaInfo

\* The start
LEMMA TypeInit == Init => TypeOK /\ Located
<1>1. Init => ThreadTypes
  BY Labels, Members DEF Init, ThreadTypes
<1>2. Init => ChannelTypes
  BY MediaMembers DEF Init, ChannelTypes
<1>3. Init => ServerTypes
  BY DEF Init, ServerTypes
<1>4. Init => ConnTypes
  BY DEF Init, ConnTypes
<1>5. Init => Located
  BY Members DEF Init, Located, Working, Threads
<1>. QED
  BY <1>1, <1>2, <1>3, <1>4, <1>5 DEF Init, TypeOK

-----------------------------------------------------------------------------
(* The types: kept by every step of every kind of thread. *)

\* The steps of Invite, and Start
LEMMA TypeInviting ==
  ASSUME TypeOK, Located, NEW i \in Invites,
         Inviting(i) \/ Start(i), ~Stopping(i)
  PROVE  TypeOK'
<1>. USE DEF TypeOK, ThreadTypes, ChannelTypes, ServerTypes, ConnTypes
<1>1. \A s \in Working : pc[i] = s => chan[i] \in Channels
  BY Members DEF Located
<1>2. CASE LoadMediaServer(i)
  BY <1>2, <1>1, Labels, Members DEF LoadMediaServer, Working
<1>3. CASE AcquireMediaServer(i)
  BY <1>3, <1>1, Labels, Members DEF AcquireMediaServer, Working
<1>4. CASE AcquireFails(i)
  BY <1>4, Labels, Members DEF AcquireFails
<1>5. CASE Start(i)
  BY <1>5, Members DEF Start
<1>6. CASE InviteAccepted(i)
  BY <1>6, Labels, Members DEF InviteAccepted
<1>7. CASE InviteRefused(i)
  BY <1>7, Labels, Members DEF InviteRefused
<1>8. CASE SetInvited(i)
  <2>1. chan[i] \in Channels
    BY <1>1, <1>8 DEF SetInvited, Working
  <2>2. [info[chan[i]] EXCEPT !.isInvite = TRUE, !.ssrc = i] \in MediaInfo
    BY <2>1, InvitedMember
  <2>3. info' \in [Channels -> MediaInfo]
    BY <1>8, <2>1, <2>2 DEF SetInvited
  <2>. QED
    BY <1>8, <2>3, Labels, Members DEF SetInvited
<1>9. CASE SetStream(i)
  <2>1. chan[i] \in Channels /\ at[i] \in Invites
    BY <1>1, <1>9 DEF SetStream, Working, Located
  <2>2. name[i] \in Names /\ key[at[i]] \in Ports \cup {Nil}
    BY <2>1, Members
  <2>3. [info[chan[i]] EXCEPT !.stream = name[i], !.key = key[at[i]]] \in MediaInfo
    BY <2>1, <2>2, StreamMember
  <2>4. info' \in [Channels -> MediaInfo]
    BY <1>9, <2>1, <2>3 DEF SetStream
  <2>. QED
    BY <1>9, <2>4, Labels, Members DEF SetStream
<1>10. CASE SendAck(i)
  BY <1>10, <1>1, Labels, Members DEF SendAck, Working
<1>. QED
  BY <1>2, <1>3, <1>4, <1>5, <1>6, <1>7, <1>8, <1>9, <1>10 DEF Inviting

\* Bye, byeClear and OnStopMediaServer, in any thread
LEMMA TypeStopping ==
  ASSUME TypeOK, Located, NEW t \in Threads,
         Stopping(t)
  PROVE  TypeOK'
<1>. USE DEF TypeOK, ThreadTypes, ChannelTypes, ServerTypes, ConnTypes
<1>1. \A s \in Working : pc[t] = s => chan[t] \in Channels
  BY DEF Located
<1>2. AfterStop(t) \in Steps
  BY Labels DEF AfterStop
<1>3. Return(t) => /\ pc' \in [Threads -> Steps]
                   /\ chan' \in [Threads -> Channels \cup {Nil}]
                   /\ held' \in [Threads -> Invites \cup {Nil}]
  BY <1>2 DEF Return
<1>4. CASE CheckAckReq(t)
  BY <1>4, Labels DEF CheckAckReq
<1>5. CASE SendBye(t)
  BY <1>5, <1>1, Labels DEF SendBye, Working
<1>6. CASE ByePanics(t)
  BY <1>6, <1>3 DEF ByePanics, Crash
<1>7. CASE LoadForStop(t)
  BY <1>7, <1>1, <1>3, Labels DEF LoadForStop, Working
<1>8. CASE DeleteMediaServer(t)
  BY <1>8, <1>1, Labels DEF DeleteMediaServer, Working
<1>9. CASE Dispose(t)
  <2>1. held[t] \in Invites
    BY <1>9 DEF Dispose, Located
  <2>2. \A s \in Invites : {conns[s][n] : n \in Names} \ {Nil} \subseteq Conns
    OBVIOUS
  <2>. QED
    BY <1>9, <1>3, <2>1, <2>2 DEF Dispose
<1>10. CASE DisposePanics(t)
  BY <1>10 DEF DisposePanics, Crash
<1>11. CASE Clear(t)
  BY <1>11, <1>1, Labels, MediaMembers DEF Clear, Working
<1>. QED
  BY <1>4, <1>5, <1>6, <1>7, <1>8, <1>9, <1>10, <1>11 DEF Stopping

\* The steps of Conn.Serve
LEMMA TypeServing ==
  ASSUME TypeOK, Located, NEW k \in Conns,
         \/ Closing(k) \/ ReadFails(k)
         \/ \E s \in Invites : Accept(k, s)
         \/ \E i \in Invites : FirstPacket(k, i),
         ~Stopping(k)
  PROVE  TypeOK'
<1>. USE DEF TypeOK, ThreadTypes, ChannelTypes, ServerTypes, ConnTypes
<1>1. pc[k] = "publish" => chan[k] \in Channels
  BY Members DEF Located, Working
<1>2. pc[k] \notin {"new", "done"} => at[k] \in Invites
  BY DEF Located
<1>3. \A c \in Channels : info[c].stream \in Names
  BY DEF MediaInfo
<1>4. ASSUME NEW s \in Invites, Accept(k, s)
      PROVE  TypeOK'
  BY <1>4, Labels, Members DEF Accept
<1>5. ASSUME NEW i \in Invites, FirstPacket(k, i)
      PROVE  TypeOK'
  BY <1>5, <1>2, <1>3, Labels, Members DEF FirstPacket
<1>6. CASE Publish(k)
  BY <1>6, <1>1, <1>3, Labels, Members DEF Publish
<1>7. CASE PublishFails(k)
  BY <1>7, Labels, Members DEF PublishFails
<1>8. CASE ReadFails(k)
  BY <1>8, Labels, Members DEF ReadFails
<1>9. CASE NotifyClose(k)
  <2>1. info' \in [Channels -> MediaInfo]
    <3>1. info' = info \/ \E c \in Channels : info' = [info EXCEPT ![c] = Cleared(@)]
      BY <1>9 DEF NotifyClose
    <3>2. info \in [Channels -> MediaInfo]
      BY DEF TypeOK, ChannelTypes
    <3>. QED BY ONLY <3>1, <3>2, MediaMembers
  <2>2. pc' \in [Threads -> Steps] /\ chan' \in [Threads -> Channels \cup {Nil}]
    <3>1. CASE Goto(k, "unpublish") /\ chan' = [chan EXCEPT ![k] = Nil]
      BY <3>1, Labels, Members
    <3>2. CASE \E c \in Channels : Goto(k, "bye") /\ chan' = [chan EXCEPT ![k] = c]
      BY <3>2, Labels, Members
    <3>. QED
      BY <1>9, <3>1, <3>2 DEF NotifyClose
  <2>. QED
    BY <1>9, <2>1, <2>2 DEF NotifyClose
<1>10. CASE Unpublish(k)
  BY <1>10, Labels, Members DEF Unpublish
<1>11. CASE Forget(k)
  BY <1>11, <1>2, Labels, Members DEF Forget
<1>. QED
  BY <1>4, <1>5, <1>6, <1>7, <1>8, <1>9, <1>10, <1>11 DEF Closing

\* Requests and messages
LEMMA TypeCalls ==
  ASSUME TypeOK, Located, Calls
  PROVE  TypeOK'
<1>. USE DEF TypeOK, ThreadTypes, ChannelTypes, ServerTypes, ConnTypes
<1>1. ASSUME NEW i \in Invites, NEW c \in Channels, NEW n \in Streams, TryAutoInvite(i, c, n)
      PROVE  TypeOK'
  BY <1>1, Labels, Members DEF TryAutoInvite
<1>2. ASSUME NEW t \in StopCalls, NEW c \in Channels, StopPlay(t, c)
      PROVE  TypeOK'
  BY <1>2, Labels, Members DEF StopPlay
<1>3. ASSUME NEW t \in ByeCalls, NEW i \in Invites, OnBye(t, i)
      PROVE  TypeOK'
  <2>1. dialog' \in [Invites -> {"none", "up", "down"}]
    BY <1>3 DEF OnBye
  <2>2. t \in Threads
    BY Members
  <2>3. pc' \in [Threads -> Steps] /\ chan' \in [Threads -> Channels \cup {Nil}]
    <3>1. CASE UNCHANGED <<pc, chan>>
      BY <3>1
    <3>2. CASE \E d \in Channels : chan' = [chan EXCEPT ![t] = d] /\ Goto(t, "stop")
      BY <2>2, <3>2, Labels
    <3>. QED
      BY <1>3, <3>1, <3>2 DEF OnBye
  <2>. QED
    BY <1>3, <2>1, <2>3 DEF OnBye
<1>4. ASSUME NEW c \in Channels, Catalog(c)
      PROVE  TypeOK'
  BY <1>4, MediaMembers DEF Catalog
<1>. QED
  BY <1>1, <1>2, <1>3, <1>4 DEF Calls

-----------------------------------------------------------------------------
(* Located: kept by every step of every kind of thread. *)

\* The steps of Invite, and Start
LEMMA LocatedInviting ==
  ASSUME TypeOK, Located, NEW i \in Invites,
         Inviting(i) \/ Start(i), ~Stopping(i)
  PROVE  Located'
<1>. USE DEF TypeOK, ThreadTypes, ServerTypes, Located, Working
<1>1. CASE LoadMediaServer(i)
  BY <1>1, Members, GbAssumption DEF LoadMediaServer
<1>2. CASE AcquireMediaServer(i)
  BY <1>2, Members, GbAssumption DEF AcquireMediaServer
<1>3. CASE AcquireFails(i)
  BY <1>3, Members, GbAssumption DEF AcquireFails
<1>4. CASE Start(i)
  BY <1>4, Members, GbAssumption DEF Start
<1>5. CASE InviteAccepted(i)
  BY <1>5, Members, GbAssumption DEF InviteAccepted
<1>6. CASE InviteRefused(i)
  BY <1>6, Members, GbAssumption DEF InviteRefused
<1>7. CASE SetInvited(i)
  BY <1>7, Members, GbAssumption DEF SetInvited
<1>8. CASE SetStream(i)
  BY <1>8, Members, GbAssumption DEF SetStream
<1>9. CASE SendAck(i)
  BY <1>9, Members, GbAssumption DEF SendAck
<1>. QED
  BY <1>1, <1>2, <1>3, <1>4, <1>5, <1>6, <1>7, <1>8, <1>9 DEF Inviting

\* Bye, byeClear and OnStopMediaServer, in any thread
LEMMA LocatedStopping ==
  ASSUME TypeOK, Located, NEW t \in Threads,
         Stopping(t)
  PROVE  Located'
<1>. USE DEF TypeOK, ThreadTypes, ServerTypes, Located, Working
<1>1. CASE CheckAckReq(t)
  BY <1>1, Members, GbAssumption DEF CheckAckReq
<1>2. CASE SendBye(t)
  BY <1>2, Members, GbAssumption DEF SendBye
<1>3. CASE ByePanics(t)
  BY <1>3, Members, GbAssumption DEF ByePanics, Return, AfterStop, Crash
<1>4. CASE LoadForStop(t)
  BY <1>4, Members, GbAssumption DEF LoadForStop, Return, AfterStop
<1>5. CASE DeleteMediaServer(t)
  BY <1>5, Members, GbAssumption DEF DeleteMediaServer
<1>6. CASE Dispose(t)
  BY <1>6, Members, GbAssumption DEF Dispose, Return, AfterStop
<1>7. CASE DisposePanics(t)
  BY <1>7, Members, GbAssumption DEF DisposePanics, Crash
<1>8. CASE Clear(t)
  BY <1>8, Members, GbAssumption DEF Clear
<1>. QED
  BY <1>1, <1>2, <1>3, <1>4, <1>5, <1>6, <1>7, <1>8 DEF Stopping

\* The steps of Conn.Serve
LEMMA LocatedServing ==
  ASSUME TypeOK, Located, NEW k \in Conns,
         \/ Closing(k) \/ ReadFails(k)
         \/ \E s \in Invites : Accept(k, s)
         \/ \E i \in Invites : FirstPacket(k, i),
         ~Stopping(k)
  PROVE  Located'
<1>. USE DEF TypeOK, ThreadTypes, ServerTypes, Located, Working
<1>1. ASSUME NEW s \in Invites, Accept(k, s)
      PROVE  Located'
  BY <1>1, Members, GbAssumption DEF Accept
<1>2. ASSUME NEW i \in Invites, FirstPacket(k, i)
      PROVE  Located'
  BY <1>2, Members, GbAssumption DEF FirstPacket
<1>3. CASE Publish(k)
  BY <1>3, Members, GbAssumption DEF Publish
<1>4. CASE PublishFails(k)
  BY <1>4, Members, GbAssumption DEF PublishFails
<1>5. CASE ReadFails(k)
  BY <1>5, Members, GbAssumption DEF ReadFails
<1>6. CASE NotifyClose(k)
  BY <1>6, Members, GbAssumption DEF NotifyClose
<1>7. CASE Unpublish(k)
  BY <1>7, Members, GbAssumption DEF Unpublish
<1>8. CASE Forget(k)
  BY <1>8, Members, GbAssumption DEF Forget
<1>. QED
  BY <1>1, <1>2, <1>3, <1>4, <1>5, <1>6, <1>7, <1>8 DEF Closing

\* Requests and messages
LEMMA LocatedCalls ==
  ASSUME TypeOK, Located, Calls
  PROVE  Located'
<1>. USE DEF TypeOK, ThreadTypes, ServerTypes, Located, Working
<1>1. ASSUME NEW i \in Invites, NEW c \in Channels, NEW n \in Streams, TryAutoInvite(i, c, n)
      PROVE  Located'
  BY <1>1, Members, GbAssumption DEF TryAutoInvite
<1>2. ASSUME NEW t \in StopCalls, NEW c \in Channels, StopPlay(t, c)
      PROVE  Located'
  BY <1>2, Members, GbAssumption DEF StopPlay
<1>3. ASSUME NEW t \in ByeCalls, NEW i \in Invites, OnBye(t, i)
      PROVE  Located'
  BY <1>3, Members, GbAssumption DEF OnBye
<1>4. ASSUME NEW c \in Channels, Catalog(c)
      PROVE  Located'
  BY <1>4, Members, GbAssumption DEF Catalog
<1>. QED
  BY <1>1, <1>2, <1>3, <1>4 DEF Calls

-----------------------------------------------------------------------------
(* MapInv: kept by every step of every kind of thread. *)

\* The steps of Invite, and Start
LEMMA MapInviting ==
  ASSUME IInv, NEW i \in Invites,
         Inviting(i) \/ Start(i), ~Stopping(i)
  PROVE  MapInv'
<1>. USE DEF IInv, TypeOK, ThreadTypes, ServerTypes, MapInv, MapHoldsLive
<1>1. CASE LoadMediaServer(i)
  BY <1>1, Members, GbAssumption DEF LoadMediaServer
<1>2. CASE AcquireMediaServer(i)
  BY <1>2, Members, GbAssumption DEF AcquireMediaServer, Located, Working
<1>3. CASE AcquireFails(i)
  BY <1>3, Members, GbAssumption DEF AcquireFails
<1>4. CASE Start(i)
  BY <1>4, Members, GbAssumption DEF Start
<1>5. CASE InviteAccepted(i)
  BY <1>5, Members, GbAssumption DEF InviteAccepted
<1>6. CASE InviteRefused(i)
  BY <1>6, Members, GbAssumption DEF InviteRefused
<1>7. CASE SetInvited(i)
  BY <1>7, Members, GbAssumption DEF SetInvited
<1>8. CASE SetStream(i)
  BY <1>8, Members, GbAssumption DEF SetStream
<1>9. CASE SendAck(i)
  BY <1>9, Members, GbAssumption DEF SendAck
<1>. QED
  BY <1>1, <1>2, <1>3, <1>4, <1>5, <1>6, <1>7, <1>8, <1>9 DEF Inviting

\* Bye, byeClear and OnStopMediaServer, in any thread
LEMMA MapStopping ==
  ASSUME IInv, NEW t \in Threads,
         Stopping(t)
  PROVE  MapInv'
<1>. USE DEF IInv, TypeOK, ThreadTypes, ServerTypes, MapInv, MapHoldsLive
<1>1. CASE CheckAckReq(t)
  BY <1>1, Members, GbAssumption DEF CheckAckReq
<1>2. CASE SendBye(t)
  BY <1>2, Members, GbAssumption DEF SendBye
<1>3. CASE ByePanics(t)
  BY <1>3, Members, GbAssumption DEF ByePanics, Return, AfterStop, Crash
<1>4. CASE LoadForStop(t)
  BY <1>4, Members, GbAssumption DEF LoadForStop, Return, AfterStop, Located, Working
<1>5. CASE DeleteMediaServer(t)
  BY <1>5, Members, GbAssumption DEF DeleteMediaServer, Located, Working
<1>6. CASE Dispose(t)
  BY <1>6, Members, GbAssumption DEF Dispose, Return, AfterStop, Located, Working
<1>7. CASE DisposePanics(t)
  BY <1>7, Members, GbAssumption DEF DisposePanics, Crash
<1>8. CASE Clear(t)
  BY <1>8, Members, GbAssumption DEF Clear
<1>. QED
  BY <1>1, <1>2, <1>3, <1>4, <1>5, <1>6, <1>7, <1>8 DEF Stopping

\* The steps of Conn.Serve
LEMMA MapServing ==
  ASSUME IInv, NEW k \in Conns,
         \/ Closing(k) \/ ReadFails(k)
         \/ \E s \in Invites : Accept(k, s)
         \/ \E i \in Invites : FirstPacket(k, i),
         ~Stopping(k)
  PROVE  MapInv'
<1>. USE DEF IInv, TypeOK, ThreadTypes, ServerTypes, MapInv, MapHoldsLive
<1>1. ASSUME NEW s \in Invites, Accept(k, s)
      PROVE  MapInv'
  BY <1>1, Members, GbAssumption DEF Accept
<1>2. ASSUME NEW i \in Invites, FirstPacket(k, i)
      PROVE  MapInv'
  BY <1>2, Members, GbAssumption DEF FirstPacket
<1>3. CASE Publish(k)
  BY <1>3, Members, GbAssumption DEF Publish
<1>4. CASE PublishFails(k)
  BY <1>4, Members, GbAssumption DEF PublishFails
<1>5. CASE ReadFails(k)
  BY <1>5, Members, GbAssumption DEF ReadFails
<1>6. CASE NotifyClose(k)
  BY <1>6, Members, GbAssumption DEF NotifyClose
<1>7. CASE Unpublish(k)
  BY <1>7, Members, GbAssumption DEF Unpublish
<1>8. CASE Forget(k)
  BY <1>8, Members, GbAssumption DEF Forget
<1>. QED
  BY <1>1, <1>2, <1>3, <1>4, <1>5, <1>6, <1>7, <1>8 DEF Closing

\* Requests and messages
LEMMA MapCalls ==
  ASSUME IInv, Calls
  PROVE  MapInv'
<1>. USE DEF IInv, TypeOK, ThreadTypes, ServerTypes, MapInv, MapHoldsLive
<1>1. ASSUME NEW i \in Invites, NEW c \in Channels, NEW n \in Streams, TryAutoInvite(i, c, n)
      PROVE  MapInv'
  BY <1>1, Members, GbAssumption DEF TryAutoInvite
<1>2. ASSUME NEW t \in StopCalls, NEW c \in Channels, StopPlay(t, c)
      PROVE  MapInv'
  BY <1>2, Members, GbAssumption DEF StopPlay
<1>3. ASSUME NEW t \in ByeCalls, NEW i \in Invites, OnBye(t, i)
      PROVE  MapInv'
  BY <1>3, Members, GbAssumption DEF OnBye
<1>4. ASSUME NEW c \in Channels, Catalog(c)
      PROVE  MapInv'
  BY <1>4, Members, GbAssumption DEF Catalog
<1>. QED
  BY <1>1, <1>2, <1>3, <1>4 DEF Calls

-----------------------------------------------------------------------------
(* RegisteredInv: kept by every step of every kind of thread. *)

\* The steps of Invite, and Start
LEMMA RegisteredInviting ==
  ASSUME IInv, NEW i \in Invites,
         Inviting(i) \/ Start(i), ~Stopping(i)
  PROVE  RegisteredInv'
<1>. USE DEF IInv, TypeOK, ThreadTypes, ConnTypes, RegisteredInv
<1>1. CASE LoadMediaServer(i)
  BY <1>1, Members, GbAssumption DEF LoadMediaServer
<1>2. CASE AcquireMediaServer(i)
  BY <1>2, Members, GbAssumption DEF AcquireMediaServer
<1>3. CASE AcquireFails(i)
  BY <1>3, Members, GbAssumption DEF AcquireFails
<1>4. CASE Start(i)
  BY <1>4, Members, GbAssumption DEF Start
<1>5. CASE InviteAccepted(i)
  BY <1>5, Members, GbAssumption DEF InviteAccepted
<1>6. CASE InviteRefused(i)
  BY <1>6, Members, GbAssumption DEF InviteRefused
<1>7. CASE SetInvited(i)
  BY <1>7, Members, GbAssumption DEF SetInvited
<1>8. CASE SetStream(i)
  BY <1>8, Members, GbAssumption DEF SetStream
<1>9. CASE SendAck(i)
  BY <1>9, Members, GbAssumption DEF SendAck
<1>. QED
  BY <1>1, <1>2, <1>3, <1>4, <1>5, <1>6, <1>7, <1>8, <1>9 DEF Inviting

\* Bye, byeClear and OnStopMediaServer, in any thread
LEMMA RegisteredStopping ==
  ASSUME IInv, NEW t \in Threads,
         Stopping(t)
  PROVE  RegisteredInv'
<1>. USE DEF IInv, TypeOK, ThreadTypes, ConnTypes, RegisteredInv
<1>1. CASE CheckAckReq(t)
  BY <1>1, Members, GbAssumption DEF CheckAckReq
<1>2. CASE SendBye(t)
  BY <1>2, Members, GbAssumption DEF SendBye
<1>3. CASE ByePanics(t)
  BY <1>3, Members, GbAssumption DEF ByePanics, Return, AfterStop, Crash
<1>4. CASE LoadForStop(t)
  BY <1>4, Members, GbAssumption DEF LoadForStop, Return, AfterStop
<1>5. CASE DeleteMediaServer(t)
  BY <1>5, Members, GbAssumption DEF DeleteMediaServer
<1>6. CASE Dispose(t)
  BY <1>6, Members, GbAssumption DEF Dispose, Return, AfterStop
<1>7. CASE DisposePanics(t)
  BY <1>7, Members, GbAssumption DEF DisposePanics, Crash
<1>8. CASE Clear(t)
  BY <1>8, Members, GbAssumption DEF Clear
<1>. QED
  BY <1>1, <1>2, <1>3, <1>4, <1>5, <1>6, <1>7, <1>8 DEF Stopping

\* The steps of Conn.Serve
LEMMA RegisteredServing ==
  ASSUME IInv, NEW k \in Conns,
         \/ Closing(k) \/ ReadFails(k)
         \/ \E s \in Invites : Accept(k, s)
         \/ \E i \in Invites : FirstPacket(k, i),
         ~Stopping(k)
  PROVE  RegisteredInv'
<1>. USE DEF IInv, TypeOK, ThreadTypes, ConnTypes, RegisteredInv
<1>1. ASSUME NEW s \in Invites, Accept(k, s)
      PROVE  RegisteredInv'
  BY <1>1, Members, GbAssumption DEF Accept
<1>2. ASSUME NEW i \in Invites, FirstPacket(k, i)
      PROVE  RegisteredInv'
  BY <1>2, Members, GbAssumption DEF FirstPacket, ChannelTypes, MediaInfo, Located
<1>3. CASE Publish(k)
  BY <1>3, Members, GbAssumption DEF Publish
<1>4. CASE PublishFails(k)
  BY <1>4, Members, GbAssumption DEF PublishFails
<1>5. CASE ReadFails(k)
  BY <1>5, Members, GbAssumption DEF ReadFails
<1>6. CASE NotifyClose(k)
  BY <1>6, Members, GbAssumption DEF NotifyClose
<1>7. CASE Unpublish(k)
  BY <1>7, Members, GbAssumption DEF Unpublish
<1>8. CASE Forget(k)
  BY <1>8, Members, GbAssumption DEF Forget, Located
<1>. QED
  BY <1>1, <1>2, <1>3, <1>4, <1>5, <1>6, <1>7, <1>8 DEF Closing

\* Requests and messages
LEMMA RegisteredCalls ==
  ASSUME IInv, Calls
  PROVE  RegisteredInv'
<1>. USE DEF IInv, TypeOK, ThreadTypes, ConnTypes, RegisteredInv
<1>1. ASSUME NEW i \in Invites, NEW c \in Channels, NEW n \in Streams, TryAutoInvite(i, c, n)
      PROVE  RegisteredInv'
  BY <1>1, Members, GbAssumption DEF TryAutoInvite
<1>2. ASSUME NEW t \in StopCalls, NEW c \in Channels, StopPlay(t, c)
      PROVE  RegisteredInv'
  BY <1>2, Members, GbAssumption DEF StopPlay
<1>3. ASSUME NEW t \in ByeCalls, NEW i \in Invites, OnBye(t, i)
      PROVE  RegisteredInv'
  BY <1>3, Members, GbAssumption DEF OnBye
<1>4. ASSUME NEW c \in Channels, Catalog(c)
      PROVE  RegisteredInv'
  BY <1>4, Members, GbAssumption DEF Catalog
<1>. QED
  BY <1>1, <1>2, <1>3, <1>4 DEF Calls

-----------------------------------------------------------------------------
(* The theorems *)

\* The inductive invariant holds at the start.
LEMMA Initially == Init => IInv
<1>1. Init => MapInv
  BY GbAssumption DEF Init, MapInv, MapHoldsLive, Threads
<1>2. Init => RegisteredInv
  BY DEF Init, RegisteredInv
<1>. QED
  BY <1>1, <1>2, TypeInit DEF IInv

\* Every step of every thread preserves it.
LEMMA Preserved ==
  ASSUME IInv, [Next]_vars
  PROVE  IInv'
<1>1. ASSUME NEW t \in Threads, Stopping(t)
      PROVE  IInv'
  BY <1>1, TypeStopping, LocatedStopping, MapStopping, RegisteredStopping DEF IInv
<1>2. ASSUME NEW i \in Invites, Inviting(i) \/ Start(i)
      PROVE  IInv'
  <2>1. CASE Stopping(i)
    BY <1>1, <2>1, Members
  <2>2. CASE ~Stopping(i)
    BY <1>2, <2>2, TypeInviting, LocatedInviting, MapInviting, RegisteredInviting DEF IInv
  <2>. QED
    BY <2>1, <2>2
<1>3. ASSUME NEW k \in Conns,
             \/ Closing(k) \/ ReadFails(k)
             \/ \E s \in Invites : Accept(k, s)
             \/ \E i \in Invites : FirstPacket(k, i)
      PROVE  IInv'
  <2>1. CASE Stopping(k)
    BY <1>1, <2>1, Members
  <2>2. CASE ~Stopping(k)
    BY <1>3, <2>2, TypeServing, LocatedServing, MapServing, RegisteredServing DEF IInv
  <2>. QED
    BY <2>1, <2>2
<1>4. CASE Calls
  BY <1>4, TypeCalls, LocatedCalls, MapCalls, RegisteredCalls DEF IInv
<1>5. CASE UNCHANGED vars
  BY <1>5 DEF vars, IInv, TypeOK, ThreadTypes, ChannelTypes, ServerTypes, ConnTypes,
              Located, MapInv, MapHoldsLive, RegisteredInv
<1>. QED
  BY <1>1, <1>2, <1>3, <1>4, <1>5, Members DEF Next

\* The inductive invariant holds throughout.
THEOREM Invariance == Spec => []IInv
<1>1. IInv /\ [Next]_vars => IInv'
  BY Preserved
<1>. QED
  BY Initially, <1>1, PTL DEF Spec

\* Every variable has its type: for any number of channels, INVITEs, connections
\* and requests.
THEOREM TypeCorrect == Spec => []TypeOK
<1>1. IInv => TypeOK
  BY DEF IInv
<1>. QED
  BY Invariance, <1>1, PTL

\* No INVITE is ever given a media server that has been disposed of, with any number
\* of goroutines stopping the same channels (OnStopMediaServer deletes, then disposes).
THEOREM MapAlwaysLive == Spec => []MapHoldsLive
<1>1. IInv => MapHoldsLive
  BY DEF IInv, MapInv
<1>. QED
  BY Invariance, <1>1, PTL

\* An entry in a media server's conns never outlives the goroutine of its connection,
\* with any number of connections under one stream name.
THEOREM RegisteredAlwaysAlive == Spec => []RegisteredIsAlive
<1>1. IInv => RegisteredIsAlive
  BY DEF IInv, RegisteredInv, RegisteredIsAlive
<1>. QED
  BY Invariance, <1>1, PTL

=============================================================================
