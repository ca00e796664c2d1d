------------------------------- MODULE GbDevice -------------------------------
(***************************************************************************)
(* The cameras lalmax knows (gb28181/server.go, gb28181/device.go): a      *)
(* camera REGISTERs, is asked for its catalog, sends Keepalives and        *)
(* reports changes of its channels by NOTIFY; a job drops cameras that     *)
(* send no Keepalive and takes the channels of quiet ones off line.  A     *)
(* channel can be played while its camera is known and it is ON.           *)
(*                                                                         *)
(* Each SIP request has a goroutine.  They share the map Devices and,      *)
(* through the pointers in it, the devices, whose fields nothing protects. *)
(* A request that finds its device only writes to that device and starts   *)
(* syncChannels: it is one step, for a device that is dropped between the  *)
(* lookup and the writes is not found again, and the job decides and drops *)
(* in two steps of its own.  A request that finds none is a thread of the  *)
(* model: it looks again, builds a device and stores it.                   *)
(* A device nobody points to is gone.                                      *)
(*                                                                         *)
(* Time is counted in ticks, of two seconds or more, and a time stamp is   *)
(* kept as its age.  One channel, one that works, stands for the channels  *)
(* of a device, which do not interact.  Left out: the digest and the ban   *)
(* counters (a request that is not let in changes nothing here), the       *)
(* addresses, and Device.Status, which nothing but its own updates reads.  *)
(***************************************************************************)
EXTENDS Naturals

CONSTANTS
  Ids,              \* ids of cameras
  Objs,             \* bound: Device objects alive at once
  Threads,          \* bound: requests of unknown cameras handled at once
  QuickThreads,     \* bound: the same when quick_login is on
  Job,              \* the goroutine of startJob
  Nil,              \* no device
  DropAfter,        \* 3 * keepalive_interval
  OfflineAfter,     \* 3 * HeartbeatInterval
  RegisterValidity  \* the validity of a registration

ASSUME GbDeviceAssumption ==
  /\ Nil \notin Ids \cup Objs
  /\ Job \notin Threads
  /\ QuickThreads \subseteq Threads
  /\ DropAfter \in Nat /\ OfflineAfter \in Nat /\ RegisterValidity \in Nat

VARIABLES
  quick,   \* quick_login, a setting
  devices, \* Devices: the device of each id
  dev,     \* the Device objects
  pc,      \* the next step of each goroutine
  req,     \* the request a thread handles, the id the job is busy with
  held,    \* the device a goroutine has a pointer to
  left,    \* the ids the job has still to look at
  syncing, \* devices syncChannels is going to run for
  asked    \* ids that were asked for their catalog

threadVars == <<quick, pc, req, held>>
vars == <<devices, dev, threadVars, left, syncing, asked>>

\* Ages are exact as far as anything compares them; the zero time is older.
Older(age, limit) == IF age > limit THEN age ELSE age + 1
UpdLimit == OfflineAfter + RegisterValidity

NoReq == [id |-> Nil, kind |-> Nil]

\* upd, ka: UpdateTime, LastKeepaliveAt; synced: lastSyncTime is in this tick; chan: the
\* channel is in channelMap and its Status
NoDevice == [id |-> Nil, upd |-> UpdLimit + 1, ka |-> DropAfter + 1,
             synced |-> FALSE, chan |-> "none"]

Goroutines == Threads \cup {Job}

Handlers == IF quick THEN QuickThreads ELSE Threads

Init ==
  /\ quick \in BOOLEAN
  /\ devices = [id \in Ids |-> Nil]
  /\ dev = [o \in Objs |-> NoDevice]
  /\ pc = [t \in Goroutines |-> "idle"]
  /\ req = [t \in Goroutines |-> NoReq]
  /\ held = [t \in Goroutines |-> Nil]
  /\ left = {}
  /\ syncing = {}
  /\ asked = {}

InUse == {devices[id] : id \in Ids} \cup {held[t] : t \in Goroutines} \cup syncing

\* Objects nothing points to any more are gone.
Objects(new) == dev' = [o \in Objs |-> IF o \in InUse' THEN new[o] ELSE NoDevice]

\* Goroutine t goes on with a request, an id and a device.
Continue(t, step, kind, id, o) ==
  /\ pc' = [pc EXCEPT ![t] = step]
  /\ req' = [req EXCEPT ![t] = [id |-> id, kind |-> kind]]
  /\ held' = [held EXCEPT ![t] = o]
  /\ UNCHANGED quick
Return(t) == Continue(t, "idle", Nil, Nil, Nil)

\* Mutant: only a device that has no channels is asked for its catalog.
GoSyncNew(o) == syncing' = IF dev[o].chan = "none" THEN syncing \cup {o} ELSE syncing

\* go d.syncChannels()
GoSync(o) == syncing' = syncing \cup {o}

-----------------------------------------------------------------------------
(* OnRegister of a camera that is let in; StoreDevice *)

\* A camera that is known is recovered.
RegisterKnown(id) ==
  /\ devices[id] # Nil
  /\ GoSync(devices[id])
  /\ UNCHANGED <<devices, threadVars, left, asked>>
  /\ Objects([dev EXCEPT ![devices[id]].upd = 0])

RegisterNew(t, id) ==
  /\ pc[t] = "idle" /\ devices[id] = Nil
  /\ Continue(t, "store", "REGISTER", id, Nil)
  /\ UNCHANGED <<devices, dev, left, syncing, asked>>

Register(t, id) == RegisterKnown(id) \/ RegisterNew(t, id)

Unregister(id) ==
  /\ devices[id] # Nil
  /\ devices' = [devices EXCEPT ![id] = Nil]
  /\ UNCHANGED <<threadVars, left, syncing, asked>>
  /\ Objects(dev)

\* What the callers of StoreDevice do with the device: OnRegister is done, a Keepalive
\* has its time still to be set.
Stored(t, o) ==
  IF req[t].kind = "REGISTER"
  THEN Return(t) /\ GoSync(o)
  ELSE Continue(t, "login", req[t].kind, req[t].id, o) /\ UNCHANGED syncing

\* StoreDevice looks again: another request may have stored the device meanwhile.
FindStored(t) ==
  /\ pc[t] = "store" /\ devices[req[t].id] # Nil
  /\ Stored(t, devices[req[t].id])
  /\ UNCHANGED <<devices, left, asked>>
  /\ Objects([dev EXCEPT ![devices[req[t].id]].upd = 0])

FindNone(t) ==
  /\ pc[t] = "store" /\ devices[req[t].id] = Nil
  /\ pc' = [pc EXCEPT ![t] = "put"]
  /\ UNCHANGED <<quick, devices, dev, req, held, left, syncing, asked>>

\* Mutant: the new device does not say whose it is.
PutDeviceUnnamed(t) ==
  /\ pc[t] = "put"
  /\ Objs \ InUse # {}
  /\ LET o == CHOOSE o \in Objs \ InUse : TRUE IN
       /\ devices' = [devices EXCEPT ![req[t].id] = o]
       /\ Stored(t, o)
       /\ UNCHANGED <<left, asked>>
       /\ Objects([dev EXCEPT ![o] = [NoDevice EXCEPT !.upd = 0]])

\* A device that another request has put there since is replaced.  It does not matter
\* which object is taken.
PutDevice(t) ==
  /\ pc[t] = "put"
  /\ Objs \ InUse # {}
  /\ LET o == CHOOSE o \in Objs \ InUse : TRUE IN
       /\ devices' = [devices EXCEPT ![req[t].id] = o]
       /\ Stored(t, o)
       /\ UNCHANGED <<left, asked>>
       /\ Objects([dev EXCEPT ![o] = [NoDevice EXCEPT !.id = req[t].id, !.upd = 0]])

Login(t) ==
  /\ pc[t] = "login"
  /\ Return(t)
  /\ GoSync(held[t])
  /\ UNCHANGED <<devices, left, asked>>
  /\ Objects([dev EXCEPT ![held[t]].ka = 0])

-----------------------------------------------------------------------------
(* OnMessage and OnNotify; UpdateTime is set for a message of any kind. *)

Keepalive(id) ==
  /\ devices[id] # Nil
  /\ UNCHANGED <<devices, threadVars, left, syncing, asked>>
  /\ Objects([dev EXCEPT ![devices[id]].upd = 0, ![devices[id]].ka = 0])

\* DeviceInfo, Alarm, a command that is not supported, MobilePosition
OtherMessage(id) ==
  /\ devices[id] # Nil
  /\ UNCHANGED <<devices, threadVars, left, syncing, asked>>
  /\ Objects([dev EXCEPT ![devices[id]].upd = 0])

\* quick_login: a Keepalive of an unknown camera stores it.
KeepaliveUnknown(t, id) ==
  /\ quick
  /\ pc[t] = "idle" /\ devices[id] = Nil
  /\ Continue(t, "store", "Keepalive", id, Nil)
  /\ UNCHANGED <<devices, dev, left, syncing, asked>>

\* Devices that the catalog of camera id can name as the parent of a channel
Parents(id) == {devices[i] : i \in Ids \ {id}} \ {Nil}

\* The catalog comes when it was asked for; it is lost when the camera is unknown by now.
\* UpdateChannels: a channel whose parent is another device goes to that one.
Catalog(id) ==
  /\ id \in asked
  /\ asked' = asked \ {id}
  /\ UNCHANGED <<devices, threadVars, left, syncing>>
  /\ \E children \in SUBSET Parents(id) :
       Objects([o \in Objs |->
         IF devices[id] = Nil THEN dev[o]
         ELSE IF o = devices[id] THEN [dev[o] EXCEPT !.upd = 0, !.chan = "ON"]
         ELSE IF o \in children THEN [dev[o] EXCEPT !.chan = "ON"]
         ELSE dev[o]])

\* ON, OFF, VLOST and DEFECT are for a channel that is known, ADD and UPDATE for any
\* channel, UPDATE for that of another device, too, and DEL removes one.
UpdateChannelStatus(id) ==
  /\ devices[id] # Nil
  /\ UNCHANGED <<devices, threadVars, left, syncing, asked>>
  /\ \E o \in {devices[id]} \cup Parents(id), s \in {"none", "ON", "OFF"} :
       /\ s = "none" => o = devices[id]
       /\ Objects([dev EXCEPT ![devices[id]].upd = 0, ![o].chan = s])

-----------------------------------------------------------------------------
(* syncChannels: at most one catalog in two seconds *)

SyncChannels(o) ==
  /\ o \in syncing
  /\ syncing' = syncing \ {o}
  /\ asked' = IF dev[o].synced THEN asked ELSE asked \cup {dev[o].id}
  /\ UNCHANGED <<devices, threadVars, left>>
  /\ Objects([dev EXCEPT ![o].synced = TRUE])

\* GetSyncChannels, and GetAllSyncChannels for one device
GetSyncChannels(id) ==
  /\ devices[id] # Nil
  /\ GoSync(devices[id])
  /\ UNCHANGED <<devices, dev, threadVars, left, asked>>

-----------------------------------------------------------------------------
(* statusCheck: Range visits every id that is in the map all the time. *)

StatusTick ==
  /\ pc[Job] = "idle" /\ left = {}
  /\ left' = Ids
  /\ UNCHANGED <<devices, dev, threadVars, syncing, asked>>

\* Mutant: a camera that is off line is not looked at for longer.
StatusCheckOffFirst(id) ==
  /\ pc[Job] = "idle" /\ id \in left
  /\ left' = left \ {id}
  /\ LET o == devices[id] IN
     IF o # Nil /\ (dev[o].ka > DropAfter \/ dev[o].upd > OfflineAfter)
     THEN Continue(Job, IF dev[o].upd > OfflineAfter THEN "off" ELSE "drop", Nil, id, o)
     ELSE UNCHANGED threadVars
  /\ UNCHANGED <<devices, dev, syncing, asked>>

StatusCheck(id) ==
  /\ pc[Job] = "idle" /\ id \in left
  /\ left' = left \ {id}
  /\ LET o == devices[id] IN
     IF o # Nil /\ (dev[o].ka > DropAfter \/ dev[o].upd > OfflineAfter)
     THEN Continue(Job, IF dev[o].ka > DropAfter THEN "drop" ELSE "off", Nil, id, o)
     ELSE UNCHANGED threadVars
  /\ UNCHANGED <<devices, dev, syncing, asked>>

\* Whatever device has the id by now
DropDevice ==
  /\ pc[Job] = "drop"
  /\ devices' = [devices EXCEPT ![req[Job].id] = Nil]
  /\ Return(Job)
  /\ UNCHANGED <<left, syncing, asked>>
  /\ Objects(dev)

ChannelsOff ==
  /\ pc[Job] = "off"
  /\ Return(Job)
  /\ UNCHANGED <<devices, left, syncing, asked>>
  /\ Objects([dev EXCEPT ![held[Job]].chan = IF @ = "none" THEN @ ELSE "OFF"])

Tick ==
  /\ dev' = [o \in Objs |-> [dev[o] EXCEPT !.upd = Older(@, UpdLimit), !.ka = Older(@, DropAfter),
                                           !.synced = FALSE]]
  /\ UNCHANGED <<devices, threadVars, left, syncing, asked>>

-----------------------------------------------------------------------------
\* The rest of a handler that has found no device
Handle(t) == FindStored(t) \/ FindNone(t) \/ PutDevice(t) \/ Login(t)

JobStep ==
  \/ StatusTick \/ DropDevice \/ ChannelsOff
  \/ \E id \in Ids : StatusCheck(id)

Next ==
  \/ \E t \in Threads : Handle(t)
  \/ \E t \in Handlers, id \in Ids : RegisterNew(t, id) \/ KeepaliveUnknown(t, id)
  \/ \E id \in Ids :
       \/ RegisterKnown(id) \/ Unregister(id)
       \/ Keepalive(id) \/ OtherMessage(id) \/ Catalog(id) \/ UpdateChannelStatus(id)
       \/ GetSyncChannels(id)
  \/ \E o \in Objs : SyncChannels(o)
  \/ JobStep \/ Tick

\* Time passes, its ticker fires, and goroutines run.
ServerFairness ==
  /\ WF_vars(Tick) /\ WF_vars(JobStep)
  /\ \A t \in Threads : WF_vars(Handle(t))
  /\ \A o \in Objs : WF_vars(SyncChannels(o))

\* What Playable takes a camera to do: it registers again and again, and sends its catalog
\* when it is asked for it.
CameraFairness ==
  \A id \in Ids : /\ SF_vars(\E t \in Handlers : Register(t, id))
                  /\ SF_vars(Catalog(id))

Spec == Init /\ [][Next]_vars /\ ServerFairness

-----------------------------------------------------------------------------
Device == [id : Ids \cup {Nil}, upd : 0 .. UpdLimit + 1, ka : 0 .. DropAfter + 1,
           synced : BOOLEAN, chan : {"none", "ON", "OFF"}]

Steps == {"idle", "store", "put", "login", "drop", "off"}

\* Every variable has its type, and a device is known under its own id.
TypeOK ==
  /\ quick \in BOOLEAN
  /\ devices \in [Ids -> Objs \cup {Nil}]
  /\ \A id \in Ids : devices[id] # Nil => dev[devices[id]].id = id
  /\ dev \in [Objs -> Device]
  /\ pc \in [Goroutines -> Steps]
  /\ req \in [Goroutines -> [id : Ids \cup {Nil}, kind : {"REGISTER", "Keepalive", Nil}]]
  /\ held \in [Goroutines -> Objs \cup {Nil}]
  /\ left \subseteq Ids
  /\ syncing \subseteq Objs
  /\ asked \subseteq Ids

\* A camera that registers again and again, and answers, has its channel ON again and again
\* while it is known: after racing REGISTERs, after it was taken off line, although only a
\* REGISTER asks for the catalog and only once in two seconds (server.go:549, device.go:76,
\* server.go:373).
Playable ==
  CameraFairness => \A id \in Ids : []<>(devices[id] = Nil \/ dev[devices[id]].chan = "ON")

\* A camera that sends nothing at all does not stay known, although it is off line before it
\* has to be dropped and whoever stores it again meanwhile (server.go:364-375).
SilentIsDropped ==
  \A id \in Ids : []<>(devices[id] = Nil \/ dev[devices[id]].upd <= RegisterValidity)

\* server.go:365 says of statusCheck: a device that has sent no message within the
\* validity of its registration is deleted from the list of devices.
DocDroppedAfterValidity ==
  [][\A id \in Ids :
       (DropDevice /\ req[Job].id = id /\ devices[id] = held[Job]) =>
         dev[held[Job]].upd > RegisterValidity]_vars
=============================================================================
