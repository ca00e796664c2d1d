---------------------------- MODULE GbDeviceProofs ----------------------------
(***************************************************************************)
(* Proofs about the registered cameras, for any number of cameras, Device  *)
(* objects and requests at a time, and any intervals.                      *)
(*                                                                         *)
(* What makes it work is that a Device is built with its id and keeps it   *)
(* as long as anything points to it: the map, a handler between its steps, *)
(* the job, or syncChannels that has still to run.                         *)
(***************************************************************************)
EXTENDS GbDevice, TLAPS

\* Whoever points to a device knows whose it is.
Named ==
  /\ \A id \in Ids : devices[id] # Nil => dev[devices[id]].id = id
  /\ \A t \in Goroutines : held[t] # Nil => req[t].id \in Ids /\ dev[held[t]].id = req[t].id
  /\ \A o \in syncing : dev[o].id \in Ids

\* What a goroutine between two steps has with it.
Carried ==
  \A t \in Goroutines :
    /\ pc[t] # "idle" => req[t].id \in Ids
    /\ pc[t] \in {"login", "off", "drop"} => held[t] # Nil

\* The inductive invariant.
DevInv == TypeOK /\ Named /\ Carried

-----------------------------------------------------------------------------
(***************************************************************************)
(* Objects.                                                                *)
(***************************************************************************)

LEMMA NoDeviceType == NoDevice \in Device
BY GbDeviceAssumption DEF GbDeviceAssumption, NoDevice, Device, UpdLimit

\* Writes to a device.
LEMMA WriteType ==
  ASSUME NEW r \in Device, NEW s \in {"none", "ON", "OFF"}
  PROVE  /\ [r EXCEPT !.ka = 0] \in Device /\ [r EXCEPT !.ka = 0].id = r.id
         /\ [r EXCEPT !.synced = TRUE] \in Device /\ [r EXCEPT !.synced = TRUE].id = r.id
         /\ [r EXCEPT !.chan = s] \in Device /\ [r EXCEPT !.chan = s].id = r.id
<1>1. 0 \in 0 .. DropAfter + 1
  BY GbDeviceAssumption DEF GbDeviceAssumption
<1>2. [r EXCEPT !.ka = 0] \in Device /\ [r EXCEPT !.ka = 0].id = r.id
  BY <1>1 DEF Device
<1>3. [r EXCEPT !.synced = TRUE] \in Device /\ [r EXCEPT !.synced = TRUE].id = r.id
  BY DEF Device
<1>4. [r EXCEPT !.chan = s] \in Device /\ [r EXCEPT !.chan = s].id = r.id
  BY DEF Device
<1>. QED BY <1>2, <1>3, <1>4

\* What Objects makes of the objects: those somebody points to are as they were written.
LEMMA ObjectsKeep ==
  ASSUME NEW new \in [Objs -> Device], Objects(new)
  PROVE  /\ dev' \in [Objs -> Device]
         /\ \A id \in Ids : devices'[id] \in Objs => dev'[devices'[id]] = new[devices'[id]]
         /\ \A t \in Goroutines : held'[t] \in Objs => dev'[held'[t]] = new[held'[t]]
         /\ \A o \in syncing' : o \in Objs => dev'[o] = new[o]
<1>1. dev' = [o \in Objs |-> IF o \in InUse' THEN new[o] ELSE NoDevice]
  BY DEF Objects
<1>2. dev' \in [Objs -> Device]
  BY <1>1, NoDeviceType
<1>3. /\ \A id \in Ids : devices'[id] \in InUse'
      /\ \A t \in Goroutines : held'[t] \in InUse'
      /\ \A o \in syncing' : o \in InUse'
  BY DEF InUse
<1>. QED BY <1>1, <1>2, <1>3

\* The names stay right when an action writes no id and passes on only devices whose id it
\* has looked up or that it had.
LEMMA NamedKept ==
  ASSUME DevInv, NEW new \in [Objs -> Device], Objects(new),
         \A o \in Objs : new[o].id = dev[o].id,
         devices' \in [Ids -> Objs \cup {Nil}],
         held' \in [Goroutines -> Objs \cup {Nil}],
         syncing' \subseteq Objs,
         \A id \in Ids : devices'[id] = devices[id] \/ devices'[id] = Nil,
         \A t \in Goroutines :
           \/ held'[t] = Nil
           \/ held'[t] = held[t] /\ req'[t].id = req[t].id
           \/ req'[t].id \in Ids /\ held'[t] = devices[req'[t].id],
         \A o \in syncing' : dev[o].id \in Ids
  PROVE  dev' \in [Objs -> Device] /\ Named'
<1>1. dev' \in [Objs -> Device]
  BY ObjectsKeep
<1>2. ASSUME NEW id \in Ids, devices'[id] # Nil
      PROVE  dev'[devices'[id]].id = id
  BY <1>2, ObjectsKeep DEF DevInv, Named
<1>3. ASSUME NEW t \in Goroutines, held'[t] # Nil
      PROVE  req'[t].id \in Ids /\ dev'[held'[t]].id = req'[t].id
  <2>1. held'[t] \in Objs /\ dev'[held'[t]].id = dev[held'[t]].id
    BY <1>3, ObjectsKeep
  <2>. QED BY <1>3, <2>1 DEF DevInv, Named
<1>4. ASSUME NEW o \in syncing'
      PROVE  dev'[o].id \in Ids
  BY <1>4, ObjectsKeep
<1>. QED BY <1>1, <1>2, <1>3, <1>4 DEF Named

\* The devices that are pointed to have an id.
LEMMA InUseNamed ==
  ASSUME DevInv
  PROVE  /\ \A id \in Ids : devices[id] # Nil => devices[id] \in Objs /\ dev[devices[id]].id \in Ids
         /\ \A t \in Goroutines : held[t] # Nil => held[t] \in Objs /\ dev[held[t]].id \in Ids
         /\ \A o \in syncing : o \in Objs /\ dev[o].id \in Ids
BY DEF DevInv, TypeOK, Named

-----------------------------------------------------------------------------
(***************************************************************************)
(* The initial state, and actions that leave the goroutines alone.         *)
(***************************************************************************)

LEMMA DevInit == Init => DevInv
<1>. SUFFICES ASSUME Init PROVE DevInv
  OBVIOUS
<1>1. Nil \notin Ids /\ Nil \notin Objs
  BY GbDeviceAssumption DEF GbDeviceAssumption
<1>2. TypeOK
  BY NoDeviceType DEF Init, TypeOK, Steps, NoReq
<1>3. Named /\ Carried
  BY DEF Init, Named, Carried
<1>. QED BY <1>2, <1>3 DEF DevInv

\* An action that writes devices, asks for catalogs and leaves the goroutines and the job's
\* list alone.
LEMMA DevicesOnly ==
  ASSUME DevInv, NEW new \in [Objs -> Device], Objects(new),
         \A o \in Objs : new[o].id = dev[o].id,
         UNCHANGED <<threadVars, left>>,
         devices' \in [Ids -> Objs \cup {Nil}],
         \A id \in Ids : devices'[id] = devices[id] \/ devices'[id] = Nil,
         syncing' \subseteq Objs, \A o \in syncing' : dev[o].id \in Ids,
         asked' \subseteq Ids
  PROVE  DevInv'
<1>1. UNCHANGED <<quick, pc, req, held, left>>
  BY DEF threadVars
<1>2. dev' \in [Objs -> Device] /\ Named'
  <2>1. held' \in [Goroutines -> Objs \cup {Nil}]
    BY <1>1 DEF DevInv, TypeOK
  <2>2. \A t \in Goroutines : held'[t] = held[t] /\ req'[t].id = req[t].id
    BY <1>1
  <2>. QED BY <2>1, <2>2, NamedKept
<1>3. Carried'
  BY <1>1 DEF DevInv, Carried
<1>4. TypeOK'
  BY <1>1, <1>2 DEF DevInv, TypeOK, Named
<1>. QED BY <1>2, <1>3, <1>4 DEF DevInv

LEMMA CameraStep ==
  ASSUME DevInv, NEW id \in Ids,
         \/ RegisterKnown(id) \/ Unregister(id) \/ Keepalive(id) \/ OtherMessage(id)
         \/ Catalog(id) \/ UpdateChannelStatus(id)
  PROVE  DevInv'
<1>. USE DEF DevInv, TypeOK
<1>0. 0 \in 0 .. UpdLimit + 1 /\ 0 \in 0 .. DropAfter + 1
  BY GbDeviceAssumption DEF GbDeviceAssumption, UpdLimit
<1>1. CASE RegisterKnown(id)
  <2>. DEFINE new == [dev EXCEPT ![devices[id]].upd = 0]
  <2>1. new \in [Objs -> Device] /\ \A o \in Objs : new[o].id = dev[o].id
    BY <1>0, <1>1 DEF RegisterKnown, Device
  <2>2. Objects(new) /\ UNCHANGED <<devices, threadVars, left, asked>>
    BY <1>1 DEF RegisterKnown
  <2>3. syncing' \subseteq Objs /\ \A o \in syncing' : dev[o].id \in Ids
    BY <1>1, InUseNamed DEF RegisterKnown, GoSync
  <2>. HIDE DEF new
  <2>. QED BY <2>1, <2>2, <2>3, DevicesOnly
<1>2. CASE Unregister(id)
  <2>1. Objects(dev) /\ UNCHANGED <<threadVars, left, syncing, asked>>
    BY <1>2 DEF Unregister
  <2>2. devices' \in [Ids -> Objs \cup {Nil}]
        /\ \A i \in Ids : devices'[i] = devices[i] \/ devices'[i] = Nil
    BY <1>2 DEF Unregister
  <2>. QED BY <2>1, <2>2, InUseNamed, DevicesOnly
<1>3. CASE Keepalive(id)
  <2>. DEFINE new == [dev EXCEPT ![devices[id]].upd = 0, ![devices[id]].ka = 0]
  <2>1. new \in [Objs -> Device] /\ \A o \in Objs : new[o].id = dev[o].id
    BY <1>0, <1>3 DEF Keepalive, Device
  <2>2. Objects(new) /\ UNCHANGED <<devices, threadVars, left, syncing, asked>>
    BY <1>3 DEF Keepalive
  <2>. HIDE DEF new
  <2>. QED BY <2>1, <2>2, InUseNamed, DevicesOnly
<1>4. CASE OtherMessage(id)
  <2>. DEFINE new == [dev EXCEPT ![devices[id]].upd = 0]
  <2>1. new \in [Objs -> Device] /\ \A o \in Objs : new[o].id = dev[o].id
    BY <1>0, <1>4 DEF OtherMessage, Device
  <2>2. Objects(new) /\ UNCHANGED <<devices, threadVars, left, syncing, asked>>
    BY <1>4 DEF OtherMessage
  <2>. HIDE DEF new
  <2>. QED BY <2>1, <2>2, InUseNamed, DevicesOnly
<1>5. CASE Catalog(id)
  <2>1. PICK children \in SUBSET Parents(id) :
          Objects([o \in Objs |->
            IF devices[id] = Nil THEN dev[o]
            ELSE IF o = devices[id] THEN [dev[o] EXCEPT !.upd = 0, !.chan = "ON"]
            ELSE IF o \in children THEN [dev[o] EXCEPT !.chan = "ON"]
            ELSE dev[o]])
    BY <1>5 DEF Catalog
  <2>. DEFINE new == [o \in Objs |->
            IF devices[id] = Nil THEN dev[o]
            ELSE IF o = devices[id] THEN [dev[o] EXCEPT !.upd = 0, !.chan = "ON"]
            ELSE IF o \in children THEN [dev[o] EXCEPT !.chan = "ON"]
            ELSE dev[o]]
  <2>2. ASSUME NEW o \in Objs
        PROVE  new[o] \in Device /\ new[o].id = dev[o].id
    <3>. DEFINE seen == [dev[o] EXCEPT !.upd = 0, !.chan = "ON"]
                on   == [dev[o] EXCEPT !.chan = "ON"]
    <3>1. dev[o] \in Device
      BY <1>0
    <3>2. seen \in Device /\ seen.id = dev[o].id
      BY ONLY <3>1, <1>0 DEF Device
    <3>3. on \in Device /\ on.id = dev[o].id
      BY ONLY <3>1 DEF Device
    <3>4. new[o] \in {dev[o], seen, on}
      OBVIOUS
    <3>. HIDE DEF new, seen, on
    <3>. QED BY ONLY <3>1, <3>2, <3>3, <3>4
  <2>3. new \in [Objs -> Device] /\ Objects(new)
    <3>1. Objects(new)
      BY <2>1
    <3>. QED BY <2>2, <3>1
  <2>4. UNCHANGED <<devices, threadVars, left, syncing>> /\ asked' \subseteq Ids
    BY <1>5 DEF Catalog
  <2>. HIDE DEF new
  <2>. QED BY <2>2, <2>3, <2>4, InUseNamed, DevicesOnly
<1>6. CASE UpdateChannelStatus(id)
  <2>1. PICK o \in {devices[id]} \cup Parents(id), s \in {"none", "ON", "OFF"} :
          Objects([dev EXCEPT ![devices[id]].upd = 0, ![o].chan = s])
    BY <1>6 DEF UpdateChannelStatus
  <2>. DEFINE mid == [dev EXCEPT ![devices[id]].upd = 0]
              new == [mid EXCEPT ![o].chan = s]
  <2>2. new \in [Objs -> Device] /\ \A d \in Objs : new[d].id = dev[d].id
    <3>1. mid \in [Objs -> Device] /\ \A d \in Objs : mid[d].id = dev[d].id
      BY <1>0, <1>6 DEF UpdateChannelStatus, Device
    <3>2. o \in Objs
      BY <1>6 DEF UpdateChannelStatus, Parents
    <3>. HIDE DEF mid
    <3>. QED BY <3>1, <3>2 DEF Device
  <2>3. Objects(new) /\ UNCHANGED <<devices, threadVars, left, syncing, asked>>
    BY <1>6, <2>1 DEF UpdateChannelStatus
  <2>. HIDE DEF new
  <2>. QED BY <2>2, <2>3, InUseNamed, DevicesOnly
<1>. QED BY <1>1, <1>2, <1>3, <1>4, <1>5, <1>6

-----------------------------------------------------------------------------
(***************************************************************************)
(* Handlers of unknown cameras.                                            *)
(***************************************************************************)

Kind == {"REGISTER", "Keepalive", Nil}

LEMMA ContinueIs ==
  ASSUME DevInv, NEW t \in Goroutines, NEW step \in Steps, NEW kind \in Kind,
         NEW id \in Ids \cup {Nil}, NEW o \in Objs \cup {Nil}, Continue(t, step, kind, id, o),
         step # "idle" => id \in Ids,
         step \in {"login", "off", "drop"} => o # Nil
  PROVE  /\ quick' \in BOOLEAN
         /\ pc' \in [Goroutines -> Steps]
         /\ req' \in [Goroutines -> [id : Ids \cup {Nil}, kind : Kind]]
         /\ held' \in [Goroutines -> Objs \cup {Nil}]
         /\ held'[t] = o /\ req'[t].id = id
         /\ \A u \in Goroutines : u # t => held'[u] = held[u] /\ req'[u] = req[u]
         /\ Carried'
<1>1. /\ quick' = quick /\ pc' = [pc EXCEPT ![t] = step]
      /\ req' = [req EXCEPT ![t] = [id |-> id, kind |-> kind]]
      /\ held' = [held EXCEPT ![t] = o]
  BY DEF Continue
<1>2. /\ quick \in BOOLEAN /\ pc \in [Goroutines -> Steps]
      /\ req \in [Goroutines -> [id : Ids \cup {Nil}, kind : Kind]]
      /\ held \in [Goroutines -> Objs \cup {Nil}]
  BY DEF DevInv, TypeOK, Kind
<1>3. [id |-> id, kind |-> kind] \in [id : Ids \cup {Nil}, kind : Kind]
  OBVIOUS
<1>4. /\ pc'[t] = step /\ req'[t] = [id |-> id, kind |-> kind] /\ held'[t] = o
      /\ \A u \in Goroutines : u # t => pc'[u] = pc[u] /\ req'[u] = req[u] /\ held'[u] = held[u]
  BY <1>1, <1>2
<1>5. Carried'
  BY <1>4 DEF DevInv, Carried
<1>. QED BY <1>1, <1>2, <1>3, <1>4, <1>5

\* A step of one goroutine that writes no id.
LEMMA GoroutineStep ==
  ASSUME DevInv, NEW t \in Goroutines, NEW step \in Steps, NEW kind \in Kind,
         NEW id \in Ids \cup {Nil}, NEW o \in Objs \cup {Nil}, Continue(t, step, kind, id, o),
         step # "idle" => id \in Ids,
         step \in {"login", "off", "drop"} => o # Nil,
         o = Nil \/ (id \in Ids /\ o = devices[id]),
         NEW new \in [Objs -> Device], Objects(new) \/ dev' = new,
         \A d \in Objs : new[d].id = dev[d].id,
         devices' \in [Ids -> Objs \cup {Nil}],
         \A i \in Ids : devices'[i] = devices[i] \/ devices'[i] = Nil,
         syncing' \subseteq Objs, \A d \in syncing' : dev[d].id \in Ids,
         left' \subseteq Ids, asked' \subseteq Ids
  PROVE  DevInv'
<1>1. /\ quick' \in BOOLEAN
      /\ pc' \in [Goroutines -> Steps]
      /\ req' \in [Goroutines -> [id : Ids \cup {Nil}, kind : Kind]]
      /\ held' \in [Goroutines -> Objs \cup {Nil}]
      /\ held'[t] = o /\ req'[t].id = id
      /\ \A u \in Goroutines : u # t => held'[u] = held[u] /\ req'[u] = req[u]
      /\ Carried'
  BY ContinueIs
<1>2. dev' \in [Objs -> Device] /\ Named'
  <2>1. \A u \in Goroutines :
          \/ held'[u] = Nil
          \/ held'[u] = held[u] /\ req'[u].id = req[u].id
          \/ req'[u].id \in Ids /\ held'[u] = devices[req'[u].id]
    BY <1>1
  <2>2. CASE Objects(new)
    BY <1>1, <2>1, <2>2, NamedKept
  <2>3. CASE dev' = new
    <3>1. \A i \in Ids : devices'[i] # Nil => dev'[devices'[i]].id = i
      BY <2>3 DEF DevInv, Named
    <3>2. \A u \in Goroutines : held'[u] # Nil =>
                                  req'[u].id \in Ids /\ dev'[held'[u]].id = req'[u].id
      BY <1>1, <2>1, <2>3 DEF DevInv, Named
    <3>3. \A d \in syncing' : dev'[d].id \in Ids
      BY <2>3
    <3>. QED BY <2>3, <3>1, <3>2, <3>3 DEF Named
  <2>. QED BY <2>2, <2>3
<1>3. TypeOK'
  BY <1>1, <1>2 DEF TypeOK, Named, Kind
<1>. QED BY <1>1, <1>2, <1>3 DEF DevInv

\* Its last step.
LEMMA ReturnStep ==
  ASSUME DevInv, NEW t \in Goroutines, Return(t),
         NEW new \in [Objs -> Device], Objects(new),
         \A d \in Objs : new[d].id = dev[d].id,
         devices' \in [Ids -> Objs \cup {Nil}],
         \A i \in Ids : devices'[i] = devices[i] \/ devices'[i] = Nil,
         syncing' \subseteq Objs, \A d \in syncing' : dev[d].id \in Ids,
         UNCHANGED <<left, asked>>
  PROVE  DevInv'
<1>1. "idle" \in Steps /\ Nil \in Kind /\ Nil \in Ids \cup {Nil} /\ Nil \in Objs \cup {Nil}
      /\ left' \subseteq Ids /\ asked' \subseteq Ids
  BY DEF Steps, Kind, DevInv, TypeOK
<1>2. Continue(t, "idle", Nil, Nil, Nil)
  BY DEF Return
<1>. DEFINE step == "idle"
            kind == Nil
            id == Nil
            o == Nil
<1>3. /\ step \in Steps /\ kind \in Kind /\ id \in Ids \cup {Nil} /\ o \in Objs \cup {Nil}
      /\ Continue(t, step, kind, id, o) /\ step = "idle" /\ o = Nil
  BY <1>1, <1>2
<1>4. /\ step # "idle" => id \in Ids
      /\ step \in {"login", "off", "drop"} => o # Nil
      /\ o = Nil \/ (id \in Ids /\ o = devices[id])
  OBVIOUS
<1>5. Objects(new) \/ dev' = new
  OBVIOUS
<1>. HIDE DEF step, kind, id, o
<1>. QED BY <1>1, <1>3, <1>4, <1>5, GoroutineStep

LEMMA NewRequest ==
  ASSUME DevInv, NEW t \in Goroutines, NEW id \in Ids,
         RegisterNew(t, id) \/ KeepaliveUnknown(t, id)
  PROVE  DevInv'
<1>1. /\ UNCHANGED <<devices, dev, left, syncing, asked>>
      /\ \E kind \in Kind : Continue(t, "store", kind, id, Nil)
  BY DEF RegisterNew, KeepaliveUnknown, Kind
<1>2. PICK kind \in Kind : Continue(t, "store", kind, id, Nil)
  BY <1>1
<1>3. "store" \in Steps /\ dev \in [Objs -> Device] /\ devices \in [Ids -> Objs \cup {Nil}]
      /\ syncing \subseteq Objs /\ left \subseteq Ids /\ asked \subseteq Ids
  BY DEF Steps, DevInv, TypeOK
<1>. DEFINE o == Nil
            step == "store"
<1>4. /\ step \in Steps /\ o \in Objs \cup {Nil} /\ o = Nil /\ Continue(t, step, kind, id, o)
      /\ step \notin {"login", "off", "drop"} /\ id \in Ids \cup {Nil}
  BY <1>2, <1>3
<1>5. \A d \in syncing : dev[d].id \in Ids
  BY InUseNamed
<1>. DEFINE new == dev
<1>6. /\ step # "idle" => id \in Ids
      /\ step \in {"login", "off", "drop"} => o # Nil
      /\ o = Nil \/ (id \in Ids /\ o = devices[id])
      /\ new \in [Objs -> Device] /\ \A d \in Objs : new[d].id = dev[d].id
  BY <1>1, <1>3
<1>7. /\ devices' \in [Ids -> Objs \cup {Nil}] /\ \A i \in Ids : devices'[i] = devices[i]
      /\ syncing' \subseteq Objs /\ left' \subseteq Ids /\ asked' \subseteq Ids
      /\ \A d \in syncing' : dev[d].id \in Ids
  BY <1>1, <1>3, <1>5
<1>8. Objects(new) \/ dev' = new
  BY <1>1
<1>. HIDE DEF o, step, new
<1>. QED BY <1>4, <1>6, <1>7, <1>8, GoroutineStep

\* The device with the id is there: the handler goes on with that one.
LEMMA FindStoredStep ==
  ASSUME DevInv, NEW t \in Threads, FindStored(t)
  PROVE  DevInv'
<1>. DEFINE o == devices[req[t].id]
            new == [dev EXCEPT ![o].upd = 0]
<1>1. t \in Goroutines /\ req[t].id \in Ids /\ o \in Objs /\ o # Nil
  BY DEF FindStored, Goroutines, DevInv, Carried, TypeOK
<1>2. new \in [Objs -> Device] /\ \A d \in Objs : new[d].id = dev[d].id
  <2>1. 0 \in 0 .. UpdLimit + 1
    BY GbDeviceAssumption DEF GbDeviceAssumption, UpdLimit
  <2>. QED BY <1>1, <2>1 DEF DevInv, TypeOK, Device
<1>3. Stored(t, o) /\ Objects(new) /\ UNCHANGED <<devices, left, asked>>
  BY DEF FindStored
<1>4. req[t].kind \in Kind /\ "login" \in Steps /\ "idle" \in Steps /\ Nil \in Kind
  BY <1>1 DEF DevInv, TypeOK, Kind, Steps
<1>5. syncing' \subseteq Objs /\ \A d \in syncing' : dev[d].id \in Ids
  BY <1>1, <1>3, InUseNamed DEF Stored, GoSync
<1>6. devices \in [Ids -> Objs \cup {Nil}] /\ left \subseteq Ids /\ asked \subseteq Ids
  BY DEF DevInv, TypeOK
<1>7. Return(t) \/ Continue(t, "login", req[t].kind, req[t].id, o)
  BY <1>3 DEF Stored
<1>. HIDE DEF o, new
<1>8. CASE Return(t)
  BY <1>1, <1>2, <1>3, <1>5, <1>6, <1>8, ReturnStep
<1>9. CASE Continue(t, "login", req[t].kind, req[t].id, o)
  <2>1. o = devices[req[t].id]
    BY DEF o
  <2>. QED BY <1>1, <1>2, <1>3, <1>4, <1>5, <1>6, <1>9, <2>1, GoroutineStep
<1>. QED BY <1>7, <1>8, <1>9

LEMMA FindNoneStep ==
  ASSUME DevInv, NEW t \in Threads, FindNone(t)
  PROVE  DevInv'
<1>1. TypeOK'
  BY DEF FindNone, DevInv, TypeOK, Steps
<1>2. Named' /\ Carried'
  BY DEF FindNone, DevInv, Named, Carried
<1>. QED BY <1>1, <1>2 DEF DevInv

\* Nobody points to the object a new device is built in.
LEMMA PutDeviceStep ==
  ASSUME DevInv, NEW t \in Threads, PutDevice(t)
  PROVE  DevInv'
<1>. DEFINE o == CHOOSE o \in Objs \ InUse : TRUE
            i == req[t].id
            new == [dev EXCEPT ![o] = [NoDevice EXCEPT !.id = i, !.upd = 0]]
<1>1. t \in Goroutines /\ i \in Ids
  BY DEF PutDevice, Goroutines, DevInv, Carried
<1>2. o \in Objs /\ o \notin InUse
  BY DEF PutDevice
<1>3. /\ devices' = [devices EXCEPT ![i] = o] /\ Stored(t, o) /\ UNCHANGED <<left, asked>>
      /\ Objects(new)
  BY DEF PutDevice
<1>4. o # Nil
  BY <1>2, GbDeviceAssumption DEF GbDeviceAssumption
<1>5. /\ \A id \in Ids : devices[id] # o
      /\ \A u \in Goroutines : held[u] # o
      /\ \A d \in syncing : d # o
  BY <1>2 DEF InUse
<1>6. new \in [Objs -> Device] /\ new[o].id = i /\ \A d \in Objs \ {o} : new[d] = dev[d]
  <2>. HIDE DEF i
  <2>0. /\ NoDevice \in Device /\ 0 \in 0 .. UpdLimit + 1
    BY NoDeviceType, GbDeviceAssumption DEF GbDeviceAssumption, UpdLimit
  <2>1. [NoDevice EXCEPT !.id = i, !.upd = 0] \in Device
        /\ [NoDevice EXCEPT !.id = i, !.upd = 0].id = i
    BY <1>1, <2>0 DEF Device
  <2>. DEFINE r == [NoDevice EXCEPT !.id = i, !.upd = 0]
  <2>. HIDE DEF r, o
  <2>2. new = [dev EXCEPT ![o] = r]
    BY DEF r
  <2>. QED BY <1>2, <2>1, <2>2 DEF DevInv, TypeOK, r
<1>. HIDE DEF o, new
<1>7. req[t].kind \in Kind /\ Nil \in Kind /\ "login" \in Steps /\ "idle" \in Steps
  BY <1>1 DEF DevInv, TypeOK, Kind, Steps
<1>8. PICK step \in Steps, kind \in Kind, id \in Ids \cup {Nil}, p \in {o, Nil} :
        /\ Continue(t, step, kind, id, p)
        /\ step # "idle" => id \in Ids
        /\ step \in {"login", "off", "drop"} => p # Nil
        /\ p = o => id = i
  <2>1. Continue(t, "idle", Nil, Nil, Nil) \/ Continue(t, "login", req[t].kind, i, o)
    BY <1>3 DEF Stored, Return
  <2>2. CASE Continue(t, "idle", Nil, Nil, Nil)
    BY <1>4, <1>7, <2>2
  <2>3. CASE Continue(t, "login", req[t].kind, i, o)
    BY <1>1, <1>4, <1>7, <2>3
  <2>. QED BY <2>1, <2>2, <2>3
<1>. HIDE DEF i
<1>9. p \in Objs \cup {Nil}
  BY <1>2, <1>8
<1>10. /\ quick' \in BOOLEAN
       /\ pc' \in [Goroutines -> Steps]
       /\ req' \in [Goroutines -> [id : Ids \cup {Nil}, kind : Kind]]
       /\ held' \in [Goroutines -> Objs \cup {Nil}]
       /\ held'[t] = p /\ req'[t].id = id
       /\ \A u \in Goroutines : u # t => held'[u] = held[u] /\ req'[u] = req[u]
       /\ Carried'
  BY <1>1, <1>8, <1>9, ContinueIs
<1>11. syncing' \subseteq syncing \cup {o}
  BY <1>3 DEF Stored, GoSync
<1>12. dev' \in [Objs -> Device]
  BY <1>3, <1>6, ObjectsKeep
<1>13. devices' \in [Ids -> Objs \cup {Nil}]
  BY <1>2, <1>3 DEF DevInv, TypeOK
<1>14. ASSUME NEW j \in Ids, devices'[j] # Nil
       PROVE  dev'[devices'[j]].id = j
  <2>1. devices'[j] \in Objs /\ dev'[devices'[j]] = new[devices'[j]]
    BY <1>3, <1>6, <1>13, <1>14, ObjectsKeep
  <2>2. CASE j = i
    BY <1>3, <1>6, <2>1, <2>2 DEF DevInv, TypeOK
  <2>3. CASE j # i
    BY <1>3, <1>5, <1>6, <1>14, <2>1, <2>3 DEF DevInv, TypeOK, Named
  <2>. QED BY <2>2, <2>3
<1>15. ASSUME NEW u \in Goroutines, held'[u] # Nil
       PROVE  req'[u].id \in Ids /\ dev'[held'[u]].id = req'[u].id
  <2>1. held'[u] \in Objs /\ dev'[held'[u]] = new[held'[u]]
    BY <1>3, <1>6, <1>10, <1>15, ObjectsKeep
  <2>2. CASE u = t
    BY <1>1, <1>6, <1>8, <1>10, <1>15, <2>1, <2>2
  <2>3. CASE u # t
    BY <1>5, <1>6, <1>10, <1>15, <2>1, <2>3 DEF DevInv, Named
  <2>. QED BY <2>2, <2>3
<1>16. ASSUME NEW d \in syncing'
       PROVE  d \in Objs /\ dev'[d].id \in Ids
  <2>1. d \in Objs
    BY <1>2, <1>11, <1>16 DEF DevInv, TypeOK
  <2>2. dev'[d] = new[d]
    BY <1>3, <1>6, <1>16, <2>1, ObjectsKeep
  <2>. QED BY <1>1, <1>6, <1>11, <1>16, <2>1, <2>2 DEF DevInv, Named
<1>17. Named'
  BY <1>14, <1>15, <1>16 DEF Named
<1>18. TypeOK'
  <2>1. left' \subseteq Ids /\ asked' \subseteq Ids
    BY <1>3 DEF DevInv, TypeOK
  <2>. QED BY <1>10, <1>12, <1>13, <1>14, <1>16, <2>1 DEF TypeOK, Kind
<1>. QED BY <1>10, <1>17, <1>18 DEF DevInv

LEMMA LoginStep ==
  ASSUME DevInv, NEW t \in Threads, Login(t)
  PROVE  DevInv'
<1>. DEFINE new == [dev EXCEPT ![held[t]].ka = 0]
<1>1. t \in Goroutines /\ held[t] # Nil
  BY DEF Login, Goroutines, DevInv, Carried
<1>2. new \in [Objs -> Device] /\ \A d \in Objs : new[d].id = dev[d].id
  BY WriteType DEF DevInv, TypeOK
<1>3. Objects(new) /\ UNCHANGED <<devices, left, asked>> /\ Return(t)
  BY DEF Login
<1>4. syncing' \subseteq Objs /\ \A d \in syncing' : dev[d].id \in Ids
  BY <1>1, InUseNamed DEF Login, GoSync
<1>5. devices \in [Ids -> Objs \cup {Nil}]
  BY DEF DevInv, TypeOK
<1>. HIDE DEF new
<1>. QED BY <1>1, <1>2, <1>3, <1>4, <1>5, ReturnStep

-----------------------------------------------------------------------------
(***************************************************************************)
(* syncChannels, the job and time.                                         *)
(***************************************************************************)

LEMMA SyncStep ==
  ASSUME DevInv, NEW o \in Objs, SyncChannels(o)
  PROVE  DevInv'
<1>. DEFINE new == [dev EXCEPT ![o].synced = TRUE]
<1>1. new \in [Objs -> Device] /\ \A d \in Objs : new[d].id = dev[d].id
  BY WriteType DEF DevInv, TypeOK
<1>2. Objects(new) /\ UNCHANGED <<devices, threadVars, left>> /\ syncing' = syncing \ {o}
  BY DEF SyncChannels
<1>3. asked' \subseteq Ids
  BY InUseNamed DEF SyncChannels, DevInv, TypeOK
<1>4. devices \in [Ids -> Objs \cup {Nil}]
  BY DEF DevInv, TypeOK
<1>. HIDE DEF new
<1>. QED BY <1>1, <1>2, <1>3, <1>4, InUseNamed, DevicesOnly

\* A step that changes no device and no goroutine.
LEMMA ListsOnly ==
  ASSUME DevInv, UNCHANGED <<devices, dev, threadVars>>, left' \subseteq Ids,
         syncing' \subseteq Objs, \A o \in syncing' : dev[o].id \in Ids, asked' \subseteq Ids
  PROVE  DevInv'
<1>1. TypeOK'
  BY DEF DevInv, TypeOK, threadVars
<1>2. Named' /\ Carried'
  BY DEF DevInv, Named, Carried, threadVars
<1>. QED BY <1>1, <1>2 DEF DevInv

LEMMA JobSteps ==
  ASSUME DevInv, JobStep
  PROVE  DevInv'
<1>0. /\ Job \in Goroutines /\ Steps = {"idle", "store", "put", "login", "drop", "off"}
      /\ Nil \in Kind /\ devices \in [Ids -> Objs \cup {Nil}] /\ dev \in [Objs -> Device]
      /\ left \subseteq Ids /\ asked \subseteq Ids
  BY DEF Goroutines, Steps, Kind, DevInv, TypeOK
<1>1. CASE StatusTick
  BY <1>0, <1>1, InUseNamed, ListsOnly DEF StatusTick
<1>2. CASE DropDevice
  <2>1. Objects(dev) /\ UNCHANGED <<left, syncing, asked>> /\ Return(Job)
    BY <1>2 DEF DropDevice
  <2>2. devices' \in [Ids -> Objs \cup {Nil}]
        /\ \A i \in Ids : devices'[i] = devices[i] \/ devices'[i] = Nil
    BY <1>0, <1>2 DEF DropDevice
  <2>. QED BY <1>0, <2>1, <2>2, InUseNamed, ReturnStep
<1>3. CASE ChannelsOff
  <2>. DEFINE new == [dev EXCEPT ![held[Job]].chan = IF @ = "none" THEN @ ELSE "OFF"]
  <2>1. new \in [Objs -> Device] /\ \A d \in Objs : new[d].id = dev[d].id
    <3>. DEFINE s == IF dev[held[Job]].chan = "none" THEN dev[held[Job]].chan ELSE "OFF"
    <3>1. s \in {"none", "ON", "OFF"} /\ new = [dev EXCEPT ![held[Job]].chan = s]
      OBVIOUS
    <3>. HIDE DEF s, new
    <3>. QED BY <1>0, <3>1, WriteType
  <2>2. Objects(new) /\ UNCHANGED <<devices, left, syncing, asked>> /\ Return(Job)
    BY <1>3 DEF ChannelsOff
  <2>. HIDE DEF new
  <2>. QED BY <1>0, <2>1, <2>2, InUseNamed, ReturnStep
<1>4. ASSUME NEW id \in Ids, StatusCheck(id)
      PROVE  DevInv'
  <2>1. left' \subseteq Ids /\ UNCHANGED <<devices, dev, syncing, asked>>
    BY <1>0, <1>4 DEF StatusCheck
  <2>2. CASE UNCHANGED threadVars
    BY <1>0, <2>1, <2>2, InUseNamed, ListsOnly
  <2>3. CASE ~UNCHANGED threadVars
    <3>1. PICK step \in {"drop", "off"} : Continue(Job, step, Nil, id, devices[id])
      BY <1>4, <2>3 DEF StatusCheck
    <3>2. devices[id] # Nil
      BY <1>4, <2>3 DEF StatusCheck
    <3>3. step \in Steps /\ devices[id] \in Objs \cup {Nil}
      BY <1>0
    <3>. QED BY <1>0, <2>1, <3>1, <3>2, <3>3, InUseNamed, GoroutineStep
  <2>. QED BY <2>2, <2>3
<1>. QED BY <1>1, <1>2, <1>3, <1>4 DEF JobStep

LEMMA OlderType ==
  ASSUME NEW limit \in Nat, NEW age \in 0 .. limit + 1
  PROVE  Older(age, limit) \in 0 .. limit + 1
BY DEF Older

LEMMA TickStep ==
  ASSUME DevInv, Tick
  PROVE  DevInv'
<1>1. UpdLimit \in Nat /\ DropAfter \in Nat
  BY GbDeviceAssumption DEF GbDeviceAssumption, UpdLimit
<1>2. ASSUME NEW o \in Objs
      PROVE  dev'[o] \in Device /\ dev'[o].id = dev[o].id
  <2>. DEFINE upd == Older(dev[o].upd, UpdLimit)
              ka == Older(dev[o].ka, DropAfter)
  <2>1. upd \in 0 .. UpdLimit + 1 /\ ka \in 0 .. DropAfter + 1
    BY <1>1, OlderType DEF DevInv, TypeOK, Device
  <2>2. dev'[o] = [dev[o] EXCEPT !.upd = upd, !.ka = ka, !.synced = FALSE]
    BY DEF Tick
  <2>3. dev[o] \in Device
    BY DEF DevInv, TypeOK
  <2>. HIDE DEF upd, ka
  <2>. QED BY <2>1, <2>2, <2>3 DEF Device
<1>3. dev' \in [Objs -> Device]
  BY <1>2 DEF Tick
<1>4. TypeOK'
  BY <1>2, <1>3 DEF Tick, DevInv, TypeOK, threadVars
<1>5. Named'
  BY <1>2, InUseNamed DEF Tick, DevInv, Named, threadVars
<1>6. Carried'
  BY DEF Tick, DevInv, Carried, threadVars
<1>. QED BY <1>4, <1>5, <1>6 DEF DevInv

-----------------------------------------------------------------------------
(***************************************************************************)
(* The theorems.                                                           *)
(***************************************************************************)

LEMMA DevStep == DevInv /\ [Next]_vars => DevInv'
<1>. SUFFICES ASSUME DevInv, [Next]_vars
              PROVE  DevInv'
  OBVIOUS
<1>1. CASE UNCHANGED vars
  BY <1>1, InUseNamed, ListsOnly DEF vars, DevInv, TypeOK
<1>2. ASSUME NEW t \in Threads, Handle(t)
      PROVE  DevInv'
  BY <1>2, FindStoredStep, FindNoneStep, PutDeviceStep, LoginStep DEF Handle
<1>3. ASSUME NEW t \in Handlers, NEW id \in Ids, RegisterNew(t, id) \/ KeepaliveUnknown(t, id)
      PROVE  DevInv'
  <2>1. t \in Goroutines
    BY GbDeviceAssumption DEF GbDeviceAssumption, Handlers, Goroutines
  <2>. QED BY <1>3, <2>1, NewRequest
<1>4. ASSUME NEW id \in Ids, GetSyncChannels(id)
      PROVE  DevInv'
  BY <1>4, InUseNamed, ListsOnly DEF GetSyncChannels, GoSync, DevInv, TypeOK
<1>5. CASE Tick
  BY <1>5, TickStep
<1>. QED BY <1>1, <1>2, <1>3, <1>4, <1>5, CameraStep, SyncStep, JobSteps DEF Next

\* A device is only ever found under its own id, and with it come all types.
THEOREM TypeCorrect == Spec => []TypeOK
<1>1. DevInv => TypeOK
  BY DEF DevInv
<1>. QED BY <1>1, DevInit, DevStep, PTL DEF Spec

\* A goroutine that got a device for a camera works on a device of that camera to its end,
\* and a catalog is only asked of a camera, although devices are dropped, replaced and
\* stored again meanwhile.
THEOREM HeldByItsCamera == Spec => [](Named /\ Carried)
<1>1. DevInv => Named /\ Carried
  BY DEF DevInv
<1>. QED BY <1>1, DevInit, DevStep, PTL DEF Spec

=============================================================================
