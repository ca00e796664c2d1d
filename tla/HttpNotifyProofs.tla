--------------------------- MODULE HttpNotifyProofs ---------------------------
(***************************************************************************)
(* Proofs about the notification queues, for every channel length and      *)
(* every number of events.  One lemma turns a step of the channels and     *)
(* their goroutines into a step of the abstract queue; the refinement and  *)
(* the order of the events both follow from it.                            *)
(***************************************************************************)
EXTENDS HttpNotify, SequenceTheorems, TLAPS

\* The events of a channel that wait or are being posted.
Pending(q) == posting[q] \o queue[q]

\* Both channels stay within their length and each goroutine holds at most one
\* task.
THEOREM TypeCorrect == Spec => []TypeOK
<1>. USE NotifyAssumption
<1>1. Init => TypeOK
  BY DEF Init, TypeOK
<1>2. TypeOK /\ [Next]_vars => TypeOK'
  <2>. SUFFICES ASSUME TypeOK, [Next]_vars PROVE TypeOK'
    OBVIOUS
  <2>1. ASSUME NEW q \in Queues, asyncPost(q) PROVE TypeOK'
    <3>1. /\ Append(queue[q], fired[q] + 1) \in Seq(Nat)
          /\ Len(Append(queue[q], fired[q] + 1)) = Len(queue[q]) + 1
      BY AppendProperties DEF TypeOK
    <3>2. Len(queue[q]) \in Nat
      BY DEF TypeOK
    <3>3. queue' \in [Queues -> Seq(Nat)] /\ \A r \in Queues : Len(queue'[r]) <= maxTaskLen
      BY <2>1, <3>1, <3>2 DEF asyncPost, TypeOK
    <3>. QED BY <2>1, <3>3 DEF asyncPost, TypeOK
  <2>2. ASSUME NEW q \in Queues, RunLoop(q) PROVE TypeOK'
    <3>1. /\ Head(queue[q]) \in Nat /\ Tail(queue[q]) \in Seq(Nat)
          /\ Len(Tail(queue[q])) = Len(queue[q]) - 1
      BY <2>2, HeadTailProperties DEF RunLoop, TypeOK
    <3>2. Len(queue[q]) \in Nat
      BY DEF TypeOK
    <3>3. queue' \in [Queues -> Seq(Nat)] /\ \A r \in Queues : Len(queue'[r]) <= maxTaskLen
      BY <2>2, <3>1, <3>2 DEF RunLoop, TypeOK
    <3>4. posting' \in [Queues -> Seq(Nat)] /\ \A r \in Queues : Len(posting'[r]) <= 1
      BY <2>2, <3>1 DEF RunLoop, TypeOK
    <3>. QED BY <2>2, <3>3, <3>4 DEF RunLoop, TypeOK
  <2>3. ASSUME NEW q \in Queues, post(q) PROVE TypeOK'
    <3>1. received[q] \o posting[q] \in Seq(Nat)
      BY ConcatProperties DEF TypeOK
    <3>2. received' \in [Queues -> Seq(Nat)]
      BY <2>3, <3>1 DEF post, TypeOK
    <3>3. posting' \in [Queues -> Seq(Nat)] /\ \A r \in Queues : Len(posting'[r]) <= 1
      BY <2>3 DEF post, TypeOK
    <3>. QED BY <2>3, <3>2, <3>3 DEF post, TypeOK
  <2>4. CASE UNCHANGED vars
    BY <2>4 DEF vars, TypeOK
  <2>. QED BY <2>1, <2>2, <2>3, <2>4 DEF Next
<1>. QED BY <1>1, <1>2, PTL DEF Spec

-----------------------------------------------------------------------------
(***************************************************************************)
(* A step of one channel, seen from outside.                               *)
(***************************************************************************)

Idle(q) ==
  fired'[q] = fired[q] /\ Pending(q)' = Pending(q) /\ received'[q] = received[q]

Accepts(q) ==
  /\ Len(Pending(q)) <= maxTaskLen
  /\ fired'[q] = fired[q] + 1
  /\ Pending(q)' = Append(Pending(q), fired[q] + 1)
  /\ received'[q] = received[q]

TurnsAway(q) ==
  /\ Len(Pending(q)) >= maxTaskLen
  /\ fired'[q] = fired[q] + 1
  /\ Pending(q)' = Pending(q) /\ received'[q] = received[q]

Settles(q) ==
  /\ Pending(q) # << >>
  /\ fired'[q] = fired[q]
  /\ Pending(q)' = Tail(Pending(q))
  /\ received'[q] \in {received[q], Append(received[q], Head(Pending(q)))}

\* A sequence of at most one task.
LEMMA OneTask ==
  ASSUME NEW s \in Seq(Nat), Len(s) <= 1, s # << >>
  PROVE  s[1] \in Nat /\ s = <<s[1]>>
OBVIOUS

\* One task in front of the others.
LEMMA TaskInFront ==
  ASSUME NEW n \in Nat, NEW s \in Seq(Nat)
  PROVE  /\ <<n>> \o s # << >>
         /\ Head(<<n>> \o s) = n
         /\ Tail(<<n>> \o s) = s
<1>. DEFINE w == <<n>> \o s
<1>1. /\ w \in Seq(Nat) /\ Len(w) = 1 + Len(s)
      /\ \A i \in 1 .. 1 + Len(s) : w[i] = IF i <= 1 THEN n ELSE s[i - 1]
  OBVIOUS
<1>. HIDE DEF w
<1>2. w # << >> /\ Head(w) = n /\ Tail(w) \in Seq(Nat) /\ Len(Tail(w)) = Len(s)
  BY <1>1
<1>3. \A i \in 1 .. Len(s) : Tail(w)[i] = s[i]
  <2>1. \A i \in 1 .. Len(s) : Tail(w)[i] = w[i + 1]
    BY ONLY <1>1, <1>2, HeadTailProperties
  <2>2. \A i \in 1 .. Len(s) : i + 1 \in 1 .. 1 + Len(s) /\ ~(i + 1 <= 1) /\ (i + 1) - 1 = i
    OBVIOUS
  <2>. QED BY ONLY <1>1, <2>1, <2>2
<1>4. Tail(w) = s
  BY <1>2, <1>3, SeqEqual
<1>. QED BY <1>2, <1>4 DEF w

\* A task behind the others.
LEMMA TaskBehind ==
  ASSUME NEW s \in Seq(Nat), NEW t \in Seq(Nat), NEW x \in Nat
  PROVE  s \o Append(t, x) = Append(s \o t, x)
<1>1. s \o Append(t, x) \in Seq(Nat) /\ Append(s \o t, x) \in Seq(Nat)
  OBVIOUS
<1>2. Len(s \o Append(t, x)) = Len(Append(s \o t, x))
  OBVIOUS
<1>3. \A i \in 1 .. Len(s \o Append(t, x)) : (s \o Append(t, x))[i] = Append(s \o t, x)[i]
  OBVIOUS
<1>. QED BY <1>1, <1>2, <1>3, SeqEqual

\* What the goroutine holds is nothing or one task, in front of the channel.
LEMMA PendingForms ==
  ASSUME TypeOK, NEW q \in Queues
  PROVE  /\ posting[q] = << >> => Pending(q) = queue[q]
         /\ posting[q] # << >> =>
              \E n \in Nat : /\ posting[q] = <<n>>
                             /\ Pending(q) # << >>
                             /\ Head(Pending(q)) = n
                             /\ Tail(Pending(q)) = queue[q]
         /\ Pending(q) \in Seq(Nat)
         /\ Len(Pending(q)) = Len(posting[q]) + Len(queue[q])
<1>1. queue[q] \in Seq(Nat) /\ posting[q] \in Seq(Nat) /\ Len(posting[q]) <= 1
  BY DEF TypeOK
<1>2. Pending(q) \in Seq(Nat) /\ Len(Pending(q)) = Len(posting[q]) + Len(queue[q])
  BY <1>1, ConcatProperties DEF Pending
<1>3. posting[q] = << >> => Pending(q) = queue[q]
  BY <1>1, ConcatEmptySeq DEF Pending
<1>4. ASSUME posting[q] # << >>
      PROVE  \E n \in Nat : /\ posting[q] = <<n>>
                            /\ Pending(q) # << >>
                            /\ Head(Pending(q)) = n
                            /\ Tail(Pending(q)) = queue[q]
  <2>1. posting[q][1] \in Nat /\ posting[q] = <<posting[q][1]>>
    BY <1>1, <1>4, OneTask
  <2>2. PICK n \in Nat : posting[q] = <<n>>
    BY <2>1, Zenon
  <2>3. Pending(q) = <<n>> \o queue[q]
    BY <2>2 DEF Pending
  <2>. QED BY <1>1, <2>2, <2>3, TaskInFront
<1>. QED BY <1>2, <1>3, <1>4

\* Every step of the program is, for each channel, a step of the abstract queue
\* or leaves it alone.
LEMMA QueueStep ==
  ASSUME TypeOK, TypeOK', [Next]_vars, NEW q \in Queues
  PROVE  Idle(q) \/ Accepts(q) \/ TurnsAway(q) \/ Settles(q)
<1>1. CASE UNCHANGED vars
  BY <1>1 DEF vars, Idle, Pending
<1>2. ASSUME NEW r \in Queues, r # q, asyncPost(r) \/ RunLoop(r) \/ post(r)
      PROVE  Idle(q)
  <2>1. UNCHANGED <<queue[q], posting[q], fired[q], received[q]>>
    BY <1>2 DEF asyncPost, RunLoop, post, TypeOK
  <2>. QED BY <2>1 DEF Idle, Pending
<1>3. CASE asyncPost(q)
  <2>1. /\ Len(queue[q]) < maxTaskLen => Len(Pending(q)) <= maxTaskLen
        /\ Len(queue[q]) >= maxTaskLen => Len(Pending(q)) >= maxTaskLen
        /\ Len(queue[q]) < maxTaskLen \/ Len(queue[q]) >= maxTaskLen
    <3>1. posting[q] \in Seq(Nat) /\ queue[q] \in Seq(Nat) /\ Len(posting[q]) <= 1
      BY DEF TypeOK
    <3>2. Len(posting[q]) \in Nat /\ Len(queue[q]) \in Nat
      BY <3>1, LenProperties
    <3>3. Len(Pending(q)) = Len(posting[q]) + Len(queue[q])
      BY PendingForms
    <3>4. PICK a \in Nat : a = Len(posting[q])
      BY <3>2
    <3>5. PICK b \in Nat : b = Len(queue[q])
      BY <3>2
    <3>6. a <= 1 /\ Len(Pending(q)) = a + b
      BY <3>1, <3>3, <3>4, <3>5, Zenon
    <3>7. /\ b < maxTaskLen => a + b <= maxTaskLen
          /\ b >= maxTaskLen => a + b >= maxTaskLen
          /\ b < maxTaskLen \/ b >= maxTaskLen
      BY <3>6, NotifyAssumption
    <3>. QED BY <3>5, <3>6, <3>7, Zenon
  <2>2. /\ posting'[q] = posting[q] /\ received'[q] = received[q]
        /\ fired'[q] = fired[q] + 1
    BY <1>3 DEF asyncPost, TypeOK
  <2>3. CASE Len(queue[q]) < maxTaskLen
    <3>1. queue'[q] = Append(queue[q], fired[q] + 1)
      BY <1>3, <2>3 DEF asyncPost, TypeOK
    <3>2. Pending(q)' = Append(Pending(q), fired[q] + 1)
      <4>1. /\ posting[q] \in Seq(Nat) /\ queue[q] \in Seq(Nat)
            /\ fired[q] + 1 \in Nat
        BY DEF TypeOK
      <4>2. posting[q] \o Append(queue[q], fired[q] + 1)
              = Append(posting[q] \o queue[q], fired[q] + 1)
        BY <4>1, TaskBehind
      <4>. QED BY <2>2, <3>1, <4>2, Zenon DEF Pending
    <3>3. Len(Pending(q)) <= maxTaskLen
      BY <2>1, <2>3
    <3>. QED BY <2>2, <3>2, <3>3 DEF Accepts
  <2>4. CASE Len(queue[q]) >= maxTaskLen
    <3>1. ~(Len(queue[q]) < maxTaskLen)
      BY <2>4, NotifyAssumption DEF TypeOK
    <3>2. queue'[q] = queue[q]
      BY <1>3, <3>1 DEF asyncPost
    <3>3. Pending(q)' = Pending(q)
      BY <2>2, <3>2 DEF Pending
    <3>. QED BY <2>1, <2>2, <2>4, <3>3 DEF TurnsAway
  <2>. QED BY <2>1, <2>3, <2>4
<1>4. CASE RunLoop(q)
  <2>1. /\ posting[q] = << >> /\ queue[q] # << >> /\ queue[q] \in Seq(Nat)
        /\ posting'[q] = <<Head(queue[q])>> /\ queue'[q] = Tail(queue[q])
        /\ fired'[q] = fired[q] /\ received'[q] = received[q]
    BY <1>4 DEF RunLoop, TypeOK
  <2>2. <<Head(queue[q])>> \o Tail(queue[q]) = queue[q]
    BY <2>1
  <2>3. Pending(q) = queue[q]
    BY <2>1, PendingForms
  <2>. QED BY <2>1, <2>2, <2>3 DEF Idle, Pending
<1>5. CASE post(q)
  <2>1. PICK n \in Nat : /\ posting[q] = <<n>>
                         /\ Pending(q) # << >>
                         /\ Head(Pending(q)) = n
                         /\ Tail(Pending(q)) = queue[q]
    BY <1>5, PendingForms DEF post
  <2>2. /\ posting'[q] = << >> /\ queue'[q] = queue[q] /\ fired'[q] = fired[q]
        /\ received'[q] \in {received[q], received[q] \o posting[q]}
    BY <1>5 DEF post, TypeOK
  <2>3. Pending(q)' = queue[q]
    BY <2>2, ConcatEmptySeq DEF Pending, TypeOK
  <2>4. received[q] \o posting[q] = Append(received[q], n)
    BY <2>1, AppendIsConcat DEF TypeOK
  <2>. QED BY <2>1, <2>2, <2>3, <2>4 DEF Settles
<1>. QED BY <1>1, <1>2, <1>3, <1>4, <1>5 DEF Next

\* Both channels with their goroutines implement LossyFifo.
THEOREM Refinement == Spec => RefinesLossyFifo
<1>1. Init => TaskFifo!Init /\ UpdateFifo!Init
  <2>. SUFFICES ASSUME Init PROVE TaskFifo!Init /\ UpdateFifo!Init
    OBVIOUS
  <2>1. \A q \in Queues : /\ fired[q] = 0 /\ received[q] = << >>
                          /\ posting[q] \o queue[q] = << >>
    BY DEF Init
  <2>. QED BY <2>1 DEF TaskFifo!Init, UpdateFifo!Init, Queues
<1>2. TypeOK /\ TypeOK' /\ [Next]_vars =>
        [TaskFifo!Next]_(TaskFifo!fifoVars) /\ [UpdateFifo!Next]_(UpdateFifo!fifoVars)
  <2>. SUFFICES ASSUME TypeOK, TypeOK', [Next]_vars
                PROVE  /\ [TaskFifo!Next]_(TaskFifo!fifoVars)
                       /\ [UpdateFifo!Next]_(UpdateFifo!fifoVars)
    OBVIOUS
  <2>1. \A q \in Queues : Idle(q) \/ Accepts(q) \/ TurnsAway(q) \/ Settles(q)
    BY QueueStep
  <2>2. [TaskFifo!Next]_(TaskFifo!fifoVars)
    BY <2>1 DEF Queues, Idle, Accepts, TurnsAway, Settles, Pending, TaskFifo!Next,
       TaskFifo!fifoVars, TaskFifo!Accept, TaskFifo!TurnAway, TaskFifo!Settle
  <2>3. [UpdateFifo!Next]_(UpdateFifo!fifoVars)
    BY <2>1 DEF Queues, Idle, Accepts, TurnsAway, Settles, Pending, UpdateFifo!Next,
       UpdateFifo!fifoVars, UpdateFifo!Accept, UpdateFifo!TurnAway, UpdateFifo!Settle
  <2>. QED BY <2>2, <2>3
<1>. QED BY <1>1, <1>2, TypeCorrect, PTL
         DEF Spec, RefinesLossyFifo, TaskFifo!Spec, UpdateFifo!Spec

-----------------------------------------------------------------------------
(***************************************************************************)
(* The order of the events.                                                *)
(***************************************************************************)

\* r arrived, w waits and n events happened: r and then w are in order.
InOrder(r, w, n) ==
  /\ Increasing(r) /\ Increasing(w)
  /\ \A i \in DOMAIN r, j \in DOMAIN w : r[i] < w[j]
  /\ \A i \in DOMAIN r : r[i] <= n
  /\ \A j \in DOMAIN w : w[j] <= n

OrderInv == \A q \in Queues : InOrder(received[q], Pending(q), fired[q])

\* The next event may join the ones that wait, or be turned away.
LEMMA InOrderOffered ==
  ASSUME NEW r \in Seq(Nat), NEW w \in Seq(Nat), NEW n \in Nat, InOrder(r, w, n)
  PROVE  InOrder(r, Append(w, n + 1), n + 1) /\ InOrder(r, w, n + 1)
<1>. DEFINE v == Append(w, n + 1)
<1>1. /\ \A i \in DOMAIN r : r[i] \in Nat /\ r[i] <= n
      /\ \A j \in DOMAIN w : w[j] \in Nat /\ w[j] <= n
  BY DEF InOrder
<1>2. /\ DOMAIN v = 1 .. Len(w) + 1 /\ DOMAIN w = 1 .. Len(w) /\ Len(w) \in Nat
      /\ \A j \in DOMAIN w : v[j] = w[j]
      /\ v[Len(w) + 1] = n + 1
  OBVIOUS
<1>. HIDE DEF v
<1>3. \A j \in DOMAIN v : (j \in DOMAIN w /\ v[j] = w[j]) \/ (j = Len(w) + 1 /\ v[j] = n + 1)
  BY <1>2
<1>4. Increasing(v)
  <2>1. SUFFICES ASSUME NEW i \in DOMAIN v, NEW j \in DOMAIN v, i < j PROVE v[i] < v[j]
    BY DEF Increasing
  <2>2. i \in DOMAIN w
    BY <1>2, <2>1
  <2>3. CASE j \in DOMAIN w
    BY <1>2, <2>1, <2>2, <2>3 DEF InOrder, Increasing
  <2>4. CASE j = Len(w) + 1
    BY <1>1, <1>2, <2>2, <2>4
  <2>. QED BY <1>3, <2>3, <2>4
<1>5. \A i \in DOMAIN r, j \in DOMAIN v : r[i] < v[j]
  <2>1. SUFFICES ASSUME NEW i \in DOMAIN r, NEW j \in DOMAIN v PROVE r[i] < v[j]
    OBVIOUS
  <2>2. CASE j \in DOMAIN w /\ v[j] = w[j]
    BY <2>2 DEF InOrder
  <2>3. CASE v[j] = n + 1
    BY <1>1, <2>3
  <2>. QED BY <1>3, <2>2, <2>3
<1>6. /\ \A i \in DOMAIN r : r[i] <= n + 1
      /\ \A j \in DOMAIN v : v[j] <= n + 1
      /\ \A j \in DOMAIN w : w[j] <= n + 1
  <2>1. \A i \in DOMAIN r : r[i] <= n + 1
    BY <1>1, <1>3
  <2>2. \A j \in DOMAIN w : w[j] <= n + 1
    BY <1>1, <1>3
  <2>3. \A j \in DOMAIN v : v[j] <= n + 1
    BY <1>1, <1>3, <2>2
  <2>. QED BY <2>1, <2>2, <2>3
<1>. QED BY <1>4, <1>5, <1>6 DEF v, InOrder

\* The event at the head may arrive or be lost.
LEMMA InOrderSettled ==
  ASSUME NEW r \in Seq(Nat), NEW w \in Seq(Nat), NEW n \in Nat, InOrder(r, w, n),
         w # << >>
  PROVE  InOrder(r, Tail(w), n) /\ InOrder(Append(r, Head(w)), Tail(w), n)
<1>. DEFINE t == Tail(w)
            s == Append(r, Head(w))
<1>1. /\ DOMAIN t = 1 .. Len(w) - 1 /\ DOMAIN w = 1 .. Len(w) /\ Len(w) \in Nat \ {0}
      /\ \A j \in DOMAIN t : t[j] = w[j + 1]
  BY HeadTailProperties
<1>2. /\ DOMAIN s = 1 .. Len(r) + 1 /\ DOMAIN r = 1 .. Len(r) /\ Len(r) \in Nat
      /\ \A j \in DOMAIN r : s[j] = r[j]
      /\ s[Len(r) + 1] = w[1]
  OBVIOUS
<1>. HIDE DEF t, s
<1>3. \A j \in DOMAIN t : j + 1 \in DOMAIN w /\ t[j] = w[j + 1] /\ w[1] < t[j]
  <2>1. SUFFICES ASSUME NEW j \in DOMAIN t
                 PROVE  j + 1 \in DOMAIN w /\ t[j] = w[j + 1] /\ w[1] < t[j]
    OBVIOUS
  <2>2. 1 \in DOMAIN w /\ j + 1 \in DOMAIN w /\ t[j] = w[j + 1] /\ 1 < j + 1
    BY <1>1
  <2>3. w[1] < w[j + 1]
    BY <2>2 DEF InOrder, Increasing
  <2>. QED BY <2>2, <2>3
<1>4. Increasing(t)
  BY <1>1, <1>3 DEF InOrder, Increasing
<1>5. InOrder(r, t, n)
  BY <1>3, <1>4 DEF InOrder
<1>6. \A j \in DOMAIN s : (j \in DOMAIN r /\ s[j] = r[j]) \/ (j = Len(r) + 1 /\ s[j] = w[1])
  BY <1>2
<1>7. 1 \in DOMAIN w
  BY <1>1
<1>8. Increasing(s)
  <2>1. SUFFICES ASSUME NEW i \in DOMAIN s, NEW j \in DOMAIN s, i < j PROVE s[i] < s[j]
    BY DEF Increasing
  <2>2. i \in DOMAIN r
    BY <1>2, <2>1
  <2>3. CASE j \in DOMAIN r
    BY <1>2, <2>1, <2>2, <2>3 DEF InOrder, Increasing
  <2>4. CASE j = Len(r) + 1
    BY <1>2, <1>7, <2>2, <2>4 DEF InOrder
  <2>. QED BY <1>6, <2>3, <2>4
<1>9. /\ \A i \in DOMAIN s, j \in DOMAIN t : s[i] < t[j]
      /\ \A i \in DOMAIN s : s[i] <= n
      /\ \A j \in DOMAIN t : t[j] <= n
  BY <1>3, <1>6, <1>7 DEF InOrder
<1>. QED BY <1>4, <1>5, <1>8, <1>9 DEF t, s, InOrder

\* However many events are turned away and however many posts fail, the web
\* server sees the events of a channel in order and none of them twice.
THEOREM OrderAlways == Spec => []ReceivedInOrder
<1>1. Init => OrderInv
  BY DEF Init, OrderInv, InOrder, Increasing, Pending
<1>2. TypeOK /\ TypeOK' /\ OrderInv /\ [Next]_vars => OrderInv'
  <2>. SUFFICES ASSUME TypeOK, TypeOK', OrderInv, [Next]_vars, NEW q \in Queues
                PROVE  InOrder(received'[q], Pending(q)', fired'[q])
    BY DEF OrderInv, Pending
  <2>1. /\ received[q] \in Seq(Nat) /\ Pending(q) \in Seq(Nat) /\ fired[q] \in Nat
        /\ InOrder(received[q], Pending(q), fired[q])
    BY PendingForms DEF TypeOK, OrderInv
  <2>2. CASE Idle(q)
    BY <2>1, <2>2 DEF Idle
  <2>3. CASE Accepts(q)
    BY <2>1, <2>3, InOrderOffered DEF Accepts
  <2>4. CASE TurnsAway(q)
    BY <2>1, <2>4, InOrderOffered DEF TurnsAway
  <2>5. CASE Settles(q)
    BY <2>1, <2>5, InOrderSettled DEF Settles
  <2>. QED BY <2>2, <2>3, <2>4, <2>5, QueueStep
<1>3. OrderInv => ReceivedInOrder
  BY DEF OrderInv, InOrder, ReceivedInOrder
<1>. QED BY <1>1, <1>2, <1>3, TypeCorrect, PTL DEF Spec
=============================================================================
