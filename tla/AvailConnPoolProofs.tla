------------------------- MODULE AvailConnPoolProofs -------------------------
(***************************************************************************)
(* Proofs about the port pool, for every range of ports (one that runs     *)
(* through the end of the number space included) and every number of       *)
(* goroutines.  The ports of the range form a circle; everything is said   *)
(* in terms of the distance from one port to another along it.             *)
(***************************************************************************)
EXTENDS AvailConnPool, TLAPS

-----------------------------------------------------------------------------
(***************************************************************************)
(* The circle of ports.                                                    *)
(***************************************************************************)

\* The place of a port in the range, and the last place.
Pos(q) == IF MinPort <= q THEN q - MinPort ELSE q - MinPort + W
LastPos == Pos(MaxPort)

\* How many steps of nextPort lead from a to b, and the ports before b then.
Dist(a, b) == IF Pos(a) <= Pos(b) THEN Pos(b) - Pos(a)
              ELSE Pos(b) - Pos(a) + LastPos + 1
Before(a, b) == {r \in PortRange : Dist(a, r) < Dist(a, b)}

\* Every port of the range has a place of its own.
LEMMA Places ==
  /\ LastPos \in Nat
  /\ MinPort \in PortRange
  /\ \A q \in PortRange : q \in Int /\ Pos(q) \in 0 .. LastPos
  /\ \A q, r \in PortRange : Pos(q) = Pos(r) => q = r
BY PortAssumption DEF PortRange, Pos, LastPos

\* nextPort goes to the next place, and from the last to the first.
LEMMA NextPlace ==
  ASSUME NEW q \in PortRange
  PROVE  /\ nextPort(q) \in PortRange
         /\ Pos(nextPort(q)) = IF Pos(q) = LastPos THEN 0 ELSE Pos(q) + 1
<1>1. CASE q = MaxPort
  <2>1. nextPort(q) = MinPort
    BY <1>1 DEF nextPort
  <2>. QED BY <1>1, <2>1, Places, PortAssumption DEF Pos, LastPos
<1>2. CASE q # MaxPort
  <2>1. q \in 0 .. W - 1
    BY PortAssumption DEF PortRange
  <2>2. (q + 1) % W = IF q = W - 1 THEN 0 ELSE q + 1
    BY <2>1, PortAssumption
  <2>3. nextPort(q) = IF q = W - 1 THEN 0 ELSE q + 1
    BY <1>2, <2>2 DEF nextPort
  <2>. QED BY <1>2, <2>1, <2>3, PortAssumption DEF PortRange, Pos, LastPos
<1>. QED BY <1>1, <1>2

\* Distances along the circle.
LEMMA Distances ==
  ASSUME NEW a \in PortRange, NEW b \in PortRange
  PROVE  /\ Dist(a, b) \in 0 .. LastPos
         /\ Dist(a, b) = 0 <=> a = b
         /\ \A c \in PortRange : Dist(a, b) = Dist(a, c) => b = c
BY Places DEF Dist

\* A step of the start brings every other port nearer.
LEMMA StepFrom ==
  ASSUME NEW a \in PortRange, NEW b \in PortRange, a # b
  PROVE  Dist(nextPort(a), b) = Dist(a, b) - 1
<1>1. /\ Pos(a) \in 0 .. LastPos /\ Pos(b) \in 0 .. LastPos /\ Pos(a) # Pos(b)
      /\ LastPos \in Nat
  BY Places
<1>2. Pos(nextPort(a)) = IF Pos(a) = LastPos THEN 0 ELSE Pos(a) + 1
  BY NextPlace
<1>. QED BY <1>1, <1>2 DEF Dist

\* A step of the end goes one further, until it is back at the start.
LEMMA StepTo ==
  ASSUME NEW a \in PortRange, NEW b \in PortRange
  PROVE  /\ nextPort(b) # a => Dist(a, nextPort(b)) = Dist(a, b) + 1
         /\ nextPort(b) = a => Dist(a, b) = LastPos
<1>1. /\ Pos(a) \in 0 .. LastPos /\ Pos(b) \in 0 .. LastPos
      /\ LastPos \in Nat
  BY Places
<1>2. /\ nextPort(b) \in PortRange
      /\ Pos(nextPort(b)) = IF Pos(b) = LastPos THEN 0 ELSE Pos(b) + 1
  BY NextPlace
<1>3. nextPort(b) # a => Pos(nextPort(b)) # Pos(a)
  BY <1>2, Places
<1>. QED BY <1>1, <1>2, <1>3 DEF Dist

\* The ports before b, when the start or the end of the way moves on.
LEMMA BeforeSteps ==
  ASSUME NEW a \in PortRange, NEW b \in PortRange
  PROVE  /\ Before(a, b) \ {a} \subseteq Before(nextPort(a), b)
         /\ Before(nextPort(a), a) = PortRange \ {a}
         /\ nextPort(b) # a => Before(a, nextPort(b)) = Before(a, b) \cup {b}
         /\ nextPort(b) = a => Before(a, b) \cup {b} = PortRange
         /\ Before(a, a) = {}
<1>1. Before(a, a) = {}
  BY Distances, Places DEF Before
<1>2. Before(a, b) \ {a} \subseteq Before(nextPort(a), b)
  <2>1. CASE a = b
    BY <1>1, <2>1
  <2>2. CASE a # b
    <3>1. SUFFICES ASSUME NEW r \in PortRange, r # a, Dist(a, r) < Dist(a, b)
                   PROVE  Dist(nextPort(a), r) < Dist(nextPort(a), b)
      BY DEF Before
    <3>2. /\ Dist(nextPort(a), r) = Dist(a, r) - 1
          /\ Dist(nextPort(a), b) = Dist(a, b) - 1
      BY <2>2, <3>1, StepFrom
    <3>3. Dist(a, r) \in Int /\ Dist(a, b) \in Int
      BY Distances, Places
    <3>. QED BY <3>1, <3>2, <3>3
  <2>. QED BY <2>1, <2>2
<1>3. Before(nextPort(a), a) = PortRange \ {a}
  <2>1. SUFFICES ASSUME NEW r \in PortRange
                 PROVE  Dist(nextPort(a), r) < Dist(nextPort(a), a) <=> r # a
    BY DEF Before
  <2>2. Dist(nextPort(a), a) = LastPos
    BY NextPlace, StepTo
  <2>3. /\ Dist(nextPort(a), r) \in 0 .. LastPos
        /\ Dist(nextPort(a), r) = Dist(nextPort(a), a) => r = a
    BY NextPlace, Distances
  <2>. QED BY <2>2, <2>3, Places
<1>4. ASSUME nextPort(b) # a PROVE Before(a, nextPort(b)) = Before(a, b) \cup {b}
  <2>1. SUFFICES ASSUME NEW r \in PortRange
                 PROVE  Dist(a, r) < Dist(a, nextPort(b)) <=> Dist(a, r) < Dist(a, b) \/ r = b
    BY DEF Before
  <2>2. Dist(a, nextPort(b)) = Dist(a, b) + 1
    BY <1>4, StepTo
  <2>3. /\ Dist(a, r) \in Int /\ Dist(a, b) \in Int
        /\ Dist(a, b) = Dist(a, r) => r = b
    BY Distances, Places
  <2>. QED BY <2>2, <2>3
<1>5. ASSUME nextPort(b) = a PROVE Before(a, b) \cup {b} = PortRange
  <2>1. SUFFICES ASSUME NEW r \in PortRange, r # b
                 PROVE  Dist(a, r) < Dist(a, b)
    BY DEF Before
  <2>2. Dist(a, b) = LastPos
    BY <1>5, StepTo
  <2>3. Dist(a, r) \in 0 .. LastPos /\ (Dist(a, b) = Dist(a, r) => b = r)
    BY Distances
  <2>. QED BY <2>1, <2>2, <2>3, Places
<1>. QED BY <1>1, <1>2, <1>3, <1>4, <1>5

-----------------------------------------------------------------------------
(***************************************************************************)
(* The inductive invariant.  "tried" is what lies behind the scan and      *)
(* "untried" only holds what lies ahead of it.                             *)
(***************************************************************************)

Scanning == \E c \in Callers : caller[c] = "scanning"

\* The mutex admits one goroutine.
Mutex == \A c, d \in Callers :
           caller[c] = "scanning" /\ caller[d] = "scanning" => c = d

\* The ports the scan has tried: none, those up to p, or the whole round.
Tried ==
  Scanning =>
    /\ loopFirstFlag => p = lastPort /\ tried = {}
    /\ ~loopFirstFlag /\ p # lastPort => tried = Before(lastPort, p)
    /\ RoundOver => tried = PortRange

\* The port that is bound next, now or when the next scan begins.
Cursor == IF Scanning THEN p ELSE lastPort

Untried == \A q \in PortRange : untried[q] \subseteq Before(Cursor, q)

IInv == TypeOK /\ Mutex /\ Tried /\ Untried

\* A goroutine that takes or waits for the mutex, or asks for it, moves no port.
LEMMA NoScanStep ==
  ASSUME IInv, NEW c \in Callers, Acquire(c) \/ Lock(c)
  PROVE  IInv'
<1>1. CASE Acquire(c)
  <2>1. \A d \in Callers : caller'[d] = "scanning" <=> caller[d] = "scanning"
    BY <1>1 DEF Acquire, IInv, TypeOK
  <2>2. Scanning' <=> Scanning
    BY <2>1 DEF Scanning
  <2>3. TypeOK' /\ Mutex'
    BY <1>1, <2>1 DEF Acquire, scanVars, IInv, TypeOK, Mutex
  <2>4. Tried'
    BY <1>1, <2>2 DEF Acquire, scanVars, IInv, Tried, RoundOver
  <2>5. Untried'
    BY <1>1, <2>2 DEF Acquire, scanVars, IInv, Untried, Cursor
  <2>. QED BY <2>3, <2>4, <2>5 DEF IInv
<1>2. CASE Lock(c)
  <2>1. /\ ~Scanning /\ Scanning'
        /\ \A d \in Callers : caller'[d] = "scanning" => d = c
    BY <1>2 DEF Lock, Scanning, IInv, TypeOK
  <2>2. TypeOK' /\ Mutex'
    BY <1>2, <2>1 DEF Lock, IInv, TypeOK, Mutex
  <2>3. Tried'
    BY <1>2 DEF Lock, Tried, RoundOver
  <2>4. Untried'
    BY <1>2, <2>1 DEF Lock, IInv, Untried, Cursor
  <2>. QED BY <2>2, <2>3, <2>4 DEF IInv
<1>. QED BY <1>1, <1>2

\* A refusal moves the port behind the scan.
LEMMA RefusedStep ==
  ASSUME IInv, NEW c \in Callers, Refused(c)
  PROVE  IInv'
<1>1. Scanning /\ Scanning' /\ caller' = caller
  BY DEF Refused, Scanning
<1>2. TypeOK'
  BY NextPlace DEF Refused, Try, IInv, TypeOK
<1>3. Mutex'
  BY <1>1 DEF IInv, Mutex
<1>4. p \in PortRange /\ lastPort \in PortRange
  BY DEF IInv, TypeOK
<1>5. Tried'
  <2>1. tried \cup {p} = Before(lastPort, p) \cup {p}
    <3>1. CASE loopFirstFlag
      BY <1>1, <1>4, <3>1, BeforeSteps DEF IInv, Tried
    <3>2. CASE ~loopFirstFlag
      BY <1>1, <3>2 DEF IInv, Tried, Refused, RoundOver
    <3>. QED BY <3>1, <3>2
  <2>2. CASE nextPort(p) = lastPort
    BY <1>4, <2>1, <2>2, BeforeSteps DEF Refused, Tried, RoundOver
  <2>3. CASE nextPort(p) # lastPort
    BY <1>4, <2>1, <2>3, BeforeSteps DEF Refused, Tried, RoundOver
  <2>. QED BY <2>2, <2>3
<1>6. Untried'
  <2>1. SUFFICES ASSUME NEW q \in PortRange
                 PROVE  untried'[q] \subseteq Before(nextPort(p), q)
    BY <1>1 DEF Untried, Cursor, Refused
  <2>2. untried[q] \subseteq Before(p, q)
    BY <1>1 DEF IInv, Untried, Cursor
  <2>3. untried'[q] = untried[q] \ {p}
    BY DEF Refused, Try
  <2>4. Before(p, q) \ {p} \subseteq Before(nextPort(p), q)
    BY <1>4, BeforeSteps
  <2>. QED BY <2>2, <2>3, <2>4
<1>. QED BY <1>2, <1>3, <1>5, <1>6 DEF IInv

\* A port that is handed out has all the others ahead of it.
LEMMA GrantedStep ==
  ASSUME IInv, NEW c \in Callers, Granted(c)
  PROVE  IInv'
<1>1. Scanning /\ ~Scanning'
  BY DEF Granted, Scanning, IInv, TypeOK, Mutex
<1>2. p \in PortRange
  BY DEF IInv, TypeOK
<1>3. TypeOK'
  BY <1>2, NextPlace DEF Granted, Taken, IInv, TypeOK
<1>4. Mutex'
  BY DEF Granted, IInv, TypeOK, Mutex
<1>5. Tried'
  BY <1>1 DEF Tried
<1>6. Untried'
  <2>1. SUFFICES ASSUME NEW q \in PortRange
                 PROVE  untried'[q] \subseteq Before(nextPort(p), q)
    BY <1>1 DEF Untried, Cursor, Granted
  <2>2. CASE q = p
    BY <1>2, <2>2, BeforeSteps DEF Granted
  <2>3. CASE q # p
    <3>1. untried[q] \subseteq Before(p, q)
      BY <1>1 DEF IInv, Untried, Cursor
    <3>2. untried'[q] = untried[q] \ {p}
      BY <2>3 DEF Granted
    <3>3. Before(p, q) \ {p} \subseteq Before(nextPort(p), q)
      BY <1>2, BeforeSteps
    <3>. QED BY <3>1, <3>2, <3>3
  <2>. QED BY <2>2, <2>3
<1>. QED BY <1>3, <1>4, <1>5, <1>6 DEF IInv

\* A scan that gives up ends where it began.
LEMMA FailedStep ==
  ASSUME IInv, NEW c \in Callers, Failed(c)
  PROVE  IInv'
<1>1. Scanning /\ ~Scanning' /\ p = lastPort
  BY DEF Failed, RoundOver, Scanning, IInv, TypeOK, Mutex
<1>2. TypeOK' /\ Mutex'
  BY DEF Failed, scanVars, IInv, TypeOK, Mutex
<1>3. Tried' /\ Untried'
  BY <1>1 DEF Failed, scanVars, Tried, IInv, Untried, Cursor
<1>. QED BY <1>2, <1>3 DEF IInv

\* The pool does not depend on which ports are bound.
LEMMA OtherStep ==
  ASSUME IInv, \/ \E q \in PortRange : Occupy(q) \/ Vacate(q)
               \/ UNCHANGED vars
  PROVE  IInv'
<1>1. UNCHANGED <<lastPort, p, loopFirstFlag, tried, untried, caller>>
  BY DEF Occupy, Vacate, vars, scanVars
<1>2. bound' \subseteq PortRange \ {0}
  BY DEF Occupy, Vacate, vars, Taken, IInv, TypeOK
<1>3. TypeOK' /\ Mutex'
  BY <1>1, <1>2 DEF IInv, TypeOK, Mutex
<1>4. Tried' /\ Untried'
  BY <1>1 DEF IInv, Tried, Untried, Cursor, Scanning, RoundOver
<1>. QED BY <1>3, <1>4 DEF IInv

\* For every range and any number of goroutines, IInv holds throughout.
THEOREM Invariance == Spec => []IInv
<1>1. Init => IInv
  BY Places DEF Init, IInv, TypeOK, Mutex, Tried, Untried, Scanning
<1>2. IInv /\ [Next]_vars => IInv'
  BY NoScanStep, RefusedStep, GrantedStep, FailedStep, OtherStep DEF Next, Scan
<1>. QED BY <1>1, <1>2, PTL DEF Spec

-----------------------------------------------------------------------------
\* Every port the scan touches and every port it starts from is in the range,
\* also when the upper end of the range wrapped around.
THEOREM TypeCorrect == Spec => []TypeOK
<1>1. IInv => TypeOK
  BY DEF IInv
<1>. QED BY <1>1, Invariance, PTL

\* An INVITE gets no port only after the system refused every one of the range
\* during its own scan.
THEOREM FullRound == Spec => []FailsOnlyAfterFullRound
<1>1. IInv => FailsOnlyAfterFullRound
  BY DEF IInv, Tried, Scanning, FailsOnlyAfterFullRound
<1>. QED BY <1>1, Invariance, PTL

\* No port is handed out twice without a try of all the others in between.
THEOREM ReuseOrder == Spec => ReusedAfterAllOthers
<1>1. ASSUME IInv, NEW c \in Callers, Granted(c)
      PROVE  untried[p] = {}
  <2>1. p \in PortRange /\ Scanning
    BY <1>1 DEF IInv, TypeOK, Granted, Scanning
  <2>2. untried[p] \subseteq Before(p, p)
    BY <1>1, <2>1 DEF IInv, Untried, Cursor
  <2>. QED BY <2>1, <2>2, BeforeSteps
<1>2. IInv => [\A c \in Callers : Granted(c) => untried[p] = {}]_vars
  BY <1>1
<1>. QED BY <1>2, Invariance, PTL DEF ReusedAfterAllOthers
=============================================================================
