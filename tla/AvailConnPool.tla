---------------------------- MODULE AvailConnPool ----------------------------
(***************************************************************************)
(* gb28181/avail_conn_pool.go: the ports on which the media servers of the *)
(* GB28181 channels listen, one pool for TCP and one for UDP.              *)
(*                                                                         *)
(* Acquire scans the range under the pool's mutex from where the last scan *)
(* ended, binding one port after another until the system grants one.      *)
(* While it scans, other programs bind and free ports of the range, and    *)
(* lalmax frees the ports of the media servers it disposes of.             *)
(*                                                                         *)
(* NewGB28181Server adds the increment to the listen port in uint16, so    *)
(* the upper end of the range may be below its lower end: the scan then    *)
(* runs through the end of the number space and over port 0, which the     *)
(* system grants every time, as a port of its own choice.                  *)
(* onListenWithPort is set before the pool is used.                        *)
(***************************************************************************)
EXTENDS Integers, FiniteSets

CONSTANTS
  Callers, \* goroutines that acquire a port, one per INVITE
  W,       \* how many port numbers there are (2^16)
  MinPort, \* AvailConnPool.minPort
  MaxPort  \* AvailConnPool.maxPort

ASSUME PortAssumption ==
  /\ W \in Nat \ {0}
  /\ MinPort \in 0 .. W - 1
  /\ MaxPort \in 0 .. W - 1

VARIABLES
  lastPort,      \* AvailConnPool.lastPort
  caller,        \* what each goroutine is doing; "scanning" holds the mutex
  p,             \* the port the scan binds next
  loopFirstFlag, \* no port was tried yet
  bound,         \* the ports of the range the system refuses to bind
  tried,         \* history: the ports refused in this scan
  untried        \* history: the ports not tried since port q was handed out

scanVars == <<lastPort, p, loopFirstFlag, tried, untried>>
vars     == <<scanVars, caller, bound>>

-----------------------------------------------------------------------------
\* The range the two ends stand for, and the place of a port in it.
PortRange == IF MinPort <= MaxPort
             THEN MinPort .. MaxPort
             ELSE (MinPort .. W - 1) \cup (0 .. MaxPort)

\* What binding port q takes from the range.
Taken(q) == IF q = 0 THEN {} ELSE {q}

\* Mutants: the scan leaves the range; it never returns to its first port.
nextPortUnbounded(q) == (q + 1) % W
nextPortSkipsMin(q)  == IF q = MaxPort THEN (MinPort + 1) % W ELSE (q + 1) % W

nextPort(q) == IF q = MaxPort THEN MinPort ELSE (q + 1) % W

Init ==
  /\ lastPort = MinPort
  /\ caller = [c \in Callers |-> "idle"]
  /\ p = MinPort
  /\ loopFirstFlag = FALSE
  /\ bound = {}
  /\ tried = {}
  /\ untried = [q \in PortRange |-> {}]

-----------------------------------------------------------------------------
Acquire(c) ==
  /\ caller[c] = "idle"
  /\ caller' = [caller EXCEPT ![c] = "waiting"]
  /\ UNCHANGED <<scanVars, bound>>

Lock(c) ==
  /\ caller[c] = "waiting"
  /\ \A d \in Callers : caller[d] # "scanning"
  /\ caller' = [caller EXCEPT ![c] = "scanning"]
  /\ p' = lastPort
  /\ loopFirstFlag' = TRUE
  /\ tried' = {}
  /\ UNCHANGED <<lastPort, bound, untried>>

\* Mutant: the round is over at the lower end of the range.
RoundOverAtMin == ~loopFirstFlag /\ p = MinPort

RoundOver == ~loopFirstFlag /\ p = lastPort

Try == untried' = [q \in PortRange |-> untried[q] \ {p}]

\* The port cannot be bound: on to the next one.
Refused(c) ==
  /\ caller[c] = "scanning" /\ ~RoundOver /\ p \in bound
  /\ p' = nextPort(p)
  /\ loopFirstFlag' = FALSE
  /\ tried' = tried \cup {p}
  /\ Try
  /\ UNCHANGED <<lastPort, caller, bound>>

\* Mutant: the next scan starts with the port that was just handed out.
GrantedKeepsLast(c) ==
  /\ caller[c] = "scanning" /\ ~RoundOver /\ p \notin bound
  /\ bound' = bound \cup Taken(p)
  /\ untried' = [q \in PortRange |-> IF q = p THEN PortRange \ {p} ELSE untried[q] \ {p}]
  /\ caller' = [caller EXCEPT ![c] = "idle"]
  /\ UNCHANGED <<lastPort, p, loopFirstFlag, tried>>

Granted(c) ==
  /\ caller[c] = "scanning" /\ ~RoundOver /\ p \notin bound
  /\ bound' = bound \cup Taken(p)
  /\ lastPort' = nextPort(p)
  /\ untried' = [q \in PortRange |-> IF q = p THEN PortRange \ {p} ELSE untried[q] \ {p}]
  /\ caller' = [caller EXCEPT ![c] = "idle"]
  /\ UNCHANGED <<p, loopFirstFlag, tried>>

\* ErrNazaNet
Failed(c) ==
  /\ caller[c] = "scanning" /\ RoundOver
  /\ caller' = [caller EXCEPT ![c] = "idle"]
  /\ UNCHANGED <<scanVars, bound>>

Scan(c) == Refused(c) \/ Granted(c) \/ Failed(c)

\* The rest of the machine, and media servers that are disposed of.
Occupy(q) == q \notin bound /\ bound' = bound \cup Taken(q) /\ UNCHANGED <<scanVars, caller>>
Vacate(q) == q \in bound /\ bound' = bound \ {q} /\ UNCHANGED <<scanVars, caller>>

-----------------------------------------------------------------------------
Next ==
  \/ \E c \in Callers : Acquire(c) \/ Lock(c) \/ Scan(c)
  \/ \E q \in PortRange : Occupy(q) \/ Vacate(q)

\* Go's mutex hands itself over to a waiter that starves.
Fairness == \A c \in Callers : SF_vars(Lock(c)) /\ WF_vars(Scan(c))

Spec == Init /\ [][Next]_vars /\ Fairness

-----------------------------------------------------------------------------
(***************************************************************************)
(* Properties.                                                             *)
(***************************************************************************)

\* The scan stays in the range, whichever way round its ends are.
TypeOK ==
  /\ lastPort \in PortRange
  /\ p \in PortRange
  /\ loopFirstFlag \in BOOLEAN
  /\ caller \in [Callers -> {"idle", "waiting", "scanning"}]
  /\ bound \subseteq PortRange \ {0}
  /\ tried \subseteq PortRange
  /\ untried \in [PortRange -> SUBSET PortRange]

\* Acquire gives up only when the system refused every port of the range once
\* during the scan, wherever in the range the scan began.
FailsOnlyAfterFullRound ==
  (\E c \in Callers : caller[c] = "scanning") /\ RoundOver => tried = PortRange

\* A port is handed out again only after every other port of the range was
\* tried since it was handed out last, by whichever goroutines: a device that
\* still sends to the port of a finished session does not reach the next one
\* as long as the range has others to offer.
ReusedAfterAllOthers ==
  [][\A c \in Callers : Granted(c) => untried[p] = {}]_vars

\* Every goroutine that acquires a port gets an answer, however the ports of
\* the range come and go meanwhile.
AcquireReturns == \A c \in Callers : caller[c] = "waiting" ~> caller[c] = "idle"
=============================================================================
