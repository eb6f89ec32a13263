---------------------------- MODULE FabricProofs ----------------------------
(***************************************************************************)
(* The memory fabric for every number of initiators, every word size and   *)
(* every pair of disjoint regions: how often an initiator is overtaken,    *)
(* and the atomic memory the fabric implements.                            *)
(***************************************************************************)
EXTENDS MemoryFabric, TLAPS

----------------------------------------------------------------------------
(* Arbitration. *)

\* The registers the arbitration reads are in range; no initiator that does
\* not request has been overtaken.
ArbitrationTypeOK ==
  /\ fabric_state \in {"FABRIC_IDLE", "FABRIC_REQUEST", "FABRIC_SPM_READ_WAIT",
                       "FABRIC_LOCAL_RESPONSE", "FABRIC_EXTERNAL_RESPONSE"}
  /\ transaction_owner \in Ports
  /\ round_robin_owner \in Ports
  /\ phase \in [Ports -> {"idle", "request", "wait"}]
  /\ overtaken \in [Ports -> Nat]
  /\ \A p \in Ports : phase[p] # "request" => overtaken[p] = 0

\* Every acceptance that overtakes a requester brings the scan nearer to it.
TurnsLeft ==
  \A p \in Requesting : overtaken[p] + ScanDistance(p) <= REQUESTER_COUNT - 1

\* A registered grant beats every requester in the scan, except the ones that
\* arrived after it and have not been overtaken yet.
GrantIsFair ==
  fabric_state = "FABRIC_REQUEST" =>
    \A p \in Requesting \ {transaction_owner} :
      overtaken[p] = 0 \/ ScanDistance(transaction_owner) < ScanDistance(p)

\* The inductive invariant.  OvertakenBound alone is not inductive: it does not
\* say that the rotation of the priority pays for every overtaking.
FairInv == ArbitrationTypeOK /\ TurnsLeft /\ GrantIsFair

\* The scan distance from a given start, as a function of the start.
DistanceFrom(base, p) == IF p >= base THEN p - base ELSE p + REQUESTER_COUNT - base

\* The scan meets every initiator within one round, two of them never at the
\* same distance.
LEMMA ScanDistances ==
  ASSUME NEW base \in Ports, NEW p \in Ports, NEW q \in Ports
  PROVE  /\ DistanceFrom(base, p) \in 0 .. REQUESTER_COUNT - 1
         /\ DistanceFrom(base, p) = DistanceFrom(base, q) => p = q
BY FabricAssumption DEF Ports, DistanceFrom

\* The initiator after the owner, where the scan starts next.
LEMMA NextOwner ==
  ASSUME NEW q \in Ports
  PROVE  (q + 1) % REQUESTER_COUNT = IF q = REQUESTER_COUNT - 1 THEN 0 ELSE q + 1
<1>1. REQUESTER_COUNT \in Nat \ {0} /\ q \in 0 .. REQUESTER_COUNT - 1
  BY FabricAssumption DEF Ports
<1> QED BY <1>1

\* Moving the scan past q: whoever q beat comes nearer, and nobody else is
\* last.
LEMMA RotationPays ==
  ASSUME NEW base \in Ports, NEW q \in Ports, NEW p \in Ports, p # q
  PROVE  LET next == (q + 1) % REQUESTER_COUNT
         IN  /\ next \in Ports
             /\ DistanceFrom(base, q) < DistanceFrom(base, p)
                  => DistanceFrom(next, p) < DistanceFrom(base, p)
             /\ DistanceFrom(next, p) <= REQUESTER_COUNT - 2
<1>1. REQUESTER_COUNT \in Nat \ {0}
  BY FabricAssumption
<1> DEFINE next == (q + 1) % REQUESTER_COUNT
<1>2. next = IF q = REQUESTER_COUNT - 1 THEN 0 ELSE q + 1
  BY NextOwner
<1> HIDE DEF next
<1>3. next \in Ports
  BY <1>1, <1>2 DEF Ports
<1>4. /\ DistanceFrom(base, q) < DistanceFrom(base, p)
           => DistanceFrom(next, p) < DistanceFrom(base, p)
      /\ DistanceFrom(next, p) <= REQUESTER_COUNT - 2
  BY <1>1, <1>2 DEF Ports, DistanceFrom
<1> QED BY <1>3, <1>4 DEF next

\* Only idle initiators issue; a request of an initiator waits for its
\* acceptance, an accepted one for its response.
LEMMA PortsMove ==
  ASSUME phase \in [Ports -> {"idle", "request", "wait"}],
         NEW issue \in Issues, NEW external_ready, NEW external_valid,
         PortStep(issue, external_ready, external_valid)
  PROVE  /\ phase' \in [Ports -> {"idle", "request", "wait"}]
         /\ DOMAIN issue \subseteq Idle
         /\ \A p \in DOMAIN issue : issue[p] \in Requests(p)
         /\ \A p \in Ports :
              /\ phase[p] = "idle" =>
                   phase'[p] = IF p \in DOMAIN issue THEN "request" ELSE "idle"
              /\ phase[p] = "request" =>
                   phase'[p] = IF p = transaction_owner /\ RequestFire(external_ready)
                                 THEN "wait" ELSE "request"
              /\ phase[p] = "wait" =>
                   phase'[p] = IF p = transaction_owner /\ ResponseFire(external_valid)
                                 THEN "idle" ELSE "wait"
<1>1. PICK S \in SUBSET Idle :
        issue \in {i \in [S -> UNION {Requests(p) : p \in S}] : \A p \in S : i[p] \in Requests(p)}
  BY DEF Issues
<1>2. DOMAIN issue \subseteq Idle /\ \A p \in DOMAIN issue : issue[p] \in Requests(p)
  BY <1>1
<1>3. \A p \in DOMAIN issue : p \in Ports /\ phase[p] = "idle"
  BY <1>2 DEF Idle
<1> DEFINE accepted(p) == p = transaction_owner /\ RequestFire(external_ready)
           answered(p) == p = transaction_owner /\ ResponseFire(external_valid)
<1>4. \A p \in Ports : /\ accepted(p) => phase[p] = "request"
                       /\ answered(p) => phase[p] = "wait"
  BY DEF RequestFire, ResponseFire
<1>5. phase' = [p \in Ports |-> IF p \in DOMAIN issue THEN "request"
                                ELSE IF accepted(p) THEN "wait"
                                ELSE IF answered(p) THEN "idle" ELSE phase[p]]
  BY DEF PortStep
<1> HIDE DEF accepted, answered
<1>6. phase' \in [Ports -> {"idle", "request", "wait"}]
  BY <1>5
<1>7. \A p \in Ports :
        /\ phase[p] = "idle" => phase'[p] = IF p \in DOMAIN issue THEN "request" ELSE "idle"
        /\ phase[p] = "request" => phase'[p] = IF accepted(p) THEN "wait" ELSE "request"
        /\ phase[p] = "wait" => phase'[p] = IF answered(p) THEN "idle" ELSE "wait"
  BY <1>3, <1>4, <1>5
<1> QED BY <1>2, <1>6, <1>7 DEF accepted, answered

\* A clock edge counts an overtaking exactly for those that keep requesting
\* while another request is accepted.
LEMMA Overtaking ==
  ASSUME ArbitrationTypeOK, NEW issue \in Issues, NEW external_ready, NEW external_valid,
         PortStep(issue, external_ready, external_valid), CountOvertaking
  PROVE  /\ overtaken' \in [Ports -> Nat]
         /\ \A p \in Ports : phase'[p] # "request" => overtaken'[p] = 0
         /\ \A p \in Requesting' :
              \/ p \notin Requesting /\ overtaken'[p] = 0
              \/ /\ p \in Requesting
                 /\ RequestFire(external_ready) => p # transaction_owner
                 /\ overtaken'[p] = overtaken[p]
                      \/ (RequestFire(external_ready) /\ overtaken'[p] = overtaken[p] + 1)
<1>1. /\ phase \in [Ports -> {"idle", "request", "wait"}]
      /\ overtaken \in [Ports -> Nat]
  BY DEF ArbitrationTypeOK
<1>2. /\ phase' \in [Ports -> {"idle", "request", "wait"}]
      /\ \A p \in Ports : phase[p] = "request" =>
           phase'[p] = IF p = transaction_owner /\ RequestFire(external_ready)
                         THEN "wait" ELSE "request"
  BY <1>1, PortsMove
<1>3. ASSUME NEW q \in Ports, phase[q] = "request", phase'[q] = "wait"
      PROVE  RequestFire(external_ready)
  BY <1>2, <1>3
<1>4. \A p \in Ports :
        overtaken'[p] = IF phase[p] # "request" \/ phase'[p] # "request" THEN 0
                        ELSE IF (\E q \in Ports : phase[q] = "request" /\ phase'[q] = "wait")
                                /\ overtaken[p] < REQUESTER_COUNT
                          THEN overtaken[p] + 1 ELSE overtaken[p]
  BY DEF CountOvertaking
<1>5. overtaken' \in [Ports -> Nat]
  <2>1. \A p \in Ports : overtaken'[p] \in Nat
    BY <1>1, <1>4
  <2> QED BY <2>1 DEF CountOvertaking
<1>6. \A p \in Ports : phase'[p] # "request" => overtaken'[p] = 0
  BY <1>4
<1>7. ASSUME NEW p \in Requesting'
      PROVE  \/ p \notin Requesting /\ overtaken'[p] = 0
             \/ /\ p \in Requesting
                /\ RequestFire(external_ready) => p # transaction_owner
                /\ overtaken'[p] = overtaken[p]
                     \/ (RequestFire(external_ready) /\ overtaken'[p] = overtaken[p] + 1)
  <2>1. p \in Ports /\ phase'[p] = "request"
    BY DEF Requesting
  <2> QED BY <1>2, <1>3, <1>4, <2>1 DEF Requesting
<1> QED BY <1>5, <1>6, <1>7

\* A clock edge keeps the registers of the arbitration in range.
LEMMA ArbitrationTypes ==
  ASSUME ArbitrationTypeOK, NEW issue \in Issues, NEW external_ready, NEW external_valid,
         NEW external_fails,
         FabricClock(issue, external_ready, external_valid, external_fails), CountOvertaking
  PROVE  ArbitrationTypeOK'
<1> USE DEF ArbitrationTypeOK
<1>1. /\ phase' \in [Ports -> {"idle", "request", "wait"}]
      /\ overtaken' \in [Ports -> Nat]
      /\ \A p \in Ports : phase'[p] # "request" => overtaken'[p] = 0
  BY PortsMove, Overtaking DEF FabricClock
<1>2. CASE Arbitrate
  BY <1>1, <1>2 DEF Arbitrate, ArbitrationOwner, Requesting
<1>3. CASE AwaitAcceptance(external_ready)
  BY <1>1, <1>3 DEF AwaitAcceptance
<1>4. CASE Accept(external_ready, external_fails)
  <2>1. (transaction_owner + 1) % REQUESTER_COUNT \in Ports
    BY NextOwner, FabricAssumption DEF Ports
  <2> QED BY <1>1, <1>4, <2>1 DEF Accept, RefuseIllegal, WriteScratchpad, ReadScratchpad,
                                AccessExternal
<1>5. CASE ScratchpadRead
  BY <1>1, <1>5 DEF ScratchpadRead
<1>6. CASE Respond(external_valid)
  BY <1>1, <1>6 DEF Respond
<1> QED BY <1>2, <1>3, <1>4, <1>5, <1>6 DEF FabricClock

\* A clock edge keeps the arbitration fair.
LEMMA ClockKeepsFair ==
  ASSUME FairInv, NEW issue \in Issues, NEW external_ready, NEW external_valid,
         NEW external_fails,
         FabricClock(issue, external_ready, external_valid, external_fails), CountOvertaking
  PROVE  FairInv'
<1> DEFINE dist(p) == DistanceFrom(round_robin_owner, p)
<1>0. /\ ArbitrationTypeOK /\ ArbitrationTypeOK'
      /\ REQUESTER_COUNT \in Nat \ {0}
  BY ArbitrationTypes, FabricAssumption DEF FairInv
<1>1. \A p : ScanDistance(p) = dist(p) /\ ScanDistance(p)' = dist(p)'
  BY DEF ScanDistance, DistanceFrom
<1>2. \A p \in Requesting' :
        \/ p \notin Requesting /\ overtaken'[p] = 0
        \/ /\ p \in Requesting
           /\ RequestFire(external_ready) => p # transaction_owner
           /\ overtaken'[p] = overtaken[p]
                \/ (RequestFire(external_ready) /\ overtaken'[p] = overtaken[p] + 1)
  BY <1>0, Overtaking DEF FabricClock
<1>3. \A p \in Ports : /\ dist(p) \in 0 .. REQUESTER_COUNT - 1
                       /\ dist(p)' \in 0 .. REQUESTER_COUNT - 1
                       /\ overtaken[p] \in Nat /\ overtaken'[p] \in Nat
  BY <1>0, ScanDistances DEF ArbitrationTypeOK
<1>4. /\ \A p \in Requesting : p \in Ports /\ overtaken[p] + dist(p) <= REQUESTER_COUNT - 1
      /\ \A p \in Requesting' : p \in Ports
  BY <1>1 DEF FairInv, TurnsLeft, Requesting
<1> HIDE DEF dist
<1>5. CASE Accept(external_ready, external_fails)
  <2>1. /\ fabric_state = "FABRIC_REQUEST" /\ transaction_owner \in Ports
        /\ RequestFire(external_ready)
        /\ fabric_state' # "FABRIC_REQUEST"
        /\ round_robin_owner \in Ports
        /\ round_robin_owner' = (transaction_owner + 1) % REQUESTER_COUNT
    BY <1>0, <1>5 DEF Accept, RequestFire, RefuseIllegal, WriteScratchpad, ReadScratchpad,
                      AccessExternal, ArbitrationTypeOK
  <2>2. GrantIsFair'
    BY <2>1 DEF GrantIsFair
  <2>3. ASSUME NEW p \in Requesting'
        PROVE  overtaken'[p] + dist(p)' <= REQUESTER_COUNT - 1
    <3>1. CASE p \notin Requesting
      BY <1>0, <1>2, <1>3, <1>4, <3>1
    <3>2. CASE p \in Requesting
      <4>1. p # transaction_owner /\ overtaken'[p] <= overtaken[p] + 1
        BY <1>2, <1>3, <1>4, <2>1, <2>3, <3>2
      <4>2. overtaken[p] = 0 \/ dist(transaction_owner) < dist(p)
        BY <1>1, <2>1, <3>2, <4>1 DEF FairInv, GrantIsFair
      <4>3. /\ dist(transaction_owner) < dist(p) => dist(p)' < dist(p)
            /\ dist(p)' <= REQUESTER_COUNT - 2
        BY <1>4, <2>1, <3>2, <4>1, RotationPays DEF dist
      <4> QED BY <1>0, <1>3, <1>4, <3>2, <4>1, <4>2, <4>3
    <3> QED BY <3>1, <3>2
  <2> QED BY <1>0, <1>1, <2>2, <2>3 DEF FairInv, TurnsLeft
<1>6. CASE Arbitrate
  <2>1. /\ ~RequestFire(external_ready) /\ round_robin_owner' = round_robin_owner
        /\ fabric_state = "FABRIC_IDLE"
    BY <1>6 DEF Arbitrate, RequestFire
  <2>2. \A p : dist(p)' = dist(p)
    BY <2>1 DEF dist, DistanceFrom
  <2>3. TurnsLeft'
    BY <1>0, <1>1, <1>2, <1>3, <1>4, <2>1, <2>2 DEF TurnsLeft
  <2>4. ASSUME fabric_state' = "FABRIC_REQUEST",
               NEW p \in Requesting', p # transaction_owner', overtaken'[p] # 0
        PROVE  dist(transaction_owner)' < dist(p)'
    <3>1. p \in Requesting
      BY <1>2, <2>4
    <3>2. PICK q \in ArbitrationOwner : transaction_owner' = q
      BY <1>6, <2>1, <2>4 DEF Arbitrate
    <3>3. q \in Ports /\ q # p /\ dist(q) <= dist(p)
      BY <1>1, <2>4, <3>1, <3>2 DEF ArbitrationOwner, Requesting
    <3>4. dist(q) # dist(p)
      BY <1>0, <1>4, <3>1, <3>3, ScanDistances DEF dist, ArbitrationTypeOK
    <3>5. dist(q) < dist(p)
      BY <1>3, <1>4, <3>1, <3>3, <3>4
    <3>6. dist(transaction_owner)' = dist(q)
      BY <2>1, <3>2 DEF dist, DistanceFrom
    <3> QED BY <2>2, <3>5, <3>6
  <2>5. GrantIsFair'
    BY <1>1, <2>4 DEF GrantIsFair
  <2> QED BY <1>0, <2>3, <2>5 DEF FairInv
<1>7. CASE \/ AwaitAcceptance(external_ready)
           \/ ScratchpadRead
           \/ Respond(external_valid)
  <2>1. /\ ~RequestFire(external_ready) /\ round_robin_owner' = round_robin_owner
        /\ transaction_owner' = transaction_owner
        /\ fabric_state' = "FABRIC_REQUEST" => fabric_state = "FABRIC_REQUEST"
    BY <1>7 DEF AwaitAcceptance, ScratchpadRead, Respond, RequestFire
  <2>2. \A p : dist(p)' = dist(p)
    BY <2>1 DEF dist, DistanceFrom
  <2>3. TurnsLeft'
    BY <1>0, <1>1, <1>2, <1>3, <1>4, <2>1, <2>2 DEF TurnsLeft
  <2>4. GrantIsFair'
    <3>1. dist(transaction_owner)' = dist(transaction_owner)
      BY <2>1 DEF dist, DistanceFrom
    <3> QED BY <1>1, <1>2, <2>1, <2>2, <3>1 DEF FairInv, GrantIsFair
  <2> QED BY <1>0, <2>3, <2>4 DEF FairInv
<1> QED BY <1>5, <1>6, <1>7 DEF FabricClock

\* The arbitration invariant is inductive.
LEMMA FairInvInductive ==
  /\ CountedInit => FairInv
  /\ FairInv /\ [CountedNext]_countedVars => FairInv'
<1>0. REQUESTER_COUNT \in Nat \ {0} /\ 0 \in Ports
  BY FabricAssumption DEF Ports
<1> USE DEF FairInv, ArbitrationTypeOK, TurnsLeft, GrantIsFair, Requesting
<1>1. CountedInit => FairInv
  BY <1>0 DEF CountedInit, FabricInit
<1>2. ASSUME FairInv, RunningNext, CountOvertaking PROVE FairInv'
  <2>1. PICK external_ready \in BOOLEAN, external_valid \in BOOLEAN :
          Cycle(external_ready, external_valid)
    BY <1>2 DEF RunningNext
  <2>2. PICK issue \in Issues,
             external_fails \in IF fabric_state = "FABRIC_REQUEST" THEN BOOLEAN ELSE {FALSE} :
          FabricClock(issue, external_ready, external_valid, external_fails)
    BY <2>1 DEF Cycle
  <2> QED BY <1>2, <2>2, ClockKeepsFair
<1>3. ASSUME CountedReset PROVE FairInv'
  BY <1>0, <1>3 DEF CountedReset, FabricReset
<1>4. ASSUME FairInv, UNCHANGED countedVars PROVE FairInv'
  BY <1>4 DEF countedVars, fabricVars, ScanDistance
<1> QED BY <1>1, <1>2, <1>3, <1>4 DEF CountedNext

\* OvertakenBound of the specification, for every number of initiators: an
\* initiator is overtaken at most once by every other one.
THEOREM OvertakingBounded == CountedSpec => []OvertakenBound
<1>1. ASSUME FairInv PROVE OvertakenBound
  <2>1. ASSUME NEW p \in Ports PROVE overtaken[p] <= REQUESTER_COUNT - 1
    <3>0. REQUESTER_COUNT \in Nat \ {0} /\ overtaken[p] \in Nat
      BY <1>1, FabricAssumption DEF FairInv, ArbitrationTypeOK
    <3>1. CASE phase[p] = "request"
      <4>1. overtaken[p] + ScanDistance(p) <= REQUESTER_COUNT - 1
        BY <1>1, <3>1 DEF FairInv, TurnsLeft, Requesting
      <4>2. ScanDistance(p) = DistanceFrom(round_robin_owner, p)
        BY DEF ScanDistance, DistanceFrom
      <4>3. ScanDistance(p) \in 0 .. REQUESTER_COUNT - 1
        BY <1>1, <4>2, ScanDistances DEF FairInv, ArbitrationTypeOK
      <4> QED BY <3>0, <4>1, <4>3
    <3>2. CASE phase[p] # "request"
      BY <1>1, <3>0, <3>2 DEF FairInv, ArbitrationTypeOK
    <3> QED BY <3>1, <3>2
  <2> QED BY <2>1 DEF OvertakenBound
<1> QED BY <1>1, FairInvInductive, PTL DEF CountedSpec

----------------------------------------------------------------------------
(* The atomic memory. *)

\* One transaction at a time: the registered request is the owner's, and only
\* the owner of an accepted request waits for a response.
OneTransaction ==
  /\ fabric_state \in {"FABRIC_IDLE", "FABRIC_REQUEST", "FABRIC_SPM_READ_WAIT",
                       "FABRIC_LOCAL_RESPONSE", "FABRIC_EXTERNAL_RESPONSE"}
  /\ transaction_owner \in Ports
  /\ phase \in [Ports -> {"idle", "request", "wait"}]
  /\ \A p \in Ports : phase[p] = "wait" => p = transaction_owner
  /\ phase[transaction_owner] = "wait"
       <=> fabric_state \in {"FABRIC_SPM_READ_WAIT", "FABRIC_LOCAL_RESPONSE",
                            "FABRIC_EXTERNAL_RESPONSE"}
  /\ fabric_state = "FABRIC_REQUEST" =>
       phase[transaction_owner] = "request" /\ request = asked[transaction_owner]
  /\ fabric_state = "FABRIC_SPM_READ_WAIT" => read_valid

\* What the ports hold, and the extent of the two memories.
PortsHold ==
  /\ asked = [p \in Ports |-> asked[p]]
  /\ got = [p \in Ports |-> got[p]]
  /\ \A p \in Ports : phase[p] = "request" => asked[p] \in Requests(p)
  /\ DOMAIN scratchpad = Bytes(Spm)
  /\ DOMAIN external = Bytes(Dram)

FabricInv == OneTransaction /\ PortsHold

\* A clock edge keeps the transaction single and its registers the owner's.
LEMMA ClockKeepsFabric ==
  ASSUME FabricInv, NEW issue \in Issues, NEW external_ready \in BOOLEAN,
         NEW external_valid \in BOOLEAN, NEW external_fails,
         FabricClock(issue, external_ready, external_valid, external_fails)
  PROVE  FabricInv'
<1> USE DEF FabricInv, OneTransaction
<1>0. PortStep(issue, external_ready, external_valid)
  BY DEF FabricClock
<1>1. /\ phase' \in [Ports -> {"idle", "request", "wait"}]
      /\ DOMAIN issue \subseteq Idle
      /\ \A p \in DOMAIN issue : issue[p] \in Requests(p)
      /\ \A p \in Ports :
           /\ phase[p] = "idle" =>
                phase'[p] = IF p \in DOMAIN issue THEN "request" ELSE "idle"
           /\ phase[p] = "request" =>
                phase'[p] = IF p = transaction_owner /\ RequestFire(external_ready)
                              THEN "wait" ELSE "request"
           /\ phase[p] = "wait" =>
                phase'[p] = IF p = transaction_owner /\ ResponseFire(external_valid)
                              THEN "idle" ELSE "wait"
  BY <1>0, PortsMove
<1>2. \A p \in Ports : phase[p] = "request" => asked'[p] = asked[p]
  BY <1>0, <1>1 DEF PortStep, Idle, ResponseFire
<1>3. /\ asked' = [p \in Ports |-> asked'[p]]
      /\ got' = [p \in Ports |-> got'[p]]
      /\ \A p \in Ports : phase'[p] = "request" => asked'[p] \in Requests(p)
  <2>1. /\ asked' = [p \in Ports |-> asked'[p]]
        /\ got' = [p \in Ports |-> got'[p]]
    BY <1>0 DEF PortStep
  <2>2. \A p \in DOMAIN issue : p \in Ports => asked'[p] = issue[p]
    BY <1>0 DEF PortStep
  <2>3. \A p \in Ports : phase'[p] = "request" => phase[p] = "request" \/ p \in DOMAIN issue
    BY <1>1
  <2> QED BY <1>1, <1>2, <2>1, <2>2, <2>3 DEF PortsHold
<1> USE DEF PortsHold
<1>4. CASE Arbitrate
  <2>1. ~RequestFire(external_ready) /\ ~ResponseFire(external_valid)
    BY <1>4 DEF Arbitrate, RequestFire, ResponseFire
  <2>2. CASE ArbitrationOwner = {}
    BY <1>1, <1>3, <1>4, <2>1, <2>2 DEF Arbitrate
  <2>3. CASE ArbitrationOwner # {}
    <3>1. PICK p \in ArbitrationOwner : /\ transaction_owner' = p
                                        /\ request' = asked[p]
                                        /\ fabric_state' = "FABRIC_REQUEST"
      BY <1>4, <2>3 DEF Arbitrate
    <3>2. p \in Ports /\ phase[p] = "request"
      BY DEF ArbitrationOwner, Requesting
    <3> QED BY <1>1, <1>2, <1>3, <1>4, <2>1, <3>1, <3>2 DEF Arbitrate
  <2> QED BY <2>2, <2>3
<1>5. CASE AwaitAcceptance(external_ready)
  <2>1. ~RequestFire(external_ready) /\ ~ResponseFire(external_valid)
    BY <1>5 DEF AwaitAcceptance, ResponseFire
  <2> QED BY <1>1, <1>2, <1>3, <1>5, <2>1 DEF AwaitAcceptance
<1>6. CASE Accept(external_ready, external_fails)
  <2>1. /\ RequestFire(external_ready) /\ ~ResponseFire(external_valid)
        /\ fabric_state = "FABRIC_REQUEST" /\ transaction_owner' = transaction_owner
    BY <1>6 DEF Accept, RequestFire, ResponseFire
  <2>2. /\ fabric_state' \in {"FABRIC_SPM_READ_WAIT", "FABRIC_LOCAL_RESPONSE",
                              "FABRIC_EXTERNAL_RESPONSE"}
        /\ fabric_state' = "FABRIC_SPM_READ_WAIT" => read_valid'
        /\ DOMAIN scratchpad' = DOMAIN scratchpad /\ DOMAIN external' = DOMAIN external
    BY <1>6 DEF Accept, RefuseIllegal, WriteScratchpad, ReadScratchpad, AccessExternal, Store
  <2> QED BY <1>1, <1>3, <2>1, <2>2
<1>7. CASE ScratchpadRead
  <2>1. ~RequestFire(external_ready) /\ ~ResponseFire(external_valid)
    BY <1>7 DEF ScratchpadRead, RequestFire, ResponseFire, Response
  <2> QED BY <1>1, <1>3, <1>7, <2>1 DEF ScratchpadRead
<1>8. CASE Respond(external_valid)
  <2>1. ~RequestFire(external_ready)
    BY <1>8 DEF Respond, RequestFire
  <2> QED BY <1>1, <1>3, <1>8, <2>1 DEF Respond
<1> QED BY <1>4, <1>5, <1>6, <1>7, <1>8 DEF FabricClock

\* A word that is in a region by its first and last byte is in it whole.
LEMMA WordInRegion ==
  ASSUME NEW r \in {Spm, Dram}, NEW address \in Nat, InRegion(address, r)
  PROVE  \A l \in Lanes : address + l \in Bytes(r)
<1>1. /\ FABRIC_DATA_BYTES \in Nat \ {0} /\ r.base \in Nat /\ r.size \in Nat
      /\ address \in r.base .. r.base + r.size - 1
      /\ address + FABRIC_DATA_BYTES - 1 \in r.base .. r.base + r.size - 1
  BY FabricAssumption DEF InRegion, Bytes
<1> QED BY <1>1 DEF Lanes, Bytes

\* Memory of the atomic specification, byte by byte.
LEMMA MemoryBytes ==
  /\ DOMAIN Memory = Bytes(Spm) \cup Bytes(Dram)
  /\ \A a \in Bytes(Spm) : Memory[a] = scratchpad[a]
  /\ \A a \in Bytes(Dram) : Memory[a] = external[a]
<1>1. Bytes(Spm) \cap Bytes(Dram) = {}
  BY FabricAssumption
<1> QED BY <1>1 DEF Memory

\* A write to either memory updates the one memory in the enabled lanes only.
LEMMA WriteUpdates ==
  ASSUME PortsHold, NEW q, q.address \in Nat, q.strb \subseteq Lanes,
         \/ /\ InRegion(q.address, Spm)
            /\ scratchpad' = Store(scratchpad, q) /\ external' = external
         \/ /\ InRegion(q.address, Dram)
            /\ external' = Store(external, q) /\ scratchpad' = scratchpad
  PROVE  Memory' = Atomic!Updated(q)
<1> DEFINE new(a) == IF a - q.address \in q.strb THEN q.data[a - q.address] ELSE Memory[a]
<1>1. /\ Bytes(Spm) \cap Bytes(Dram) = {}
      /\ DOMAIN scratchpad = Bytes(Spm) /\ DOMAIN external = Bytes(Dram)
      /\ \A r \in {Spm, Dram} : \A a \in Bytes(r) : a \in Int
  BY FabricAssumption DEF PortsHold, Bytes
<1>2. Memory' = [a \in Bytes(Spm) \cup Bytes(Dram) |->
                   IF a \in Bytes(Spm) THEN scratchpad'[a] ELSE external'[a]]
  BY DEF Memory
<1>3. ASSUME NEW a \in Bytes(Spm) \cup Bytes(Dram)
      PROVE  (IF a \in Bytes(Spm) THEN scratchpad'[a] ELSE external'[a]) = new(a)
  <2>1. ASSUME NEW r \in {Spm, Dram}, InRegion(q.address, r), a - q.address \in q.strb
        PROVE  a \in Bytes(r)
    <3>1. a - q.address \in Lanes /\ a \in Int
      BY <1>1, <2>1
    <3>2. q.address + (a - q.address) \in Bytes(r)
      BY <2>1, <3>1, WordInRegion
    <3>3. q.address + (a - q.address) = a
      BY <3>1
    <3> QED BY <3>2, <3>3
  <2>2. CASE InRegion(q.address, Spm) /\ scratchpad' = Store(scratchpad, q)
             /\ external' = external
    BY <1>1, <2>1, <2>2, MemoryBytes DEF Store
  <2>3. CASE InRegion(q.address, Dram) /\ external' = Store(external, q)
             /\ scratchpad' = scratchpad
    BY <1>1, <2>1, <2>3, MemoryBytes DEF Store
  <2> QED BY <2>2, <2>3
<1>4. Atomic!Updated(q) = [a \in Bytes(Spm) \cup Bytes(Dram) |-> new(a)]
  BY MemoryBytes DEF Atomic!Updated
<1> HIDE DEF new
<1> QED BY <1>2, <1>3, <1>4

\* The word either memory returns is the word of the one memory.
LEMMA ReadReturns ==
  ASSUME NEW address \in Nat
  PROVE  /\ InRegion(address, Spm) => Word(scratchpad, address) = Atomic!Value(address)
         /\ InRegion(address, Dram) => Word(external, address) = Atomic!Value(address)
<1>1. ASSUME InRegion(address, Spm)
      PROVE  Word(scratchpad, address) = Atomic!Value(address)
  <2>1. \A l \in Lanes : Memory[address + l] = scratchpad[address + l]
    BY <1>1, WordInRegion, MemoryBytes
  <2> QED BY <2>1 DEF Word, Atomic!Value
<1>2. ASSUME InRegion(address, Dram)
      PROVE  Word(external, address) = Atomic!Value(address)
  <2>1. \A l \in Lanes : Memory[address + l] = external[address + l]
    BY <1>2, WordInRegion, MemoryBytes
  <2> QED BY <2>1 DEF Word, Atomic!Value
<1> QED BY <1>1, <1>2

\* What a clock edge shows at the ports that neither its acceptance nor its
\* response concerns, and at the owner whose response is taken.
LEMMA PortsSimulate ==
  ASSUME FabricInv, NEW issue \in Issues, NEW external_ready \in BOOLEAN,
         NEW external_valid \in BOOLEAN,
         PortStep(issue, external_ready, external_valid)
  PROVE  /\ \A p \in DOMAIN issue : Atomic!Ask(p)
         /\ \A p \in Ports \ DOMAIN issue :
              /\ ~(p = transaction_owner /\ RequestFire(external_ready))
              /\ ~(p = transaction_owner /\ ResponseFire(external_valid))
              /\ phase[p] = "wait" => Owed' = Owed
              => Atomic!Rest(p)
         /\ \A p \in Ports : p = transaction_owner /\ ResponseFire(external_valid)
              => Atomic!Receive(p)
<1>1. /\ DOMAIN issue \subseteq Idle
      /\ \A p \in DOMAIN issue : issue[p] \in Requests(p)
      /\ \A p \in Ports :
           /\ phase[p] = "idle" =>
                phase'[p] = IF p \in DOMAIN issue THEN "request" ELSE "idle"
           /\ phase[p] = "request" =>
                phase'[p] = IF p = transaction_owner /\ RequestFire(external_ready)
                              THEN "wait" ELSE "request"
           /\ phase[p] = "wait" =>
                phase'[p] = IF p = transaction_owner /\ ResponseFire(external_valid)
                              THEN "idle" ELSE "wait"
  BY PortsMove DEF FabricInv, OneTransaction
<1>2. /\ transaction_owner \in Ports
      /\ phase \in [Ports -> {"idle", "request", "wait"}]
  BY DEF FabricInv, OneTransaction
<1>3. \A p \in Ports :
        /\ asked'[p] = IF p \in DOMAIN issue THEN issue[p]
                       ELSE IF p = transaction_owner /\ ResponseFire(external_valid)
                         THEN NoResponse ELSE asked[p]
        /\ got'[p] = IF p \in DOMAIN issue THEN NoResponse
                     ELSE IF p = transaction_owner /\ ResponseFire(external_valid)
                       THEN Response(external_valid) ELSE got[p]
  BY DEF PortStep
<1>4. ASSUME NEW p \in DOMAIN issue PROVE Atomic!Ask(p)
  <2>1. p \in Ports /\ phase[p] = "idle"
    BY <1>1 DEF Idle
  <2>2. phase'[p] = "request" /\ asked'[p] \in Requests(p) /\ got'[p] = NoResponse
    BY <1>1, <1>3, <2>1
  <2> QED BY <2>1, <2>2 DEF Atomic!Ask
<1>5. ASSUME NEW p \in Ports \ DOMAIN issue,
             ~(p = transaction_owner /\ RequestFire(external_ready)),
             ~(p = transaction_owner /\ ResponseFire(external_valid)),
             phase[p] = "wait" => Owed' = Owed
      PROVE  Atomic!Rest(p)
  <2>1. phase'[p] = phase[p] /\ asked'[p] = asked[p] /\ got'[p] = got[p]
    BY <1>1, <1>2, <1>3, <1>5
  <2>2. CASE phase[p] = "wait"
    <3>1. Owed' = Owed
      BY <1>5, <2>2
    <3> HIDE DEF Owed
    <3> QED BY <2>1, <2>2, <3>1 DEF Atomic!Rest
  <2>3. CASE phase[p] # "wait"
    <3> HIDE DEF Owed
    <3> QED BY <1>2, <2>1, <2>3 DEF Atomic!Rest
  <2> QED BY <2>2, <2>3
<1>6. ASSUME NEW p \in Ports, p = transaction_owner, ResponseFire(external_valid)
      PROVE  Atomic!Receive(p)
  <2>1. /\ phase[p] = "wait" /\ p \notin DOMAIN issue
        /\ Response(external_valid) # NoResponse
    BY <1>1, <1>6 DEF ResponseFire, Idle
  <2>2. /\ phase'[p] = "idle" /\ asked'[p] = NoResponse
        /\ got'[p] = Response(external_valid)
    BY <1>1, <1>3, <1>6, <2>1
  <2>3. Response(external_valid) = Owed
    BY <2>1 DEF Response, Owed
  <2> HIDE DEF Owed, Response
  <2> QED BY <2>1, <2>2, <2>3 DEF Atomic!Receive
<1> QED BY <1>4, <1>5, <1>6

\* An accepted request is served: memory answers it or refuses it.
LEMMA AcceptServes ==
  ASSUME FabricInv, NEW issue \in Issues, NEW external_ready \in BOOLEAN,
         NEW external_valid \in BOOLEAN, NEW external_fails \in BOOLEAN,
         Accept(external_ready, external_fails),
         PortStep(issue, external_ready, external_valid),
         NEW o \in Ports, o = transaction_owner
  PROVE  Atomic!Serve(o)
<1>1. /\ RequestFire(external_ready) /\ fabric_state = "FABRIC_REQUEST"
      /\ phase[o] = "request" /\ request = asked[o]
      /\ asked[o] \in Requests(o)
      /\ DOMAIN scratchpad = Bytes(Spm) /\ DOMAIN external = Bytes(Dram)
      /\ ~ResponseFire(external_valid)
  BY DEF Accept, RequestFire, ResponseFire, FabricInv, OneTransaction, PortsHold
<1>2. request.write \in BOOLEAN /\ request.address \in Nat /\ request.strb \subseteq Lanes
  BY <1>1, FabricAssumption
<1>3. phase'[o] = "wait" /\ asked'[o] = asked[o] /\ got'[o] = got[o]
  <2>1. o \notin DOMAIN issue /\ phase'[o] = "wait"
    BY <1>1, PortsMove DEF FabricInv, OneTransaction, Idle
  <2> QED BY <1>1, <2>1 DEF PortStep
<1>4. InRegion(request.address, Spm) \/ InRegion(request.address, Dram)
        => Atomic!InMemory(request)
  BY <1>2, WordInRegion, MemoryBytes DEF Atomic!InMemory
<1> DEFINE served == /\ Owed'.error \/ Atomic!InMemory(request)
                     /\ ~Owed'.error /\ ~request.write =>
                          Owed'.data = Atomic!Value(request.address)
                     /\ Memory' = IF request.write /\ ~Owed'.error
                                    THEN Atomic!Updated(request) ELSE Memory
<1>5. served
  <2>1. CASE RefuseIllegal
    <3>1. Owed'.error = TRUE
      BY <2>1 DEF RefuseIllegal, Owed
    <3>2. Memory' = Memory
      BY <2>1 DEF RefuseIllegal, Memory
    <3> HIDE DEF Owed
    <3> QED BY <3>1, <3>2
  <2>2. CASE WriteScratchpad
    <3>1. Owed'.error = FALSE /\ request.write
      BY <2>2 DEF WriteScratchpad, Owed
    <3>2. InRegion(request.address, Spm) /\ scratchpad' = Store(scratchpad, request)
          /\ external' = external
      BY <2>2 DEF WriteScratchpad, transaction_is_spm
    <3>3. Memory' = Atomic!Updated(request)
      BY <1>2, <3>2, WriteUpdates DEF FabricInv
    <3> HIDE DEF Owed, Memory
    <3> QED BY <1>4, <3>1, <3>2, <3>3
  <2>3. CASE ReadScratchpad
    <3>1. Owed' = [data |-> Word(scratchpad, request.address), error |-> FALSE]
      BY <2>3 DEF ReadScratchpad, Owed
    <3>2. InRegion(request.address, Spm) /\ ~request.write
      BY <2>3 DEF ReadScratchpad, transaction_is_spm
    <3>3. Word(scratchpad, request.address) = Atomic!Value(request.address)
      BY <1>2, <3>2, ReadReturns
    <3>4. Memory' = Memory
      BY <2>3 DEF ReadScratchpad, Memory
    <3> HIDE DEF Owed, Memory
    <3> QED BY <1>4, <3>1, <3>2, <3>3, <3>4
  <2>4. CASE AccessExternal(external_fails)
    <3>1. Owed' = [data |-> IF request.write \/ external_fails THEN Zero
                            ELSE Word(external, request.address),
                   error |-> external_fails]
      BY <2>4 DEF AccessExternal, Owed
    <3>2. InRegion(request.address, Dram) /\ scratchpad' = scratchpad
          /\ external' = IF request.write /\ ~external_fails
                            THEN Store(external, request) ELSE external
      BY <2>4 DEF AccessExternal, transaction_is_dram
    <3>3. Word(external, request.address) = Atomic!Value(request.address)
      BY <1>2, <3>2, ReadReturns
    <3>4. CASE request.write /\ ~external_fails
      <4>1. Memory' = Atomic!Updated(request)
        BY <1>2, <3>2, <3>4, WriteUpdates DEF FabricInv
      <4> HIDE DEF Owed, Memory
      <4> QED BY <1>4, <3>1, <3>2, <3>4, <4>1
    <3>5. CASE ~(request.write /\ ~external_fails)
      <4>1. Memory' = Memory
        BY <3>2, <3>5 DEF Memory
      <4> HIDE DEF Owed, Memory
      <4> QED BY <1>4, <3>1, <3>2, <3>3, <3>5, <4>1
    <3> QED BY <3>4, <3>5
  <2> QED BY <2>1, <2>2, <2>3, <2>4 DEF Accept
<1>6. QED
  <2> HIDE DEF Owed, Memory
  <2> QED BY <1>1, <1>3, <1>5 DEF Atomic!Serve

\* Every clock edge is one step of the atomic memory.
LEMMA ClockSimulates ==
  ASSUME FabricInv, NEW issue \in Issues, NEW external_ready \in BOOLEAN,
         NEW external_valid \in BOOLEAN, NEW external_fails \in BOOLEAN,
         FabricClock(issue, external_ready, external_valid, external_fails)
  PROVE  Atomic!Step
<1>0. /\ PortStep(issue, external_ready, external_valid)
      /\ transaction_owner \in Ports
  BY DEF FabricClock, FabricInv, OneTransaction
<1>1. /\ \A p \in DOMAIN issue : Atomic!Ask(p)
      /\ \A p \in Ports \ DOMAIN issue :
           /\ ~(p = transaction_owner /\ RequestFire(external_ready))
           /\ ~(p = transaction_owner /\ ResponseFire(external_valid))
           /\ phase[p] = "wait" => Owed' = Owed
           => Atomic!Rest(p)
      /\ \A p \in Ports : p = transaction_owner /\ ResponseFire(external_valid)
           => Atomic!Receive(p)
  BY <1>0, PortsSimulate
<1>2. \A p \in Ports : phase[p] = "wait" => p = transaction_owner
  BY DEF FabricInv, OneTransaction
<1>3. \A p \in Ports : Atomic!Serve(p) => p = transaction_owner /\ RequestFire(external_ready)
  <2>1. \A p \in Ports : Atomic!Serve(p) => phase[p] = "request" /\ phase'[p] = "wait"
    <3>1. phase \in [Ports -> {"idle", "request", "wait"}]
          /\ phase' \in [Ports -> {"idle", "request", "wait"}]
      BY <1>0, PortsMove DEF FabricInv, OneTransaction
    <3> QED BY <3>1 DEF Atomic!Serve
  <2> QED BY <1>0, <2>1, PortsMove DEF FabricInv, OneTransaction
<1>4. \A p, q \in Ports : Atomic!Serve(p) /\ Atomic!Serve(q) => p = q
  BY <1>3
<1>5. CASE Accept(external_ready, external_fails)
  <2>1. \A p \in Ports : p = transaction_owner => Atomic!Serve(p)
    BY <1>0, <1>5, AcceptServes
  <2>2. /\ ~ResponseFire(external_valid)
        /\ \A p \in Ports : phase[p] # "wait"
    BY <1>5 DEF Accept, RequestFire, ResponseFire, FabricInv, OneTransaction
  <2>3. \A p \in Ports : Atomic!Ask(p) \/ Atomic!Serve(p) \/ Atomic!Rest(p)
    BY <1>1, <2>1, <2>2
  <2> QED BY <1>0, <1>4, <2>1, <2>3 DEF Atomic!Step
<1>6. ASSUME ~RequestFire(external_ready), Memory' = Memory,
             ResponseFire(external_valid) \/ Owed' = Owed
      PROVE  Atomic!Step
  <2>1. \A p \in Ports : Atomic!Ask(p) \/ Atomic!Receive(p) \/ Atomic!Rest(p)
    BY <1>1, <1>2, <1>6
  <2> HIDE DEF Memory
  <2> QED BY <1>4, <1>6, <2>1 DEF Atomic!Step
<1>7. CASE Arbitrate
  <2>1. /\ ~RequestFire(external_ready) /\ Memory' = Memory
        /\ Owed' = NoResponse /\ Owed = NoResponse
    BY <1>7 DEF Arbitrate, RequestFire, Memory, Owed
  <2> HIDE DEF Memory, Owed
  <2> QED BY <1>6, <2>1
<1>8. CASE AwaitAcceptance(external_ready)
  <2>1. ~RequestFire(external_ready) /\ Memory' = Memory /\ Owed' = Owed
    BY <1>8 DEF AwaitAcceptance, Memory, Owed
  <2> HIDE DEF Memory, Owed
  <2> QED BY <1>6, <2>1
<1>9. CASE ScratchpadRead
  <2>1. read_valid
    BY <1>9 DEF ScratchpadRead, FabricInv, OneTransaction
  <2>2. ~RequestFire(external_ready) /\ Memory' = Memory /\ Owed' = Owed
    BY <1>9, <2>1 DEF ScratchpadRead, RequestFire, Memory, Owed
  <2> HIDE DEF Memory, Owed
  <2> QED BY <1>6, <2>2
<1>10. CASE Respond(external_valid)
  <2>1. ~RequestFire(external_ready) /\ Memory' = Memory
    BY <1>10 DEF Respond, RequestFire, Memory
  <2>2. ~ResponseFire(external_valid) => Owed' = Owed
    BY <1>10 DEF Respond, Owed
  <2> HIDE DEF Memory, Owed
  <2> QED BY <1>6, <2>1, <2>2
<1> QED BY <1>5, <1>7, <1>8, <1>9, <1>10 DEF FabricClock

\* The transaction invariant is inductive.
LEMMA FabricInvInductive ==
  /\ CountedInit => FabricInv
  /\ FabricInv /\ [CountedNext]_countedVars => FabricInv'
<1>0. 0 \in Ports
  BY FabricAssumption DEF Ports
<1>1. CountedInit => FabricInv
  BY <1>0 DEF CountedInit, FabricInit, FabricInv, OneTransaction, PortsHold
<1>2. ASSUME FabricInv, RunningNext PROVE FabricInv'
  BY <1>2, ClockKeepsFabric DEF RunningNext, Cycle
<1>3. ASSUME FabricInv, CountedReset PROVE FabricInv'
  BY <1>0, <1>3 DEF CountedReset, FabricReset, FabricInv, OneTransaction, PortsHold
<1>4. ASSUME FabricInv, UNCHANGED countedVars PROVE FabricInv'
  BY <1>4 DEF countedVars, fabricVars, FabricInv, OneTransaction, PortsHold
<1> QED BY <1>1, <1>2, <1>3, <1>4 DEF CountedNext

\* ImplementsSharedMemory of the specification: every behaviour of the fabric,
\* with any number of initiators, is one of an atomic word memory.
THEOREM FabricImplementsSharedMemory == CountedSpec => ImplementsSharedMemory
<1>1. ASSUME CountedInit PROVE Atomic!SharedInit
  <2>1. \A a \in DOMAIN Memory : Memory[a] = 0
    BY <1>1, MemoryBytes DEF CountedInit, FabricInit
  <2> HIDE DEF Memory
  <2> QED BY <1>1, <2>1 DEF CountedInit, FabricInit, Atomic!SharedInit
<1>2. ASSUME FabricInv, [CountedNext]_countedVars
      PROVE  [Atomic!Step \/ Atomic!Forget]_Atomic!sharedVars
  <2>1. CASE RunningNext
    <3>1. PICK external_ready \in BOOLEAN, external_valid \in BOOLEAN, issue \in Issues,
               external_fails \in BOOLEAN :
            FabricClock(issue, external_ready, external_valid, external_fails)
      BY <2>1 DEF RunningNext, Cycle
    <3> QED BY <1>2, <3>1, ClockSimulates
  <2>2. CASE CountedReset
    <3>1. Memory' = Memory
      BY <2>2 DEF CountedReset, FabricReset, Memory
    <3> HIDE DEF Memory, Owed
    <3>2. Atomic!Forget
      BY <2>2, <3>1 DEF CountedReset, FabricReset, Atomic!Forget
    <3> QED BY <3>2
  <2>3. CASE UNCHANGED countedVars
    <3>1. Memory' = Memory /\ Owed' = Owed
      BY <2>3 DEF countedVars, fabricVars, Memory, Owed
    <3> HIDE DEF Memory, Owed
    <3> QED BY <2>3, <3>1 DEF countedVars, fabricVars, Atomic!sharedVars
  <2> QED BY <1>2, <2>1, <2>2, <2>3 DEF CountedNext
<1> QED BY <1>1, <1>2, FabricInvInductive, PTL
        DEF CountedSpec, ImplementsSharedMemory, Atomic!SharedSpec
=============================================================================
