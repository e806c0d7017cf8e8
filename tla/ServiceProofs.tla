--------------------------- MODULE ServiceProofs ----------------------------
(***************************************************************************)
(* Proofs about the services beside the engine and the ledger, one part    *)
(* after the other, and then of the parts side by side, as MCServices runs *)
(* them.  The parts share no variable.                                     *)
(***************************************************************************)
EXTENDS MCServices, SumTheorems, SequenceTheorems

-----------------------------------------------------------------------------
(***************************************************************************)
(* Proofs about CircuitBreaker.  ClosedBelowThreshold is inductive with    *)
(* the types: the call that counts the failure at the threshold keeps that *)
(* count until it has the lock, whatever others do, and then opens the     *)
(* breaker if it is still closed.                                          *)
(***************************************************************************)

CbInv == CbTypeOK /\ ClosedBelowThreshold

\* The breaker starts closed, with no failure counted.
LEMMA CbInvInit == CbInit => CbInv
  BY BreakerAssumption DEF CbInit, CbInv, CbTypeOK, ClosedBelowThreshold, AtRest

\* Every step keeps the types.
LEMMA CbTypeNext == CbTypeOK /\ [CbNext]_cbVars => CbTypeOK'
  <1>. SUFFICES ASSUME CbTypeOK, [CbNext]_cbVars PROVE CbTypeOK'
    OBVIOUS
  <1>. USE BreakerAssumption DEF CbTypeOK, CbGoto
  <1>1. CASE ResetBreaker
    BY <1>1 DEF ResetBreaker
  <1>2. ASSUME NEW c \in Callers, AllowCall(c) PROVE CbTypeOK'
    BY <1>2 DEF AllowCall
  <1>3. ASSUME NEW c \in Callers, RecordSuccess(c) PROVE CbTypeOK'
    BY <1>3 DEF RecordSuccess, FailuresCleared
  <1>4. ASSUME NEW c \in Callers, CountFailure(c) PROVE CbTypeOK'
    BY <1>4 DEF CountFailure
  <1>5. ASSUME NEW c \in Callers, RecordFailure(c) PROVE CbTypeOK'
    BY <1>5 DEF RecordFailure
  <1>6. CASE UNCHANGED cbVars
    BY <1>6 DEF cbVars
  <1>. QED
    BY <1>1, <1>2, <1>3, <1>4, <1>5, <1>6 DEF CbNext

\* A closed breaker whose count is at the threshold has a caller on its way to open it.
LEMMA CbClosedNext == CbInv /\ [CbNext]_cbVars => ClosedBelowThreshold'
  <1>. SUFFICES ASSUME CbTypeOK, ClosedBelowThreshold, [CbNext]_cbVars,
                       breaker' = "closed", failures' >= Threshold
                PROVE  \E c \in Callers : caller'[c].pc = "counted" /\ caller'[c].count >= Threshold
    BY DEF CbInv, ClosedBelowThreshold
  <1>. USE BreakerAssumption DEF CbTypeOK, CbGoto
  <1>1. CASE ResetBreaker
    BY <1>1 DEF ResetBreaker
  <1>2. ASSUME NEW c \in Callers, AllowCall(c)
        PROVE  \E d \in Callers : caller'[d].pc = "counted" /\ caller'[d].count >= Threshold
    <2>1. breaker = "closed" /\ failures >= Threshold
      BY <1>2 DEF AllowCall
    <2>2. PICK d \in Callers : caller[d].pc = "counted" /\ caller[d].count >= Threshold
      BY <2>1 DEF ClosedBelowThreshold
    <2>3. caller'[d] = caller[d]
      BY <1>2, <2>2 DEF AllowCall
    <2>. QED
      BY <2>2, <2>3
  <1>3. ASSUME NEW c \in Callers, RecordSuccess(c)
        PROVE  \E d \in Callers : caller'[d].pc = "counted" /\ caller'[d].count >= Threshold
    <2>1. breaker = "closed" /\ failures >= Threshold
      BY <1>3 DEF RecordSuccess, FailuresCleared
    <2>2. PICK d \in Callers : caller[d].pc = "counted" /\ caller[d].count >= Threshold
      BY <2>1 DEF ClosedBelowThreshold
    <2>3. caller'[d] = caller[d]
      BY <1>3, <2>2 DEF RecordSuccess
    <2>. QED
      BY <2>2, <2>3
  <1>4. ASSUME NEW c \in Callers, CountFailure(c)
        PROVE  caller'[c].pc = "counted" /\ caller'[c].count >= Threshold
    BY <1>4 DEF CountFailure
  <1>5. ASSUME NEW c \in Callers, RecordFailure(c)
        PROVE  \E d \in Callers : caller'[d].pc = "counted" /\ caller'[d].count >= Threshold
    <2>1. breaker = "closed" /\ failures >= Threshold /\ ~(caller[c].count >= Threshold)
      BY <1>5 DEF RecordFailure
    <2>2. PICK d \in Callers : caller[d].pc = "counted" /\ caller[d].count >= Threshold
      BY <2>1 DEF ClosedBelowThreshold
    <2>3. caller'[d] = caller[d]
      BY <1>5, <2>1, <2>2 DEF RecordFailure
    <2>. QED
      BY <2>2, <2>3
  <1>6. CASE UNCHANGED cbVars
    BY <1>6 DEF cbVars, ClosedBelowThreshold
  <1>. QED
    BY <1>1, <1>2, <1>3, <1>4, <1>5, <1>6 DEF CbNext

-----------------------------------------------------------------------------
\* The breaker does not stay closed over a service that keeps failing, for every
\* number of callers and every threshold.
THEOREM OpensAtThreshold == CbSpec => []ClosedBelowThreshold
  <1>1. CbInv /\ [CbNext]_cbVars => CbInv'
    BY CbTypeNext, CbClosedNext DEF CbInv
  <1>2. CbInv => ClosedBelowThreshold
    BY DEF CbInv
  <1>. QED
    BY CbInvInit, <1>1, <1>2, PTL DEF CbSpec

-----------------------------------------------------------------------------
(***************************************************************************)
(* Proofs about MarketLifecycle.  A request in flight is one that the      *)
(* status it read allowed (SeenAllows), so that one that is not stale     *)
(* writes only what the status the market has now allows; and none of that *)
(* changes a settled market or revives a cancelled one.                    *)
(***************************************************************************)

SeenAllows == \A r \in MkRequests : request[r].pc # "idle" => May(request[r].op, request[r].seen)

MkInv == MkTypeOK /\ SeenAllows

MkInFlight == [pc : {"idle", "positions", "write"}, op : Ops, seen : MkStatuses, m : Markets,
             outcome : MkOutcomes]

\* The request of nobody is one, and idle.
LEMMA NoRequestTyped == NoRequest \in MkInFlight /\ NoRequest.pc = "idle"
  <1>1. (CHOOSE m \in Markets : TRUE) \in Markets
    BY MarketAssumption
  <1>. QED
    BY <1>1 DEF NoRequest, MkInFlight, Ops, MkStatuses, MkOutcomes

\* No request is under way at the start.
LEMMA MkInvInit == MkInit => MkInv
  <1>. SUFFICES ASSUME MkInit PROVE MkInv
    OBVIOUS
  <1>1. market \in [Markets -> [status : MkStatuses, outcome : MkOutcomes, due : BOOLEAN]]
    BY DEF MkInit, Absent, MkStatuses, MkOutcomes
  <1>2. net \in [Markets -> [Traders -> -MkMaxNet .. MkMaxNet]] /\ sent \in 0 .. MkMaxRequests
    BY MarketAssumption DEF MkInit
  <1>3. request \in [MkRequests -> MkInFlight] /\ \A r \in MkRequests : request[r].pc = "idle"
    BY NoRequestTyped DEF MkInit
  <1>. QED
    BY <1>1, <1>2, <1>3 DEF MkInv, MkTypeOK, MkInFlight, SeenAllows

\* A step in which at most request r moves, to q.
LEMMA MkInvRequest ==
    ASSUME MkInv, NEW r \in MkRequests, NEW q \in MkInFlight,
           request' = [request EXCEPT ![r] = q], q.pc # "idle" => May(q.op, q.seen),
           market' \in [Markets -> [status : MkStatuses, outcome : MkOutcomes, due : BOOLEAN]],
           net' = net, sent' \in 0 .. MkMaxRequests
    PROVE  MkInv'
  <1>1. request' \in [MkRequests -> MkInFlight]
    BY DEF MkInv, MkTypeOK, MkInFlight
  <1>2. SeenAllows'
    BY DEF MkInv, MkTypeOK, SeenAllows, May
  <1>. QED
    BY <1>1, <1>2 DEF MkInv, MkTypeOK, MkInFlight

\* A request goes on past its check only if the status it saw allows its operation.
LEMMA MkInvNext == MkInv /\ [MkNext]_mkVars => MkInv'
  <1>. SUFFICES ASSUME MkInv, [MkNext]_mkVars PROVE MkInv'
    OBVIOUS
  <1>0. /\ market \in [Markets -> [status : MkStatuses, outcome : MkOutcomes, due : BOOLEAN]]
        /\ net \in [Markets -> [Traders -> -MkMaxNet .. MkMaxNet]]
        /\ request \in [MkRequests -> MkInFlight] /\ sent \in 0 .. MkMaxRequests
    BY DEF MkInv, MkTypeOK, MkInFlight
  <1>1. ASSUME NEW m \in Markets, ComeDue(m) PROVE MkInv'
    <2>1. market' \in [Markets -> [status : MkStatuses, outcome : MkOutcomes, due : BOOLEAN]]
      BY <1>0, <1>1, Zenon DEF ComeDue
    <2>. QED
      BY <1>1, <2>1 DEF ComeDue, MkInv, MkTypeOK, SeenAllows
  <1>2. ASSUME NEW m \in Markets, NEW due \in BOOLEAN, CreateMarket(m, due) PROVE MkInv'
    <2>1. [status |-> "open", outcome |-> "none", due |-> due]
             \in [status : MkStatuses, outcome : MkOutcomes, due : BOOLEAN]
      BY Zenon DEF MkStatuses, MkOutcomes
    <2>2. market' \in [Markets -> [status : MkStatuses, outcome : MkOutcomes, due : BOOLEAN]]
      BY <1>0, <1>2, <2>1, Zenon DEF CreateMarket
    <2>. QED
      BY <1>2, <2>2 DEF CreateMarket, MkInv, MkTypeOK, SeenAllows
  <1>3. ASSUME NEW m \in Markets, NEW buyer \in Traders, NEW seller \in Traders,
               MoveNet(m, buyer, seller)
        PROVE  MkInv'
    <2>1. net[m] \in [Traders -> -MkMaxNet .. MkMaxNet]
      BY <1>0
    <2>2. [net[m] EXCEPT ![buyer] = @ + 1, ![seller] = @ - 1] \in [Traders -> -MkMaxNet .. MkMaxNet]
      BY <1>3, <2>1, MarketAssumption DEF MoveNet
    <2>3. net' = [net EXCEPT ![m] = [net[m] EXCEPT ![buyer] = @ + 1, ![seller] = @ - 1]]
      BY <1>0, <1>3, <2>1 DEF MoveNet
    <2>4. net' \in [Markets -> [Traders -> -MkMaxNet .. MkMaxNet]]
      BY <1>0, <2>2, <2>3
    <2>. QED
      BY <1>3, <2>4 DEF MoveNet, MkInv, MkTypeOK, SeenAllows
  <1>4. ASSUME NEW r \in MkRequests, NEW op \in Ops, NEW m \in Markets, NEW outcome \in MkOutcomes,
               ReadMarket(r, op, m, outcome)
        PROVE  MkInv'
    <2>. DEFINE q == [pc |-> IF op = "settle" THEN "positions" ELSE "write",
                      op |-> op, seen |-> market[m].status, m |-> m, outcome |-> outcome]
    <2>1. q \in MkInFlight
      BY <1>0 DEF MkInFlight
    <2>2. sent' \in 0 .. MkMaxRequests /\ UNCHANGED <<market, net>>
      BY <1>0, <1>4, MarketAssumption DEF ReadMarket
    <2>3. CASE request' = [request EXCEPT ![r] = q] /\ May(op, market[m].status)
      BY <1>0, <2>1, <2>2, <2>3, MkInvRequest
    <2>4. CASE request' = request
      BY <2>2, <2>4 DEF MkInv, MkTypeOK, SeenAllows
    <2>. QED
      BY <1>4, <2>3, <2>4 DEF ReadMarket
  <1>5. ASSUME NEW r \in MkRequests, ReadPositions(r) PROVE MkInv'
    <2>1. UNCHANGED <<market, net, sent>>
      BY <1>5 DEF ReadPositions
    <2>2. CASE request' = [request EXCEPT ![r].pc = "write"]
      <3>. DEFINE q == [request[r] EXCEPT !.pc = "write"]
      <3>1. q \in MkInFlight /\ q.op = request[r].op /\ q.seen = request[r].seen
        BY <1>0 DEF MkInFlight
      <3>2. May(q.op, q.seen)
        BY <1>5, <3>1 DEF ReadPositions, MkInv, SeenAllows
      <3>3. request' = [request EXCEPT ![r] = q]
        BY <1>0, <2>2
      <3>. QED
        BY <1>0, <2>1, <3>1, <3>2, <3>3, MkInvRequest
    <2>3. CASE MkReturn(r)
      BY <1>0, <2>1, <2>3, NoRequestTyped, MkInvRequest DEF MkReturn
    <2>. QED
      BY <1>5, <2>2, <2>3 DEF ReadPositions
  <1>6. ASSUME NEW r \in MkRequests, WriteMarket(r) PROVE MkInv'
    <2>. DEFINE q == request[r]
                status == NewMkStatus(q.op)
                outcome == IF q.op = "settle" THEN q.outcome ELSE market[q.m].outcome
    <2>1. q \in MkInFlight /\ q.m \in Markets /\ q.op \in Ops /\ q.outcome \in MkOutcomes
      BY <1>0 DEF MkInFlight
    <2>2. status \in MkStatuses /\ outcome \in MkOutcomes
      BY <1>0, <2>1 DEF NewMkStatus, MkStatuses, Ops
    <2>3. market' = [market EXCEPT ![q.m].status = status, ![q.m].outcome = outcome]
      BY <1>0, <1>6, <2>1 DEF WriteMarket
    <2>4. market' \in [Markets -> [status : MkStatuses, outcome : MkOutcomes, due : BOOLEAN]]
      BY <1>0, <2>1, <2>2, <2>3
    <2>5. MkReturn(r) /\ UNCHANGED <<net, sent>>
      BY <1>6 DEF WriteMarket
    <2>. QED
      BY <1>0, <2>4, <2>5, NoRequestTyped, MkInvRequest DEF MkReturn
  <1>7. ASSUME NEW r \in MkRequests, DropRequest(r) PROVE MkInv'
    BY <1>0, <1>7, NoRequestTyped, MkInvRequest DEF DropRequest, MkReturn
  <1>8. CASE UNCHANGED mkVars
    BY <1>8 DEF mkVars, MkInv, MkTypeOK, SeenAllows
  <1>9. "none" \in MkOutcomes /\ "settle" \in Ops
    BY DEF MkOutcomes, Ops
  <1>. QED
    BY <1>1, <1>2, <1>3, <1>4, <1>5, <1>6, <1>7, <1>8, <1>9 DEF MkNext

\* What a step may do to a market that is settled or cancelled.
LEMMA MkFinalNext ==
    ASSUME MkInv, MkNext, NEW m \in Markets, market[m].status \in {"settled", "cancelled"},
           ~StaleRequest(m)
    PROVE  market'[m].status = market[m].status /\ market'[m].outcome = market[m].outcome
  <1>0. /\ market \in [Markets -> [status : MkStatuses, outcome : MkOutcomes, due : BOOLEAN]]
        /\ request \in [MkRequests -> MkInFlight]
    BY DEF MkInv, MkTypeOK, MkInFlight
  <1>1. ASSUME NEW k \in Markets, ComeDue(k)
        PROVE  market'[m].status = market[m].status /\ market'[m].outcome = market[m].outcome
    BY <1>0, <1>1 DEF ComeDue
  <1>2. ASSUME NEW k \in Markets, NEW due \in BOOLEAN, CreateMarket(k, due) PROVE market'[m] = market[m]
    BY <1>0, <1>2 DEF CreateMarket, Absent
  <1>3. ASSUME NEW r \in MkRequests, WriteMarket(r)
        PROVE  market'[m].status = market[m].status /\ market'[m].outcome = market[m].outcome
    <2>. DEFINE q == request[r]
    <2>1. CASE q.m # m
      BY <1>0, <1>3, <2>1 DEF WriteMarket
    <2>2. CASE q.m = m
      <3>1. q.pc # "idle" /\ q.seen = market[m].status /\ May(q.op, q.seen)
        BY <1>3, <2>2 DEF WriteMarket, StaleRequest, MkInv, SeenAllows
      <3>2. q.op = "cancel" /\ market[m].status = "cancelled"
        BY <3>1 DEF May
      <3>. QED
        BY <1>0, <1>3, <2>2, <3>2 DEF WriteMarket, NewMkStatus
    <2>. QED
      BY <2>1, <2>2
  <1>. QED
    BY <1>1, <1>2, <1>3 DEF MkNext, MoveNet, ReadMarket, ReadPositions, DropRequest

-----------------------------------------------------------------------------
\* A settled market keeps its outcome, and a settled or cancelled market its status,
\* once no request is left that read the market before, for any number of requests
\* at the same time.
THEOREM FinalStatusStands == MkSpec => SettledIsFinal
  <1>1. MkInv /\ [MkNext]_mkVars =>
           [\A m \in Markets :
               market[m].status \in {"settled", "cancelled"} /\ ~StaleRequest(m) =>
                  market'[m].status = market[m].status /\ market'[m].outcome = market[m].outcome]_mkVars
    BY MkFinalNext
  <1>. QED
    BY MkInvInit, MkInvNext, <1>1, PTL DEF MkSpec, SettledIsFinal

-----------------------------------------------------------------------------
(***************************************************************************)
(* Proofs about OrderIntake.  Until a key expires, the request that        *)
(* claimed it is the only one at work on it: the others found it taken and *)
(* wait for nothing, or find it complete and answer with what is stored    *)
(* (OneAtWork).  What is at work has placed nothing yet, or the one order  *)
(* it goes on to register (KeySound).                                      *)
(***************************************************************************)

Works(r, k) ==
    handling[r].key = k /\ handling[r].pc \in {"validate", "create", "register", "complete"}

PlacedAt(k, i) == i \in 1 .. Len(accepted) /\ accepted[i] = k

\* A request that goes on to register has the number of its order.
Filed ==
    \A r \in OiRequests : handling[r].pc \in {"register", "complete"} =>
        PlacedAt(handling[r].key, handling[r].order)

OneAtWork(k) ==
    /\ \A r, s \in OiRequests : Works(r, k) /\ Works(s, k) => r = s
    /\ \A r \in OiRequests :
          /\ Works(r, k) => orderKey[k] = "processing"
          /\ handling[r].key = k /\ handling[r].pc = "response" => orderKey[k] = "complete"
          /\ handling[r].key = k /\ handling[r].pc # "idle" => orderKey[k] # "none"

KeySound(k) ==
    /\ \A i, j \in 1 .. Len(accepted) : accepted[i] = k /\ accepted[j] = k => i = j
    /\ orderKey[k] = "none" => \A i \in 1 .. Len(accepted) : accepted[i] # k
    /\ \A r \in OiRequests :
          /\ handling[r].key = k /\ handling[r].pc \in {"validate", "create"} =>
                \A i \in 1 .. Len(accepted) : accepted[i] # k
          /\ handling[r].key = k /\ handling[r].pc = "complete" => handling[r].order \in pending
    /\ orderKey[k] = "complete" => \E i \in pending : PlacedAt(k, i)

KeyInv(k) == lapsed[k] = 0 => OneAtWork(k) /\ KeySound(k)

OiInv == OiTypeOK /\ Filed /\ \A k \in OrderKeys : KeyInv(k)

-----------------------------------------------------------------------------
\* The handler of nobody is one, and idle.
LEMMA NoHandlerTyped == NoHandler \in Handlers /\ NoHandler.pc = "idle"
  <1>1. (CHOOSE k \in OrderKeys : TRUE) \in OrderKeys
    BY IntakeAssumption
  <1>. QED
    BY <1>1, IntakeAssumption DEF NoHandler, Handlers

\* No key is claimed at the start.
LEMMA OiInvInit == OiInit => OiInv
  <1>. SUFFICES ASSUME OiInit PROVE OiInv
    OBVIOUS
  <1>1. accepted \in Seq(OrderKeys) /\ Len(accepted) = 0
    BY EmptySeq DEF OiInit
  <1>2. handling \in [OiRequests -> Handlers] /\ \A r \in OiRequests : handling[r].pc = "idle"
    BY NoHandlerTyped DEF OiInit
  <1>3. OiTypeOK
    BY <1>1, <1>2, IntakeAssumption DEF OiInit, OiTypeOK
  <1>. QED
    BY <1>1, <1>2, <1>3 DEF OiInit, OiInv, Filed, KeyInv, OneAtWork, KeySound, Works

\* A request ends: nothing rests on it any more.
LEMMA OiInvReturn ==
    ASSUME OiInv, NEW r \in OiRequests, OiReturn(r), UNCHANGED <<orderKey, accepted, pending, lapsed>>
    PROVE  OiInv'
  <1>0. OiTypeOK /\ Filed /\ \A k \in OrderKeys : KeyInv(k)
    BY DEF OiInv
  <1>1. /\ handling' \in [OiRequests -> Handlers] /\ handling'[r].pc = "idle"
        /\ \A s \in OiRequests \ {r} : handling'[s] = handling[s]
    BY <1>0, NoHandlerTyped DEF OiReturn, OiTypeOK
  <1>2. OiTypeOK' /\ Filed'
    <2>1. OiTypeOK'
      BY <1>0, <1>1 DEF OiTypeOK
    <2>2. Filed'
      BY <1>0, <1>1 DEF Filed, PlacedAt
    <2>. QED
      BY <2>1, <2>2
  <1>3. ASSUME NEW k \in OrderKeys PROVE KeyInv(k)'
    BY <1>0, <1>1 DEF KeyInv, OneAtWork, KeySound, Works, PlacedAt
  <1>. QED
    BY <1>2, <1>3 DEF OiInv

\* What a change of one handler's step does to handling.
LEMMA OiGoes ==
    ASSUME OiTypeOK, NEW r \in OiRequests, NEW pc, OiGoto(r, pc),
           pc \in {"response", "validate", "create", "complete"}
    PROVE  /\ handling' \in [OiRequests -> Handlers]
           /\ handling'[r].pc = pc /\ handling'[r].key = handling[r].key
           /\ handling'[r].order = handling[r].order
           /\ \A s \in OiRequests \ {r} : handling'[s] = handling[s]
  BY DEF OiGoto, OiTypeOK, Handlers

\* The handler of an order that the exchange has just taken.
LEMMA AcceptedAt ==
    ASSUME NEW q \in Handlers, NEW n \in 0 .. OiMaxOrders
    PROVE  /\ [q EXCEPT !.pc = "register", !.order = n] \in Handlers
           /\ [q EXCEPT !.pc = "register", !.order = n].pc = "register"
           /\ [q EXCEPT !.pc = "register", !.order = n].key = q.key
           /\ [q EXCEPT !.pc = "register", !.order = n].order = n
  BY DEF Handlers

\* Each step of a handler keeps its key's invariant, and leaves other keys alone.
LEMMA OiInvNext == OiInv /\ [OiNext]_oiVars => OiInv'
  <1>. SUFFICES ASSUME OiInv, [OiNext]_oiVars PROVE OiInv'
    OBVIOUS
  <1>0. /\ OiTypeOK /\ Filed /\ \A k \in OrderKeys : KeyInv(k)
        /\ handling \in [OiRequests -> Handlers]
        /\ orderKey \in [OrderKeys -> {"none", "processing", "complete"}]
        /\ Len(accepted) \in Nat
    BY LenProperties DEF OiInv, OiTypeOK
  <1>1. ASSUME NEW r \in OiRequests, NEW c \in OrderKeys, ClaimKey(r, c) PROVE OiInv'
    <2>. DEFINE h == [pc |-> IF FreshKey(c) THEN "validate" ELSE "status",
                      key |-> c, fresh |-> FreshKey(c), order |-> 0]
    <2>1. /\ handling' = [handling EXCEPT ![r] = h] /\ handling[r].pc = "idle"
          /\ orderKey' = [orderKey EXCEPT ![c] = IF FreshKey(c) THEN "processing" ELSE @]
          /\ UNCHANGED <<accepted, pending, lapsed>>
      BY <1>1 DEF ClaimKey, OiAt
    <2>2. FreshKey(c) \in BOOLEAN
      BY DEF FreshKey
    <2>3. h \in Handlers
      BY <2>2, IntakeAssumption DEF Handlers
    <2>4. /\ handling' \in [OiRequests -> Handlers] /\ handling'[r] = h
          /\ \A s \in OiRequests \ {r} : handling'[s] = handling[s]
      BY <1>0, <2>1, <2>3
    <2>5. OiTypeOK' /\ Filed'
      <3>1. OiTypeOK'
        BY <1>0, <2>1, <2>4 DEF OiTypeOK
      <3>2. Filed'
        BY <1>0, <2>1, <2>4 DEF Filed, PlacedAt
      <3>. QED
        BY <3>1, <3>2
    <2>6. ASSUME NEW k \in OrderKeys PROVE KeyInv(k)'
      BY <1>0, <2>1, <2>4 DEF KeyInv, OneAtWork, KeySound, Works, PlacedAt, FreshKey
    <2>. QED
      BY <2>5, <2>6 DEF OiInv
  <1>2. ASSUME NEW r \in OiRequests, ReadKey(r) PROVE OiInv'
    <2>1. CASE OiReturn(r)
      BY <1>2, <2>1, OiInvReturn DEF ReadKey
    <2>2. CASE orderKey[handling[r].key] = "complete" /\ OiGoto(r, "response")
      <3>1. UNCHANGED <<orderKey, accepted, pending, lapsed>> /\ handling[r].pc = "status"
        BY <1>2 DEF ReadKey, OiAt
      <3>2. OiTypeOK' /\ Filed'
        <4>1. OiTypeOK'
          BY <1>0, <2>2, <3>1, OiGoes DEF OiTypeOK
        <4>2. Filed'
          BY <1>0, <2>2, <3>1, OiGoes DEF Filed, PlacedAt
        <4>. QED
          BY <4>1, <4>2
      <3>3. ASSUME NEW k \in OrderKeys PROVE KeyInv(k)'
        BY <1>0, <2>2, <3>1, OiGoes DEF KeyInv, OneAtWork, KeySound, Works, PlacedAt
      <3>. QED
        BY <3>2, <3>3 DEF OiInv
    <2>. QED
      BY <1>2, <2>1, <2>2 DEF ReadKey
  <1>3. ASSUME NEW r \in OiRequests, ReadOrder(r) PROVE OiInv'
    <2>1. CASE OiReturn(r)
      BY <1>3, <2>1, OiInvReturn DEF ReadOrder
    <2>2. CASE orderKey[handling[r].key] # "complete" /\ OiGoto(r, "validate")
      <3>1. UNCHANGED <<orderKey, accepted, pending, lapsed>> /\ handling[r].pc = "response"
        BY <1>3 DEF ReadOrder, OiAt
      <3>2. OiTypeOK' /\ Filed'
        <4>1. OiTypeOK'
          BY <1>0, <2>2, <3>1, OiGoes DEF OiTypeOK
        <4>2. Filed'
          BY <1>0, <2>2, <3>1, OiGoes DEF Filed, PlacedAt
        <4>. QED
          BY <4>1, <4>2
      <3>3. ASSUME NEW k \in OrderKeys PROVE KeyInv(k)'
        <4>1. CASE k = handling[r].key
          <5>1. lapsed[k] # 0
            BY <1>0, <2>2, <3>1, <4>1 DEF KeyInv, OneAtWork
          <5>. QED
            BY <3>1, <5>1 DEF KeyInv
        <4>2. CASE k # handling[r].key
          <5>1. OneAtWork(k) => OneAtWork(k)'
            BY <1>0, <2>2, <3>1, <4>2, OiGoes DEF OneAtWork, Works
          <5>2. KeySound(k) => KeySound(k)'
            BY <1>0, <2>2, <3>1, <4>2, OiGoes DEF KeySound, PlacedAt
          <5>. QED
            BY <1>0, <3>1, <5>1, <5>2 DEF KeyInv
        <4>. QED
          BY <4>1, <4>2
      <3>. QED
        BY <3>2, <3>3 DEF OiInv
    <2>. QED
      BY <1>3, <2>1, <2>2 DEF ReadOrder
  <1>4. ASSUME NEW r \in OiRequests, Validate(r) PROVE OiInv'
    <2>1. /\ UNCHANGED <<orderKey, accepted, pending, lapsed>>
          /\ handling[r].pc = "validate" /\ OiGoto(r, "create")
      BY <1>4 DEF Validate, OiAt
    <2>2. OiTypeOK' /\ Filed'
      <3>1. OiTypeOK'
        BY <1>0, <2>1, OiGoes DEF OiTypeOK
      <3>2. Filed'
        BY <1>0, <2>1, OiGoes DEF Filed, PlacedAt
      <3>. QED
        BY <3>1, <3>2
    <2>3. ASSUME NEW k \in OrderKeys PROVE KeyInv(k)'
      BY <1>0, <2>1, OiGoes DEF KeyInv, OneAtWork, KeySound, Works, PlacedAt
    <2>. QED
      BY <2>2, <2>3 DEF OiInv
  <1>5. ASSUME NEW r \in OiRequests, NEW answered \in BOOLEAN, CreateOrder(r, answered) PROVE OiInv'
    <2>. DEFINE c == handling[r].key
                n == Len(accepted) + 1
    <2>1. /\ handling[r].pc = "create" /\ c \in OrderKeys /\ n \in 1 .. OiMaxOrders
          /\ accepted' = Append(accepted, c) /\ UNCHANGED <<orderKey, pending, lapsed>>
      BY <1>0, <1>5, IntakeAssumption DEF CreateOrder, OiAt, Handlers
    <2>2. /\ accepted' \in Seq(OrderKeys) /\ Len(accepted') = n /\ accepted'[n] = c
          /\ \A i \in 1 .. Len(accepted) : accepted'[i] = accepted[i]
      BY <2>1, AppendProperties DEF OiTypeOK, OiInv
    <2>3. /\ handling' \in [OiRequests -> Handlers]
          /\ \A s \in OiRequests \ {r} : handling'[s] = handling[s]
          /\ \/ handling'[r].pc = "register" /\ handling'[r].key = c /\ handling'[r].order = n
             \/ handling'[r].pc = "idle"
      <3>1. CASE answered
        <4>1. handling' = [handling EXCEPT ![r].pc = "register", ![r].order = n]
          BY <1>5, <2>2, <3>1 DEF CreateOrder
        <4>. DEFINE h == [handling[r] EXCEPT !.pc = "register", !.order = n]
        <4>2. handling' = [handling EXCEPT ![r] = h]
          BY <1>0, <4>1
        <4>3. h \in Handlers /\ h.pc = "register" /\ h.key = c /\ h.order = n
          <5>1. n \in 0 .. OiMaxOrders /\ handling[r] \in Handlers
            BY <1>0, <2>1, IntakeAssumption
          <5>. QED
            BY <5>1, AcceptedAt, Zenon
        <4>. HIDE DEF h
        <4>. QED
          BY <1>0, <4>2, <4>3
      <3>2. CASE ~answered
        BY <1>0, <1>5, <3>2, NoHandlerTyped DEF CreateOrder, OiReturn
      <3>. QED
        BY <3>1, <3>2
    <2>4. OiTypeOK'
      BY <1>0, <2>1, <2>2, <2>3 DEF OiTypeOK
    <2>5. Filed'
      BY <1>0, <2>2, <2>3 DEF Filed, PlacedAt
    <2>6. ASSUME NEW k \in OrderKeys PROVE KeyInv(k)'
      <3>1. OneAtWork(k) => OneAtWork(k)'
        BY <1>0, <2>1, <2>3 DEF OneAtWork, Works
      <3>2. OneAtWork(k) /\ KeySound(k) => KeySound(k)'
        <4>1. CASE k = c
          <5>. SUFFICES ASSUME OneAtWork(k), KeySound(k) PROVE KeySound(k)'
            OBVIOUS
          <5>1. \A i \in 1 .. Len(accepted) : accepted[i] # k
            BY <2>1, <4>1 DEF KeySound
          <5>2. orderKey'[k] = "processing"
            BY <2>1, <4>1 DEF OneAtWork, Works
          <5>3. \A i \in 1 .. Len(accepted') : accepted'[i] = k => i = n
            BY <1>0, <2>2, <5>1
          <5>4. \A s \in OiRequests : s # r /\ handling[s].key = k => ~Works(s, k)
            BY <2>1, <4>1 DEF OneAtWork, Works
          <5>5. \A s \in OiRequests : handling'[s].key = k =>
                   handling'[s].pc \notin {"validate", "create", "complete"}
            BY <2>3, <5>4 DEF Works
          <5>. QED
            BY <5>2, <5>3, <5>5 DEF KeySound
        <4>2. CASE k # c
          <5>1. \A i \in 1 .. Len(accepted') :
                   accepted'[i] = k => i \in 1 .. Len(accepted) /\ accepted[i] = k
            BY <1>0, <2>2, <4>2
          <5>2. \A i : PlacedAt(k, i) => PlacedAt(k, i)'
            BY <1>0, <2>2 DEF PlacedAt
          <5>. QED
            BY <2>1, <2>3, <4>2, <5>1, <5>2 DEF KeySound
        <4>. QED
          BY <4>1, <4>2
      <3>. QED
        BY <1>0, <2>1, <3>1, <3>2 DEF KeyInv
    <2>. QED
      BY <2>4, <2>5, <2>6 DEF OiInv
  <1>6. ASSUME NEW r \in OiRequests, RegisterOrder(r) PROVE OiInv'
    <2>0. PlacedAt(handling[r].key, handling[r].order)
      BY <1>6 DEF RegisterOrder, OiAt, Filed, OiInv
    <2>1. /\ UNCHANGED <<orderKey, accepted, lapsed>> /\ pending' = pending \cup {handling[r].order}
          /\ handling[r].pc = "register" /\ OiGoto(r, "complete")
      BY <1>6 DEF RegisterOrder, OiAt
    <2>2. OiTypeOK'
      BY <1>0, <2>0, <2>1, OiGoes DEF OiTypeOK, PlacedAt
    <2>3. Filed'
      BY <1>0, <2>0, <2>1, OiGoes DEF Filed, PlacedAt
    <2>4. ASSUME NEW k \in OrderKeys PROVE KeyInv(k)'
      <3>1. OneAtWork(k) => OneAtWork(k)'
        BY <1>0, <2>1, OiGoes DEF OneAtWork, Works
      <3>2. KeySound(k) => KeySound(k)'
        BY <1>0, <2>1, OiGoes DEF KeySound, PlacedAt
      <3>. QED
        BY <1>0, <2>1, <3>1, <3>2 DEF KeyInv
    <2>. QED
      BY <2>2, <2>3, <2>4 DEF OiInv
  <1>7. ASSUME NEW r \in OiRequests, CompleteOrder(r) PROVE OiInv'
    <2>. DEFINE c == handling[r].key
    <2>1. /\ UNCHANGED <<accepted, pending, lapsed>> /\ handling[r].pc = "complete" /\ OiReturn(r)
          /\ orderKey' = [orderKey EXCEPT ![c] = IF FreshKey(c) THEN "none" ELSE "complete"]
          /\ c \in OrderKeys
      BY <1>0, <1>7 DEF CompleteOrder, OiAt, Handlers
    <2>2. /\ handling' \in [OiRequests -> Handlers] /\ handling'[r].pc = "idle"
          /\ \A s \in OiRequests \ {r} : handling'[s] = handling[s]
      BY <1>0, <2>1, NoHandlerTyped DEF OiReturn
    <2>3. OiTypeOK' /\ Filed'
      <3>1. OiTypeOK'
        BY <1>0, <2>1, <2>2 DEF OiTypeOK
      <3>2. Filed'
        BY <1>0, <2>1, <2>2 DEF Filed, PlacedAt
      <3>. QED
        BY <3>1, <3>2
    <2>4. PlacedAt(c, handling[r].order)
      BY <1>0, <2>1 DEF Filed
    <2>5. ASSUME NEW k \in OrderKeys PROVE KeyInv(k)'
      BY <1>0, <2>1, <2>2, <2>4 DEF KeyInv, OneAtWork, KeySound, Works, PlacedAt, FreshKey
    <2>. QED
      BY <2>3, <2>5 DEF OiInv
  <1>8. ASSUME NEW r \in OiRequests, DropOrder(r) PROVE OiInv'
    BY <1>8, OiInvReturn DEF DropOrder
  <1>9. ASSUME NEW c \in OrderKeys, ExpireKey(c) PROVE OiInv'
    <2>1. /\ UNCHANGED <<handling, accepted, pending>>
          /\ orderKey' = [orderKey EXCEPT ![c] = "none"] /\ lapsed' = [lapsed EXCEPT ![c] = @ + 1]
          /\ lapsed[c] < OiMaxExpiries /\ lapsed \in [OrderKeys -> 0 .. OiMaxExpiries]
      BY <1>0, <1>9 DEF ExpireKey, OiTypeOK
    <2>2. lapsed' \in [OrderKeys -> 0 .. OiMaxExpiries] /\ lapsed'[c] # 0
      BY <2>1, IntakeAssumption
    <2>3. OiTypeOK' /\ Filed'
      <3>1. OiTypeOK'
        BY <1>0, <2>1, <2>2 DEF OiTypeOK
      <3>2. Filed'
        BY <1>0, <2>1, <2>2 DEF Filed, PlacedAt
      <3>. QED
        BY <3>1, <3>2
    <2>4. ASSUME NEW k \in OrderKeys PROVE KeyInv(k)'
      <3>1. CASE k = c
        BY <2>2, <3>1 DEF KeyInv
      <3>2. CASE k # c
        BY <1>0, <2>1, <3>2 DEF KeyInv, OneAtWork, KeySound, Works, PlacedAt
      <3>. QED
        BY <3>1, <3>2
    <2>. QED
      BY <2>3, <2>4 DEF OiInv
  <1>10. CASE UNCHANGED oiVars
    BY <1>0, <1>10 DEF oiVars, OiInv, OiTypeOK, Filed, KeyInv, OneAtWork, KeySound, Works, PlacedAt
  <1>. QED
    BY <1>1, <1>2, <1>3, <1>4, <1>5, <1>6, <1>7, <1>8, <1>9, <1>10 DEF OiNext, AskForOrders

\* The invariant is what the property says of sets.
LEMMA OnceFromInv == OiInv => OrderOncePerKey
  <1>. SUFFICES ASSUME OiInv, NEW k \in OrderKeys, lapsed[k] = 0
                PROVE  LET placed == {i \in 1 .. Len(accepted) : accepted[i] = k}
                       IN /\ Cardinality(placed) <= 1
                          /\ orderKey[k] = "complete" => placed # {} /\ placed \subseteq pending
    BY DEF OrderOncePerKey
  <1>. DEFINE placed == {i \in 1 .. Len(accepted) : accepted[i] = k}
  <1>1. KeySound(k)
    BY DEF OiInv, KeyInv
  <1>2. \A i, j \in placed : i = j
    BY <1>1 DEF KeySound
  <1>3. Cardinality(placed) <= 1
    <2>1. CASE placed = {}
      <3>. HIDE DEF placed
      <3>. QED
        BY <2>1, FS_EmptySet
    <2>2. CASE placed # {}
      <3>1. PICK i \in placed : placed = {i}
        BY <1>2, <2>2
      <3>2. Cardinality({i}) = 1
        BY FS_Singleton
      <3>. HIDE DEF placed
      <3>. QED
        BY <3>1, <3>2
    <2>. QED
      BY <2>1, <2>2
  <1>4. orderKey[k] = "complete" => placed # {} /\ placed \subseteq pending
    BY <1>1, <1>2 DEF KeySound, PlacedAt
  <1>. QED
    BY <1>3, <1>4

-----------------------------------------------------------------------------
\* While its key has not expired, a request places one order at most, and the key is
\* complete only with that order placed and pending: for every number of requests at
\* once, and of keys and orders.
THEOREM PlacedOnce == OiSpec => []OrderOncePerKey
  BY OiInvInit, OiInvNext, OnceFromInv, PTL DEF OiSpec

-----------------------------------------------------------------------------
(***************************************************************************)
(* Proofs about RateLimiter.  A window, or its removal, bounds when all    *)
(* earlier requests were let through: those before the window at its start *)
(* at the latest, and those more than Limit before it a whole period       *)
(* earlier, since the window between took Limit at most (Steady).          *)
(***************************************************************************)

\* times is when requests were let through, the last count of them in a window that
\* began at start, up to now.
Steady(times, count, start, now) ==
    /\ times \in Seq(Nat) /\ count \in Nat /\ start \in Int /\ now \in Nat
    /\ count <= Limit /\ count <= Len(times) /\ start <= now
    /\ \A i \in 1 .. Len(times) : times[i] <= now
    /\ \A i \in 1 .. Len(times) : i <= Len(times) - count => times[i] <= start
    /\ \A i \in 1 .. Len(times) : i <= Len(times) - count - Limit => times[i] <= start - Period

\* BurstBound of one client.
Spread(times) == \A i \in 1 .. Len(times) - 2 * Limit : times[i + 2 * Limit] - times[i] >= Period

\* When the open window began; without one, it may begin from now on.
Start(w, now) == IF w = NoWindow THEN now ELSE w.end - Period

Paced(times, w, now) == Steady(times, w.count, Start(w, now), now) /\ Spread(times)

RlTyped ==
    /\ clock \in Nat
    /\ windows \in [Clients -> [count : Nat, end : Int]]
    /\ allowed \in [Clients -> Seq(Nat)]

RlInv == RlTyped /\ \A c \in Clients : Paced(allowed[c], windows[c], clock)

-----------------------------------------------------------------------------
(* What happens to the times of one client.                                *)

\* Time passes, with or without a window.
LEMMA Waits ==
    ASSUME NEW times, NEW count, NEW start, NEW now, Steady(times, count, start, now),
           NEW later \in Int, start <= later, later <= now + 1
    PROVE  Steady(times, count, later, now + 1)
  <1>1. /\ Len(times) \in Nat /\ \A i \in 1 .. Len(times) : times[i] \in Nat
        /\ now \in Nat /\ start \in Int /\ Period \in Int /\ Limit \in Int
    BY LenProperties, ElementOfSeq, RateAssumption DEF Steady
  <1>2. \A i \in 1 .. Len(times) : times[i] <= now + 1
    BY <1>1 DEF Steady
  <1>3. \A i \in 1 .. Len(times) : i <= Len(times) - count => times[i] <= later
    BY <1>1 DEF Steady
  <1>4. \A i \in 1 .. Len(times) : i <= Len(times) - count - Limit => times[i] <= later - Period
    BY <1>1 DEF Steady
  <1>. QED
    BY <1>1, <1>2, <1>3, <1>4 DEF Steady

\* A window is removed a period after its start.
LEMMA Removed ==
    ASSUME NEW times, NEW count, NEW start, NEW now, Steady(times, count, start, now),
           start + Period <= now
    PROVE  Steady(times, 0, now, now)
  <1>1. /\ Len(times) \in Nat /\ \A i \in 1 .. Len(times) : times[i] \in Nat
        /\ count \in Nat /\ count <= Limit /\ start \in Int /\ now \in Nat
        /\ Period \in Int /\ Limit \in Nat
    BY LenProperties, ElementOfSeq, RateAssumption DEF Steady
  <1>2. ASSUME NEW i \in 1 .. Len(times), i <= Len(times) - 0 - Limit
        PROVE  times[i] <= now - Period
    <2>1. i <= Len(times) - count
      BY <1>1, <1>2
    <2>2. times[i] <= start
      BY <2>1 DEF Steady
    <2>. QED
      BY <1>1, <2>2
  <1>. QED
    BY <1>1, <1>2 DEF Steady

\* A request is counted in a window that has room.
LEMMA Counts ==
    ASSUME NEW times, NEW count, NEW start, NEW now, Steady(times, count, start, now), count < Limit
    PROVE  Steady(Append(times, now), count + 1, start, now)
  <1>. DEFINE more == Append(times, now)
  <1>1. Len(times) \in Nat /\ \A i \in 1 .. Len(times) : times[i] \in Nat
    BY LenProperties, ElementOfSeq DEF Steady
  <1>2. /\ more \in Seq(Nat) /\ Len(more) = Len(times) + 1 /\ more[Len(times) + 1] = now
        /\ \A i \in 1 .. Len(times) : more[i] = times[i]
    BY AppendProperties DEF Steady
  <1>. HIDE DEF more
  <1>3. ASSUME NEW i \in 1 .. Len(more) PROVE more[i] <= now
    <2>1. now \in Nat /\ \A j \in 1 .. Len(times) : times[j] <= now
      BY DEF Steady
    <2>2. CASE i = Len(times) + 1
      BY <1>2, <2>1, <2>2
    <2>3. CASE i # Len(times) + 1
      <3>1. i \in 1 .. Len(times)
        BY <1>1, <1>2, <2>3
      <3>. QED
        BY <1>2, <2>1, <3>1
    <2>. QED
      BY <2>2, <2>3
  <1>. DEFINE n == Len(times)
  <1>4. ASSUME NEW i \in 1 .. Len(more), i <= Len(more) - (count + 1)
        PROVE  i \in 1 .. n /\ i <= n - count /\ more[i] = times[i]
    <2>1. count \in Nat /\ n \in Nat /\ i <= n - count
      BY <1>1, <1>2, <1>4 DEF Steady
    <2>. QED
      BY <1>2, <2>1
  <1>5. \A i \in 1 .. Len(more) : i <= Len(more) - (count + 1) => more[i] <= start
    BY <1>4 DEF Steady
  <1>6. ASSUME NEW i \in 1 .. Len(more), i <= Len(more) - (count + 1) - Limit
        PROVE  more[i] <= start - Period
    <2>1. /\ count \in Nat /\ n \in Nat /\ Limit \in Nat /\ Len(more) = n + 1
          /\ \A j \in 1 .. n : j <= n - count - Limit => times[j] <= start - Period
      BY <1>1, <1>2, RateAssumption DEF Steady
    <2>2. i <= Len(more) - (count + 1) /\ i <= n - count - Limit
      BY <1>6, <2>1
    <2>. QED
      BY <1>4, <2>1, <2>2
  <1>7. /\ more \in Seq(Nat) /\ count + 1 \in Nat /\ start \in Int /\ now \in Nat
        /\ count + 1 <= Limit /\ count + 1 <= Len(more) /\ start <= now
    BY <1>1, <1>2, RateAssumption DEF Steady
  <1>8. Steady(more, count + 1, start, now)
    BY <1>3, <1>5, <1>6, <1>7 DEF Steady
  <1>. QED
    BY <1>8 DEF more

\* However a request was let through, the bound holds with it.
LEMMA SpreadOn ==
    ASSUME NEW times \in Seq(Nat), Spread(times), NEW now \in Nat, NEW count, NEW start,
           Steady(Append(times, now), count, start, now)
    PROVE  Spread(Append(times, now))
  <1>. DEFINE more == Append(times, now)
  <1>1. Len(times) \in Nat
    BY LenProperties
  <1>2. /\ more \in Seq(Nat) /\ Len(more) = Len(times) + 1 /\ more[Len(times) + 1] = now
        /\ \A i \in 1 .. Len(times) : more[i] = times[i]
    BY AppendProperties
  <1>3. \A i \in 1 .. Len(more) : more[i] \in Nat
    BY <1>2, ElementOfSeq
  <1>4. /\ count \in Nat /\ start \in Int /\ count <= Limit /\ start <= now
        /\ \A i \in 1 .. Len(more) : i <= Len(more) - count - Limit => more[i] <= start - Period
    BY DEF Steady
  <1>. HIDE DEF more
  <1>5. ASSUME NEW i \in 1 .. Len(more) - 2 * Limit PROVE more[i + 2 * Limit] - more[i] >= Period
    <2>0. /\ i \in Int /\ 1 <= i /\ i + 2 * Limit <= Len(more) /\ Limit \in Nat /\ Limit >= 1
         /\ Len(more) = Len(times) + 1
      BY <1>1, <1>2, RateAssumption
    <2>1. CASE i + 2 * Limit = Len(more)
      <3>1. i \in 1 .. Len(more) /\ i <= Len(more) - count - Limit
        BY <1>1, <1>2, <1>4, <2>0, <2>1
      <3>2. more[i] <= start - Period /\ more[i + 2 * Limit] = now
        BY <1>2, <1>4, <2>1, <3>1
      <3>3. more[i] \in Nat
        BY <1>1, <1>2, <1>3, <1>4, <3>1, RateAssumption
      <3>. QED
        BY <1>4, <3>2, <3>3, RateAssumption
    <2>2. CASE i + 2 * Limit # Len(more)
      <3>0. i + 2 * Limit <= Len(times)
        BY <1>1, <2>0, <2>2
      <3>1. i \in 1 .. Len(times) - 2 * Limit
        BY <1>1, <2>0, <3>0
      <3>2. i \in 1 .. Len(times)
        BY <1>1, <2>0, <3>1
      <3>3. i + 2 * Limit \in 1 .. Len(times)
        BY <1>1, <2>0, <3>1
      <3>. QED
        BY <1>2, <3>1, <3>2, <3>3 DEF Spread
    <2>. QED
      BY <2>1, <2>2
  <1>6. Spread(more)
    BY <1>5 DEF Spread
  <1>. QED
    BY <1>6 DEF more

-----------------------------------------------------------------------------
\* Nobody was let through at the start.
LEMMA RlInvInit == RlInit => RlInv
  <1>. SUFFICES ASSUME RlInit PROVE RlInv
    OBVIOUS
  <1>1. <<>> \in Seq(Nat) /\ Len(<<>>) = 0
    BY EmptySeq
  <1>2. Paced(<<>>, NoWindow, 0)
    BY <1>1, RateAssumption DEF Paced, Steady, Spread, Start, NoWindow
  <1>3. RlTyped
    BY <1>1 DEF RlInit, RlTyped, NoWindow
  <1>. QED
    BY <1>2, <1>3 DEF RlInit, RlInv

\* Time passes.
LEMMA RlInvTick == RlInv /\ RlTick => RlInv'
  <1>. SUFFICES ASSUME RlInv, RlTick PROVE RlInv'
    OBVIOUS
  <1>1. RlTyped /\ clock' = clock + 1 /\ UNCHANGED <<windows, allowed>>
    BY DEF RlInv, RlTick
  <1>2. ASSUME NEW c \in Clients PROVE Paced(allowed[c], windows[c], clock + 1)
    <2>1. Paced(allowed[c], windows[c], clock) /\ windows[c] \in [count : Nat, end : Int]
      BY DEF RlInv, RlTyped
    <2>2. Start(windows[c], clock) <= Start(windows[c], clock + 1)
          /\ Start(windows[c], clock + 1) <= clock + 1 /\ Start(windows[c], clock + 1) \in Int
      BY <1>1, <2>1, RateAssumption DEF RlTyped, Start, Paced, Steady
    <2>. QED
      BY <2>1, <2>2, Waits DEF Paced
  <1>. QED
    BY <1>1, <1>2 DEF RlInv, RlTyped

\* A window is removed once it is over.
LEMMA RlInvSweep == RlInv /\ SweepWindows => RlInv'
  <1>. SUFFICES ASSUME RlInv, SweepWindows PROVE RlInv'
    OBVIOUS
  <1>1. /\ RlTyped /\ UNCHANGED <<clock, allowed>>
        /\ windows' = [c \in Clients |-> IF Kept(windows[c]) THEN windows[c] ELSE NoWindow]
    BY DEF RlInv, SweepWindows
  <1>2. ASSUME NEW c \in Clients PROVE Paced(allowed[c], windows'[c], clock)
    <2>1. Paced(allowed[c], windows[c], clock) /\ windows[c] \in [count : Nat, end : Int]
      BY DEF RlInv, RlTyped
    <2>2. CASE windows'[c] = windows[c]
      BY <2>1, <2>2
    <2>3. CASE windows'[c] # windows[c]
      <3>1. windows'[c] = NoWindow /\ windows[c] # NoWindow /\ windows[c].end <= clock
        BY <1>1, <2>1, <2>3 DEF Kept, RlTyped
      <3>2. Start(windows[c], clock) + Period <= clock
        BY <1>1, <2>1, <3>1, RateAssumption DEF Start, RlTyped
      <3>3. Steady(allowed[c], 0, clock, clock)
        BY <2>1, <3>2, Removed DEF Paced
      <3>. QED
        BY <2>1, <3>1, <3>3 DEF Paced, Start, NoWindow
    <2>. QED
      BY <2>2, <2>3
  <1>3. RlTyped'
    BY <1>1 DEF RlTyped, NoWindow
  <1>. QED
    BY <1>1, <1>2, <1>3 DEF RlInv

\* A request is let through into a window that is new, over, or open with room.
LEMMA RlInvAllow ==
    ASSUME RlInv, NEW c \in Clients, AllowRequest(c)
    PROVE  RlInv'
  <1>. DEFINE times == allowed[c]
              w == windows'[c]
  <1>1. /\ RlTyped /\ clock' = clock /\ clock \in Nat /\ times \in Seq(Nat)
        /\ windows[c] \in [count : Nat, end : Int] /\ Paced(times, windows[c], clock)
    BY DEF RlInv, RlTyped, AllowRequest
  <1>2. /\ allowed' = [allowed EXCEPT ![c] = Append(times, clock)]
        /\ w = IF clock > Entry(c).end THEN [count |-> 1, end |-> clock + Period]
               ELSE [Entry(c) EXCEPT !.count = @ + 1]
        /\ \A d \in Clients \ {c} : windows'[d] = windows[d] /\ allowed'[d] = allowed[d]
        /\ clock > Entry(c).end \/ Entry(c).count < Limit
    BY <1>1 DEF AllowRequest, RlTyped
  <1>3. w \in [count : Nat, end : Int] /\ w.count > 0 /\ w # NoWindow
    BY <1>1, <1>2, RateAssumption DEF Entry, NoWindow
  <1>4. Steady(Append(times, clock), w.count, Start(w, clock), clock)
    <2>1. CASE windows[c] = NoWindow
      <3>1. w = [count |-> 1, end |-> clock + Period] /\ Start(w, clock) = clock
        BY <1>1, <1>2, <1>3, <2>1, RateAssumption DEF Entry, Start
      <3>2. Steady(times, 0, clock, clock)
        BY <1>1, <2>1 DEF Paced, Start, NoWindow
      <3>3. Steady(Append(times, clock), 0 + 1, clock, clock)
        BY <3>2, Counts, RateAssumption
      <3>. QED
        BY <3>1, <3>3
    <2>2. CASE windows[c] # NoWindow /\ clock > windows[c].end
      <3>1. w = [count |-> 1, end |-> clock + Period] /\ Start(w, clock) = clock
        BY <1>1, <1>2, <1>3, <2>2, RateAssumption DEF Entry, Start
      <3>2. Steady(times, windows[c].count, windows[c].end - Period, clock)
        BY <1>1, <2>2 DEF Paced, Start
      <3>3. Steady(times, 0, clock, clock)
        BY <1>1, <2>2, <3>2, Removed, RateAssumption
      <3>4. Steady(Append(times, clock), 0 + 1, clock, clock)
        BY <3>3, Counts, RateAssumption
      <3>. QED
        BY <3>1, <3>4
    <2>3. CASE windows[c] # NoWindow /\ ~(clock > windows[c].end)
      <3>1. /\ windows[c].count < Limit /\ w.count = windows[c].count + 1
            /\ Start(w, clock) = windows[c].end - Period
        BY <1>1, <1>2, <1>3, <2>3 DEF Entry, Start
      <3>2. Steady(times, windows[c].count, windows[c].end - Period, clock)
        BY <1>1, <2>3 DEF Paced, Start
      <3>. QED
        BY <3>1, <3>2, Counts
    <2>. QED
      BY <2>1, <2>2, <2>3
  <1>5. Paced(Append(times, clock), w, clock)
    BY <1>1, <1>4, SpreadOn DEF Paced
  <1>6. Append(times, clock) \in Seq(Nat)
    BY <1>1, AppendProperties
  <1>7. windows' \in [Clients -> [count : Nat, end : Int]]
    <2>1. windows' = [windows EXCEPT ![c] = w]
      BY <1>1, <1>2 DEF AllowRequest, RlTyped
    <2>. QED
      BY <1>1, <1>3, <2>1 DEF RlTyped
  <1>8. RlTyped'
    BY <1>1, <1>2, <1>6, <1>7 DEF RlTyped
  <1>9. allowed'[c] = Append(times, clock)
    BY <1>1, <1>2 DEF RlTyped
  <1>. QED
    BY <1>1, <1>2, <1>5, <1>8, <1>9 DEF RlInv

\* There is no other step but a refusal, which changes nothing.
LEMMA RlInvNext == RlInv /\ [RlNext]_rlVars => RlInv'
  <1>1. ASSUME RlInv, UNCHANGED rlVars PROVE RlInv'
    BY <1>1 DEF RlInv, RlTyped, rlVars
  <1>2. \A c \in Clients : RefuseRequest(c) => UNCHANGED rlVars
    BY DEF RefuseRequest
  <1>. QED
    BY <1>1, <1>2, RlInvTick, RlInvSweep, RlInvAllow DEF RlNext

-----------------------------------------------------------------------------
\* No client gets more than twice its limit through in a time as long as the period,
\* whatever the limit and the period are and whenever windows are removed.
THEOREM BurstsBounded == RlSpec => []BurstBound
  <1>1. RlInv => BurstBound
    BY DEF RlInv, Paced, Spread, BurstBound
  <1>. QED
    BY RlInvInit, RlInvNext, <1>1, PTL DEF RlSpec

-----------------------------------------------------------------------------
(***************************************************************************)
(* Proofs about TransactionManager.  That no retry executes a request a    *)
(* second time rests on the nonce: a request that was mined and may be     *)
(* sent again was mined at a place the provider has not counted yet        *)
(* (Resendable), so that the node, which takes only the next nonce, finds  *)
(* the provider's nonce used.  What waits in the pool was not mined        *)
(* (PoolNew), and the retry loop sends again only what is not done         *)
(* (RoundOpen).                                                            *)
(***************************************************************************)

Mined(r) == \E i \in 1 .. Len(chain) : chain[i] = r

Resendable ==
    \A i \in 1 .. Len(chain) :
        stage[chain[i]] # "new" /\ (stage[chain[i]] # "done" => i > nonce)

PoolNew == pool # NoTx => stage[pool] # "new" /\ ~Mined(pool)

RoundOpen == \A r \in round : stage[r] \in Sending \cup {"pending"}

TxInv == TxTypeOK /\ Resendable /\ PoolNew /\ RoundOpen /\ ExecutedOnce

-----------------------------------------------------------------------------
\* Nothing is sent or mined at the start.
LEMMA TxInvInit == TxInit => TxInv
  <1>. SUFFICES ASSUME TxInit PROVE TxInv
    OBVIOUS
  <1>1. chain \in Seq(TxRequests) /\ Len(chain) = 0
    BY EmptySeq DEF TxInit
  <1>2. stage \in [TxRequests -> Stages] /\ retries \in [TxRequests -> Nat]
    BY DEF TxInit, Stages
  <1>3. nonce \in 0 .. Len(chain) /\ pool = NoTx /\ round \subseteq TxRequests
    BY <1>1 DEF TxInit
  <1>4. locked \in BOOLEAN
    BY DEF TxInit
  <1>5. TxTypeOK
    BY <1>1, <1>2, <1>3, <1>4, Zenon DEF TxTypeOK
  <1>. QED
    BY <1>1, <1>5 DEF TxInit, TxInv, Resendable, PoolNew, RoundOpen, ExecutedOnce

\* A step that does not touch the chain, its pool or the nonce, makes no request new
\* again and takes up none that is done.
TxOnward ==
    /\ UNCHANGED <<chain, pool, nonce>>
    /\ \A r \in TxRequests :
          (stage'[r] = "new" => stage[r] = "new") /\ (stage[r] = "done" => stage'[r] = "done")

\* What moves requests on without sending or mining any.
LEMMA TxInvOnward ==
    ASSUME TxInv, TxOnward, TxTypeOK', RoundOpen'
    PROVE  TxInv'
  <1>1. \A i \in 1 .. Len(chain) : chain[i] \in TxRequests
    BY ElementOfSeq DEF TxInv, TxTypeOK
  <1>2. Resendable'
    BY <1>1 DEF TxInv, TxOnward, Resendable
  <1>3. PoolNew'
    BY DEF TxInv, TxTypeOK, TxOnward, PoolNew, Mined
  <1>4. ExecutedOnce'
    BY DEF TxInv, TxOnward, ExecutedOnce
  <1>. QED
    BY <1>2, <1>3, <1>4 DEF TxInv

\* Where a failed request goes.
LEMMA FailedDoes ==
    ASSUME TxInv, NEW r \in TxRequests, stage[r] \in Sending, Failed(r)
    PROVE  /\ \E s \in {"pending", "queue", "done"} : TxGoto(r, s)
           /\ stage' \in [TxRequests -> Stages] /\ retries' \in [TxRequests -> Nat]
           /\ round' \subseteq TxRequests /\ locked' = locked
           /\ RoundOpen'
  <1>1. \E s \in {"pending", "queue", "done"} : TxGoto(r, s)
    BY DEF Failed
  <1>2. stage' \in [TxRequests -> Stages]
    BY <1>1 DEF TxInv, TxTypeOK, TxGoto, Stages
  <1>3. retries' \in [TxRequests -> Nat]
    BY DEF Failed, TxInv, TxTypeOK
  <1>4. RoundOpen'
    BY <1>1 DEF Failed, TxInv, TxTypeOK, RoundOpen, TxGoto
  <1>. QED
    BY <1>1, <1>2, <1>3, <1>4 DEF Failed, TxInv, TxTypeOK

\* A broadcast is accepted only at the chain's end.
LEMMA TxInvBroadcast ==
    ASSUME TxInv, NEW r \in TxRequests, NEW b \in BOOLEAN, Broadcast(r, b)
    PROVE  TxInv'
  <1>1. stage[r] = "send" /\ nonce = Len(chain) /\ pool' = r /\ UNCHANGED <<chain, nonce>>
    BY DEF Broadcast
  <1>2. ~Mined(r)
    BY <1>1 DEF TxInv, TxTypeOK, Resendable, Mined
  <1>3. /\ \E s \in {"confirm", "pending", "queue", "done"} : TxGoto(r, s)
        /\ stage' \in [TxRequests -> Stages] /\ retries' \in [TxRequests -> Nat]
        /\ round' \subseteq TxRequests /\ locked' = locked
        /\ RoundOpen'
    <2>1. CASE b
      <3>1. TxGoto(r, "confirm") /\ UNCHANGED queueVars
        BY <2>1 DEF Broadcast
      <3>2. stage' \in [TxRequests -> Stages] /\ stage'[r] = "confirm"
        BY <3>1 DEF TxGoto, TxInv, TxTypeOK, Stages
      <3>3. RoundOpen'
        BY <3>1 DEF TxGoto, TxInv, TxTypeOK, RoundOpen, queueVars, Sending
      <3>. QED
        BY <3>1, <3>2, <3>3 DEF queueVars, TxInv, TxTypeOK
    <2>2. CASE ~b
      <3>1. Failed(r) /\ stage[r] \in Sending
        BY <2>2 DEF Broadcast, Sending
      <3>. QED
        BY <3>1, FailedDoes
    <2>. QED
      BY <2>1, <2>2
  <1>4. stage'[r] # "new" /\ \A q \in TxRequests \ {r} : stage'[q] = stage[q]
    BY <1>3 DEF TxInv, TxTypeOK, TxGoto
  <1>5. TxTypeOK'
    BY <1>1, <1>3 DEF TxInv, TxTypeOK
  <1>6. PoolNew'
    BY <1>1, <1>2, <1>4 DEF PoolNew, Mined
  <1>7. Resendable'
    <2>. SUFFICES ASSUME NEW i \in 1 .. Len(chain)
                  PROVE  stage'[chain[i]] # "new" /\ (stage'[chain[i]] # "done" => i > nonce)
      BY <1>1 DEF Resendable
    <2>1. chain[i] \in TxRequests \ {r}
      BY <1>2, ElementOfSeq DEF TxInv, TxTypeOK, Mined
    <2>. QED
      BY <2>1, <1>4 DEF TxInv, Resendable
  <1>. QED
    BY <1>1, <1>3, <1>5, <1>6, <1>7 DEF TxInv, ExecutedOnce

\* The nonce counts up with the receipt of what was mined at it.
LEMMA TxInvConfirmed ==
    ASSUME TxInv, NEW r \in TxRequests, Confirmed(r)
    PROVE  TxInv'
  <1>1. /\ stage[r] = "confirm" /\ nonce < Len(chain) /\ chain[nonce + 1] = r
        /\ nonce' = nonce + 1 /\ stage' = [stage EXCEPT ![r] = "done"]
        /\ round' = round \ {r} /\ UNCHANGED <<chain, pool, retries, locked>>
    BY DEF Confirmed, TxGoto
  <1>2. TxTypeOK'
    BY <1>1 DEF TxInv, TxTypeOK, Stages
  <1>3. Resendable'
    <2>. SUFFICES ASSUME NEW i \in 1 .. Len(chain)
                  PROVE  stage'[chain[i]] # "new" /\ (stage'[chain[i]] # "done" => i > nonce + 1)
      BY <1>1 DEF Resendable
    <2>1. chain[i] \in TxRequests /\ nonce \in Nat /\ Len(chain) \in Nat
      BY ElementOfSeq, LenProperties DEF TxInv, TxTypeOK
    <2>2. stage[chain[i]] # "new" /\ (stage[chain[i]] # "done" => i > nonce)
      BY DEF TxInv, Resendable
    <2>3. i = nonce + 1 => chain[i] = r
      BY <1>1
    <2>. QED
      BY <1>1, <2>1, <2>2, <2>3 DEF TxInv, TxTypeOK
  <1>4. PoolNew'
    BY <1>1 DEF TxInv, TxTypeOK, PoolNew, Mined
  <1>5. RoundOpen'
    BY <1>1 DEF TxInv, TxTypeOK, RoundOpen
  <1>. QED
    BY <1>1, <1>2, <1>3, <1>4, <1>5 DEF TxInv, ExecutedOnce

\* What waits in the pool is mined, once.
LEMMA TxInvMine == TxInv /\ MineTx => TxInv'
  <1>. SUFFICES ASSUME TxInv, MineTx PROVE TxInv'
    OBVIOUS
  <1>1. /\ pool \in TxRequests /\ stage[pool] # "new" /\ ~Mined(pool)
        /\ pool' = NoTx /\ chain' = Append(chain, pool)
        /\ UNCHANGED <<nonce, stage, retries, locked, round>>
    BY DEF MineTx, TxInv, TxTypeOK, PoolNew, queueVars
  <1>2. chain \in Seq(TxRequests) /\ Len(chain) \in Nat
    BY LenProperties DEF TxInv, TxTypeOK
  <1>3. /\ chain' \in Seq(TxRequests) /\ Len(chain') = Len(chain) + 1
        /\ chain'[Len(chain) + 1] = pool
        /\ \A i \in 1 .. Len(chain) : chain'[i] = chain[i]
    BY <1>1, <1>2, AppendProperties
  <1>4. TxTypeOK'
    BY <1>1, <1>2, <1>3 DEF TxInv, TxTypeOK
  <1>5. Resendable'
    BY <1>1, <1>2, <1>3 DEF TxInv, TxTypeOK, Resendable
  <1>6. ExecutedOnce'
    BY <1>1, <1>2, <1>3 DEF TxInv, ExecutedOnce, Mined
  <1>. QED
    BY <1>1, <1>4, <1>5, <1>6 DEF TxInv, PoolNew, RoundOpen

\* A restart forgets the requests and asks the chain for the nonce.
LEMMA TxInvRestart == TxInv /\ TxRestart => TxInv'
  <1>. SUFFICES ASSUME TxInv, TxRestart PROVE TxInv'
    OBVIOUS
  <1>1. stage' \in [TxRequests -> Stages] /\ \A r \in TxRequests :
           stage'[r] = IF stage[r] = "new" THEN "new" ELSE "done"
    BY DEF TxRestart, Stages
  <1>2. \A i \in 1 .. Len(chain) : chain[i] \in TxRequests
    BY ElementOfSeq DEF TxInv, TxTypeOK
  <1>3. TxTypeOK'
    <2>1. chain \in Seq(TxRequests) /\ Len(chain) \in Nat /\ pool \in TxRequests \cup {NoTx}
      BY LenProperties DEF TxInv, TxTypeOK
    <2>2. UNCHANGED <<chain, pool>> /\ nonce' \in 0 .. Len(chain) /\ round' \subseteq TxRequests
      BY <2>1 DEF TxRestart
    <2>3. retries' \in [TxRequests -> Nat]
      BY DEF TxRestart
    <2>4. locked' \in BOOLEAN
      BY DEF TxRestart
    <2>. QED
      BY <1>1, <2>1, <2>2, <2>3, <2>4, Zenon DEF TxTypeOK
  <1>4. Resendable'
    BY <1>1, <1>2 DEF TxRestart, TxInv, Resendable
  <1>5. PoolNew'
    BY <1>1 DEF TxRestart, TxInv, TxTypeOK, PoolNew, Mined
  <1>. QED
    BY <1>3, <1>4, <1>5 DEF TxRestart, TxInv, ExecutedOnce, RoundOpen

\* Every other step is onward.
LEMMA TxInvNext == TxInv /\ [TxNext]_txVars => TxInv'
  <1>. SUFFICES ASSUME TxInv, [TxNext]_txVars PROVE TxInv'
    OBVIOUS
  <1>. USE DEF TxGoto, queueVars
  <1>0. TxTypeOK /\ RoundOpen
    BY DEF TxInv
  <1>1. ASSUME NEW r \in TxRequests, SubmitTx(r) PROVE TxInv'
    <2>1. TxTypeOK' /\ RoundOpen' /\ TxOnward
      BY <1>0, <1>1 DEF SubmitTx, TxTypeOK, RoundOpen, TxOnward, Stages, Sending
    <2>. QED
      BY <2>1, TxInvOnward
  <1>2. ASSUME NEW r \in TxRequests, TakeNonce(r) PROVE TxInv'
    <2>1. TxTypeOK' /\ RoundOpen' /\ TxOnward
      BY <1>0, <1>2 DEF TakeNonce, TxTypeOK, RoundOpen, TxOnward, Stages, Sending
    <2>. QED
      BY <2>1, TxInvOnward
  <1>3. ASSUME NEW r \in TxRequests, SendFails(r) PROVE TxInv'
    <2>1. stage[r] \in Sending /\ Failed(r) /\ UNCHANGED <<chain, pool, nonce>>
      BY <1>3 DEF SendFails
    <2>2. TxTypeOK' /\ RoundOpen'
      BY <1>0, <2>1, FailedDoes DEF TxTypeOK
    <2>3. TxOnward
      BY <1>0, <2>1, FailedDoes DEF TxTypeOK, TxOnward, Sending
    <2>. QED
      BY <2>2, <2>3, TxInvOnward
  <1>4. ASSUME NEW r \in TxRequests, QueueTx(r) PROVE TxInv'
    <2>1. TxTypeOK' /\ RoundOpen' /\ TxOnward
      BY <1>0, <1>4 DEF QueueTx, TxTypeOK, RoundOpen, TxOnward, Stages, Sending
    <2>. QED
      BY <2>1, TxInvOnward
  <1>5. ASSUME NEW r \in TxRequests, NEW due \in BOOLEAN, VisitTx(r, due) PROVE TxInv'
    <2>1. stage[r] = "pending"
      BY <1>0, <1>5 DEF VisitTx, TxTypeOK, RoundOpen
    <2>2. TxTypeOK' /\ RoundOpen' /\ TxOnward
      BY <1>0, <1>5, <2>1 DEF VisitTx, TxTypeOK, RoundOpen, TxOnward, Stages, Sending
    <2>. QED
      BY <2>2, TxInvOnward
  <1>6. CASE StartRound
    <2>1. TxTypeOK' /\ RoundOpen' /\ TxOnward
      BY <1>0, <1>6 DEF StartRound, TxTypeOK, RoundOpen, TxOnward
    <2>. QED
      BY <2>1, TxInvOnward
  <1>7. CASE EndRound
    <2>1. TxTypeOK' /\ RoundOpen' /\ TxOnward
      BY <1>0, <1>7 DEF EndRound, TxTypeOK, RoundOpen, TxOnward
    <2>. QED
      BY <2>1, TxInvOnward
  <1>8. CASE ForgetTx
    BY <1>8 DEF ForgetTx, TxInv, TxTypeOK, Resendable, PoolNew, RoundOpen, ExecutedOnce
  <1>9. CASE UNCHANGED txVars
    BY <1>9 DEF txVars, TxInv, TxTypeOK, Resendable, PoolNew, Mined, RoundOpen, ExecutedOnce
  <1>. QED
    BY <1>1, <1>2, <1>3, <1>4, <1>5, <1>6, <1>7, <1>8, <1>9,
       TxInvBroadcast, TxInvConfirmed, TxInvMine, TxInvRestart DEF TxNext

-----------------------------------------------------------------------------
\* The provider's nonce is never ahead of the chain's, however submissions fail,
\* retries repeat and the process restarts, for every set of requests.
THEOREM NonceNeverAhead == TxSpec => []TxTypeOK
  <1>1. TxInv => TxTypeOK
    BY DEF TxInv
  <1>. QED
    BY TxInvInit, TxInvNext, <1>1, PTL DEF TxSpec

\* No request is executed twice on the chain, however often its submission times out
\* and is repeated, for every number of requests and of retries.
THEOREM NeverExecutedTwice == TxSpec => []ExecutedOnce
  <1>1. TxInv => ExecutedOnce
    BY DEF TxInv
  <1>. QED
    BY TxInvInit, TxInvNext, <1>1, PTL DEF TxSpec
-----------------------------------------------------------------------------
(***************************************************************************)
(* The risk manager.  A loss at the limit trips the breaker in the step    *)
(* that books it, and only the reset, which takes every loss back, closes  *)
(* it again (TrippedByLoss).                                               *)
(***************************************************************************)

RiskGroups == RkMarkets \X Sides
RiskFills == [n : 0 .. RkMaxFills, prices : Nat, quantity : Nat]
RiskStates == [known : BOOLEAN, daily : Int, exposure : Int, balance : Int, peak : Int,
               fills : [RiskGroups -> RiskFills]]

\* No group has more fills than there were.
FillsCounted == \A u \in RkUsers, g \in RiskGroups : risk[u].fills[g].n <= rkFilled

TrippedByLoss == \A u \in RkUsers : risk[u].daily <= -MaxDailyLoss => tripwire

RkInv == RkTypeOK /\ FillsCounted /\ TrippedByLoss

\* The state of a user that is not known.
LEMMA NoRiskTyped ==
  /\ NoRisk \in RiskStates /\ NoRisk.daily = 0
  /\ NoRisk.fills \in [RiskGroups -> RiskFills] /\ \A g \in RiskGroups : NoRisk.fills[g].n = 0
<1>1. NoFills \in RiskFills /\ NoFills.n = 0
  BY RiskAssumption DEF NoFills, RiskFills
<1> QED BY <1>1 DEF NoRisk, RiskStates, RiskGroups

\* What a group makes is a number.
LEMMA GroupPnlTyped ==
  ASSUME NEW f \in RiskFills, NEW side \in Sides, NEW price \in Nat
  PROVE  GroupPnl(side, f, price) \in Int
<1>1. f.n \in Nat /\ f.prices \in Nat /\ f.quantity \in Nat
  BY RiskAssumption DEF RiskFills
<1>2. (price * f.n - f.prices) * f.quantity \in Int
  BY <1>1
<1> DEFINE x == (price * f.n - f.prices) * f.quantity
           gain == x \div f.n
<1>3. ASSUME f.n # 0 PROVE gain \in Int /\ -gain \in Int
  <2>1. x \in Int
    BY <1>2
  <2> HIDE DEF x
  <2> QED BY <1>1, <1>3, <2>1
<1> QED BY <1>3 DEF GroupPnl

\* No fills were seen at the start.
LEMMA RkInvInit == RkInit => RkInv
<1> SUFFICES ASSUME RkInit PROVE RkInv
  OBVIOUS
<1>1. risk \in [RkUsers -> RiskStates] /\ \A u \in RkUsers : risk[u] = NoRisk
  BY NoRiskTyped DEF RkInit
<1>2. RkTypeOK
  <2>1. tripwire \in BOOLEAN
    BY DEF RkInit
  <2>2. rkFilled \in 0 .. RkMaxFills
    BY RiskAssumption DEF RkInit
  <2> QED BY <1>1, <2>1, <2>2 DEF RkTypeOK, RiskStates, RiskGroups, RiskFills
<1>3. FillsCounted
  BY <1>1, NoRiskTyped, RiskAssumption DEF RkInit, FillsCounted
<1>4. TrippedByLoss
  BY <1>1, NoRiskTyped, RiskAssumption DEF TrippedByLoss
<1> QED BY <1>2, <1>3, <1>4 DEF RkInv

\* A fill that brings the day's loss to its limit trips the breaker.
LEMMA RkInvFill ==
  ASSUME RkInv, NEW u \in RkUsers, NEW m \in RkMarkets, NEW side \in Sides,
         NEW p \in Prices, NEW now \in Prices, NEW q \in Quantities,
         UpdateOnFill(u, m, side, p, q, now)
  PROVE  RkInv'
<1> DEFINE was == risk[u]
           h == <<m, side>>
           group == [n |-> was.fills[h].n + 1, prices |-> was.fills[h].prices + p,
                     quantity |-> was.fills[h].quantity + q]
           fills == [was.fills EXCEPT ![h] = group]
           each == [g \in RiskGroups |-> GroupPnl(g[2], fills[g], now)]
           pnl == SumFunctionOnSet(each, RiskGroups)
           balance == was.balance + pnl
           exposure == was.exposure + IF side = "buy" THEN q * now ELSE -(q * now)
           peak == IF balance > was.peak THEN balance ELSE was.peak
           row == [known |-> TRUE, daily |-> pnl, exposure |-> exposure, balance |-> balance,
                   peak |-> peak, fills |-> fills]
<1>1. /\ risk \in [RkUsers -> RiskStates] /\ tripwire \in BOOLEAN /\ rkFilled \in 0 .. RkMaxFills
      /\ FillsCounted /\ TrippedByLoss
  BY DEF RkInv, RkTypeOK, RiskStates, RiskGroups, RiskFills
<1>2. /\ risk' = [risk EXCEPT ![u] = row] /\ tripwire' = (tripwire \/ pnl <= -MaxDailyLoss)
      /\ rkFilled < RkMaxFills /\ rkFilled' = rkFilled + 1
  BY DEF UpdateOnFill, LossReached, RiskGroups
<1>3. /\ p \in Nat /\ now \in Nat /\ q \in Nat /\ h \in RiskGroups /\ RkMaxFills \in Nat
      /\ was \in RiskStates /\ was.fills \in [RiskGroups -> RiskFills]
      /\ was.balance \in Int /\ was.exposure \in Int /\ was.peak \in Int
      /\ was.fills[h] \in RiskFills /\ was.fills[h].n <= rkFilled
  BY <1>1, RiskAssumption DEF RiskGroups, RiskStates, FillsCounted
<1>4. group \in RiskFills /\ group.n <= rkFilled + 1
  BY <1>1, <1>2, <1>3 DEF RiskFills
<1> HIDE DEF h, group
<1>5. /\ fills \in [RiskGroups -> RiskFills] /\ fills[h] = group
      /\ \A g \in RiskGroups \ {h} : fills[g] = was.fills[g]
  BY <1>3, <1>4
<1> HIDE DEF fills
<1>6. pnl \in Int
  <2>1. \A g \in RiskGroups : GroupPnl(g[2], fills[g], now) \in Int
    BY <1>3, <1>5, GroupPnlTyped DEF RiskGroups
  <2>2. \A g \in RiskGroups : each[g] \in Int
    BY <2>1
  <2>3. IsFiniteSet(RiskGroups) /\ Int \in {Nat, Int}
    <3>1. IsFiniteSet(Sides)
      <4>1. IsFiniteSet({"buy"}) /\ Sides = {"buy"} \cup {"sell"}
        BY FS_Singleton DEF Sides
      <4> QED BY <4>1, FS_AddElement
    <3> QED BY <3>1, RiskAssumption, FS_Product DEF RiskGroups
  <2> HIDE DEF each
  <2> QED BY <2>2, <2>3, SumType
<1> HIDE DEF pnl
<1>7. exposure \in Int /\ balance \in Int /\ peak \in Int
  <2>1. q * now \in Int
    BY <1>3
  <2> QED BY <1>3, <1>6, <2>1
<1> HIDE DEF exposure, balance, peak, was
<1>8. row \in RiskStates /\ row.daily = pnl /\ row.fills = fills
  BY <1>5, <1>6, <1>7 DEF RiskStates
<1> HIDE DEF row
<1>9. /\ risk' \in [RkUsers -> RiskStates] /\ risk'[u] = row
      /\ \A v \in RkUsers \ {u} : risk'[v] = risk[v]
  BY <1>1, <1>2, <1>8
<1>10. RkTypeOK'
  <2>1. rkFilled' \in 0 .. RkMaxFills /\ tripwire' \in BOOLEAN
    BY <1>1, <1>2, <1>3
  <2> QED BY <1>9, <2>1 DEF RkTypeOK, RiskStates, RiskGroups, RiskFills
<1>11. FillsCounted'
  <2>1. \A v \in RkUsers, g \in RiskGroups : risk[v].fills[g].n \in Nat
    BY <1>1, <1>3 DEF RiskStates, RiskFills
  <2>2. ASSUME NEW g \in RiskGroups PROVE risk'[u].fills[g].n <= rkFilled'
    BY <1>1, <1>2, <1>4, <1>5, <1>8, <1>9, <2>1 DEF FillsCounted, was
  <2>3. ASSUME NEW v \in RkUsers \ {u}, NEW g \in RiskGroups PROVE risk'[v].fills[g].n <= rkFilled'
    BY <1>1, <1>2, <1>9, <2>1 DEF FillsCounted
  <2> QED BY <2>2, <2>3 DEF FillsCounted
<1>12. TrippedByLoss'
  BY <1>1, <1>2, <1>8, <1>9 DEF TrippedByLoss
<1> QED BY <1>10, <1>11, <1>12 DEF RkInv

\* A new day starts without a loss.
LEMMA RkInvReset == RkInv /\ ResetDailyStats => RkInv'
<1> SUFFICES ASSUME RkInv, ResetDailyStats PROVE RkInv'
  OBVIOUS
<1>1. /\ risk \in [RkUsers -> RiskStates] /\ rkFilled \in 0 .. RkMaxFills /\ rkFilled' = rkFilled
      /\ tripwire' = FALSE
  BY DEF RkInv, RkTypeOK, RiskStates, RiskGroups, RiskFills, ResetDailyStats
<1>2. \A u \in RkUsers :
        /\ risk'[u] \in RiskStates /\ risk'[u].daily = 0 /\ risk'[u].fills = NoRisk.fills
  <2> SUFFICES ASSUME NEW u \in RkUsers
               PROVE  risk'[u] \in RiskStates /\ risk'[u].daily = 0 /\ risk'[u].fills = NoRisk.fills
    OBVIOUS
  <2>1. risk'[u] = [risk[u] EXCEPT !.daily = 0, !.fills = NoRisk.fills, !.peak = risk[u].balance]
    BY DEF ResetDailyStats
  <2>2. risk[u] \in RiskStates
    BY <1>1
  <2> QED BY <2>1, <2>2, NoRiskTyped DEF RiskStates
<1>3. risk' \in [RkUsers -> RiskStates]
  <2>1. risk' = [u \in RkUsers |-> risk'[u]]
    BY DEF ResetDailyStats
  <2> QED BY <1>2, <2>1
<1>4. RkTypeOK'
  BY <1>1, <1>3 DEF RkTypeOK, RiskStates, RiskGroups, RiskFills
<1>5. FillsCounted'
  BY <1>1, <1>2, NoRiskTyped, RiskAssumption DEF FillsCounted
<1>6. TrippedByLoss'
  BY <1>2, RiskAssumption DEF TrippedByLoss
<1> QED BY <1>4, <1>5, <1>6 DEF RkInv

\* There is no other step.
LEMMA RkInvNext == RkInv /\ [RkNext]_rkVars => RkInv'
<1> SUFFICES ASSUME RkInv, [RkNext]_rkVars PROVE RkInv'
  OBVIOUS
<1>1. CASE UNCHANGED rkVars
  BY <1>1 DEF rkVars, RkInv, RkTypeOK, FillsCounted, TrippedByLoss
<1> QED BY <1>1, RkInvFill, RkInvReset DEF RkNext

\* The states of the risk manager are numbers, and its groups count their fills.
THEOREM RiskTyped == RkSpec => []RkTypeOK
<1>1. RkInv => RkTypeOK
  BY DEF RkInv
<1> QED BY <1>1, RkInvInit, RkInvNext, PTL DEF RkSpec

\* No order of anybody is allowed while any user's loss of the day is at its limit.
THEOREM LossStops == RkSpec => []LossStopsTrading
<1>1. RkInv => LossStopsTrading
  BY DEF RkInv, TrippedByLoss, LossStopsTrading, OrderAllowed
<1> QED BY <1>1, RkInvInit, RkInvNext, PTL DEF RkSpec

-----------------------------------------------------------------------------
(***************************************************************************)
(* Proofs about PositionMonitor.  A sale takes no more out of the lots     *)
(* than it sold (SoldLittle): so the lots' sizes never fall below the net  *)
(* quantity, and everything else the monitor says of a long position has   *)
(* an answer.                                                              *)
(***************************************************************************)

Lots == [price : LotPrices, size : LotSizes]

\* The size of the first n lots.
SizeUpTo(lots, n) == SumFunctionOnSet([i \in DOMAIN lots |-> lots[i].size], 1 .. n)

\* The sizes of the first lots are sums, lot by lot.
LEMMA SizesAdd ==
  ASSUME NEW lots \in Seq(Lots)
  PROVE  /\ SizeUpTo(lots, 0) = 0
         /\ SizeUpTo(lots, Len(lots)) = SizeOf(lots)
         /\ \A n \in 1 .. Len(lots) : SizeUpTo(lots, n) = lots[n].size + SizeUpTo(lots, n - 1)
         /\ \A n \in 0 .. Len(lots) : SizeUpTo(lots, n) \in Nat
<1> DEFINE f == [i \in DOMAIN lots |-> lots[i].size]
<1>1. /\ DOMAIN lots = 1 .. Len(lots) /\ Len(lots) \in Nat
      /\ \A i \in 1 .. Len(lots) : lots[i] \in Lots
  BY LenProperties, ElementOfSeq
<1>2. \A i \in 1 .. Len(lots) : f[i] = lots[i].size /\ f[i] \in Nat
  BY <1>1, MonitorAssumption DEF Lots
<1>3. SizeOf(lots) = SumFunctionOnSet(f, 1 .. Len(lots))
  <2>1. DOMAIN f = 1 .. Len(lots)
    BY <1>1
  <2> QED BY <2>1 DEF SizeOf, SumFunction
<1> HIDE DEF f
<1>4. \A n \in 0 .. Len(lots) : SizeUpTo(lots, n) = SumFunctionOnSet(f, 1 .. n)
  BY DEF SizeUpTo, f
<1>5. SumFunctionOnSet(f, 1 .. 0) = 0
  <2>1. 1 .. 0 = {}
    OBVIOUS
  <2> QED BY <2>1, SumEmpty
<1>6. ASSUME NEW n \in 0 .. Len(lots) PROVE SumFunctionOnSet(f, 1 .. n) \in Nat
  <2>1. n \in Int /\ 1 .. n \subseteq 1 .. Len(lots)
    BY <1>1
  <2>2. \A i \in 1 .. n : f[i] \in Nat
    BY <1>2, <2>1
  <2>3. IsFiniteSet(1 .. n)
    BY <2>1, FS_Interval
  <2> QED BY <2>2, <2>3, SumType
<1>7. ASSUME NEW n \in 1 .. Len(lots)
      PROVE  SumFunctionOnSet(f, 1 .. n) = f[n] + SumFunctionOnSet(f, 1 .. (n - 1))
  <2>0. n \in Int /\ 1 <= n /\ n <= Len(lots) /\ n \in 1 .. n /\ 1 .. n \subseteq 1 .. Len(lots)
    BY <1>1
  <2>0a. \A i \in 1 .. n : f[i] \in Int
    BY <1>2, <2>0
  <2>1. IsFiniteSet(1 .. n) /\ (\A i \in 1 .. n : f[i] \in Int) /\ n \in 1 .. n
    BY <2>0, <2>0a, FS_Interval
  <2>2. (1 .. n) \ {n} = 1 .. (n - 1)
    BY <1>1
  <2>3. SumFunctionOnSet(f, 1 .. n) = f[n] + SumFunctionOnSet(f, (1 .. n) \ {n})
    BY <2>1, SumRemove
  <2> QED BY <2>2, <2>3
<1> QED BY <1>1, <1>2, <1>3, <1>4, <1>5, <1>6, <1>7

\* A lot that is bought, or kept, adds its size.
LEMMA LotAdds ==
  ASSUME NEW lots \in Seq(Lots), NEW lot \in Lots
  PROVE  /\ Append(lots, lot) \in Seq(Lots) /\ SizeOf(lots) \in Nat /\ lot.size \in Nat
         /\ SizeOf(Append(lots, lot)) = SizeOf(lots) + lot.size
<1> DEFINE more == Append(lots, lot)
           n == Len(lots)
           f == [i \in DOMAIN lots |-> lots[i].size]
           g == [i \in DOMAIN more |-> more[i].size]
<1>1. /\ more \in Seq(Lots) /\ Len(more) = n + 1 /\ more[n + 1] = lot /\ n \in Nat
      /\ \A i \in 1 .. n : more[i] = lots[i]
  BY AppendProperties, LenProperties
<1>2. DOMAIN lots = 1 .. n /\ DOMAIN more = 1 .. (n + 1)
  BY <1>1, LenProperties
<1> HIDE DEF more, n
<1>3. \A i \in 1 .. n : f[i] = g[i]
  BY <1>1, <1>2
<1>4. IsFiniteSet(1 .. n)
  BY <1>1, FS_Interval
<1>5. SizeUpTo(more, n) = SizeUpTo(lots, n)
  <2> HIDE DEF f, g
  <2>1. SumFunctionOnSet(f, 1 .. n) = SumFunctionOnSet(g, 1 .. n)
    BY <1>3, <1>4, SumSame
  <2> QED BY <2>1 DEF f, g, SizeUpTo
<1>6. SizeOf(more) = lot.size + SizeUpTo(more, n)
  <2>1. Len(more) \in 1 .. Len(more) /\ Len(more) - 1 = n
    BY <1>1
  <2> QED BY <1>1, <2>1, SizesAdd
<1>7. SizeUpTo(lots, n) = SizeOf(lots) /\ SizeOf(lots) \in Nat
  BY <1>1, SizesAdd DEF n
<1>8. lot.size \in Nat
  BY MonitorAssumption DEF Lots
<1> QED BY <1>1, <1>5, <1>6, <1>7, <1>8 DEF more

-----------------------------------------------------------------------------
\* f goes through the first n lots, from s.
Goes(f, lots, s, n) == f = [i \in 0 .. n |-> IF i = 0 THEN s ELSE Sell(f[i - 1], lots[i])]

\* There is a way through any number of lots.
LEMMA SaleGoes ==
  ASSUME NEW lots, NEW s, NEW n \in Nat
  PROVE  \E f : Goes(f, lots, s, n)
<1> DEFINE Bad == {m \in Nat : ~ \E f : Goes(f, lots, s, m)}
<1>1. CASE Bad = {}
  BY <1>1
<1>2. CASE Bad # {}
  <2>1. PICK m \in Bad : \A k \in Bad : m <= k
    <3>1. Bad \subseteq Nat
      OBVIOUS
    <3> HIDE DEF Bad
    <3> QED BY <1>2, <3>1, LeastNumber
  <2>2. m # 0
    <3> DEFINE f == [i \in 0 .. 0 |-> s]
    <3>1. f = [i \in 0 .. 0 |-> IF i = 0 THEN s ELSE Sell(f[i - 1], lots[i])]
      OBVIOUS
    <3> HIDE DEF f
    <3> QED BY <3>1, <2>1 DEF Goes
  <2>3. m - 1 \in Nat /\ m - 1 \notin Bad
    BY <2>1, <2>2
  <2>4. PICK f : Goes(f, lots, s, m - 1)
    BY <2>3
  <2> DEFINE g == [i \in 0 .. m |-> IF i = m THEN Sell(f[m - 1], lots[m]) ELSE f[i]]
  <2>5. ASSUME NEW i \in 0 .. m PROVE g[i] = IF i = 0 THEN s ELSE Sell(g[i - 1], lots[i])
    <3>1. i # m => f[i] = IF i = 0 THEN s ELSE Sell(f[i - 1], lots[i])
      <4>1. i # m => i \in 0 .. (m - 1)
        BY <2>3
      <4> QED BY <2>4, <4>1 DEF Goes
    <3>2. i # 0 => i - 1 \in 0 .. m /\ i - 1 # m
      BY <2>3
    <3>3. i # 0 => g[i - 1] = f[i - 1]
      BY <3>2
    <3> QED BY <2>2, <3>1, <3>3
  <2>6. g = [i \in 0 .. m |-> IF i = 0 THEN s ELSE Sell(g[i - 1], lots[i])]
    BY <2>5
  <2> HIDE DEF g
  <2>7. Goes(g, lots, s, m)
    BY <2>6 DEF Goes
  <2> QED BY <2>1, <2>7
<1> QED BY <1>1, <1>2

\* What a sale leaves to sell after a lot, and that it uses up a lot it does not keep.
LEMMA LeastLeft ==
  ASSUME NEW size \in Nat, NEW left \in Nat
  PROVE  /\ left - Least(size, left) <= left
         /\ ~ LotStays(size, left) => left - Least(size, left) + size = left
  BY DEF Least, LotStays

\* The sums before and after a lot.
LEMMA StillMore ==
  ASSUME NEW a \in Nat, NEW size \in Nat, NEW t \in Nat, NEW most \in Nat, NEW was \in Nat,
         NEW left \in Nat, a + most >= t + was, left <= was
  PROVE  /\ (a + size) + most >= (size + t) + left
         /\ left + size = was => a + most >= (size + t) + left
  OBVIOUS

\* Whatever is left to sell after some lots, those kept of them are short by no more
\* than was taken.
LEMMA TakesLittle ==
  ASSUME NEW lots \in Seq(Lots), NEW most \in Nat, NEW f,
         Goes(f, lots, [left |-> most, kept |-> <<>>], Len(lots)), NEW n \in 0 .. Len(lots)
  PROVE  /\ f[n].left \in Nat /\ f[n].kept \in Seq(Lots)
         /\ SizeOf(f[n].kept) + most >= SizeUpTo(lots, n) + f[n].left
<1> DEFINE Good(m) == /\ f[m].left \in Nat /\ f[m].kept \in Seq(Lots)
                      /\ SizeOf(f[m].kept) + most >= SizeUpTo(lots, m) + f[m].left
           Bad == {m \in 0 .. Len(lots) : ~ Good(m)}
<1>1. CASE Bad = {}
  BY <1>1
<1>2. CASE Bad # {}
  <2>1. PICK m \in Bad : \A k \in Bad : m <= k
    <3>1. Bad \subseteq Nat
      OBVIOUS
    <3> HIDE DEF Bad
    <3> QED BY <1>2, <3>1, LeastNumber
  <2>2. \A i \in 0 .. Len(lots) :
          f[i] = IF i = 0 THEN [left |-> most, kept |-> <<>>] ELSE Sell(f[i - 1], lots[i])
    BY DEF Goes
  <2>3. Len(lots) \in Nat
    BY LenProperties
  <2>4. CASE m = 0
    <3>1. f[0] = [left |-> most, kept |-> <<>>]
      BY <2>2, <2>3
    <3>2. <<>> \in Seq(Lots) /\ Len(<<>>) = 0
      BY EmptySeq
    <3>3. SizeOf(<<>>) = 0
      BY <3>2, SizesAdd
    <3>4. SizeUpTo(lots, 0) = 0
      BY SizesAdd
    <3>5. Good(0)
      BY <3>1, <3>2, <3>3, <3>4
    <3> QED BY <2>1, <2>4, <3>5
  <2>5. CASE m # 0
    <3> DEFINE was == f[m - 1]
               lot == lots[m]
               kept == f[m].kept
               left == f[m].left
    <3>1. m \in 1 .. Len(lots) /\ m - 1 \in 0 .. Len(lots) /\ m - 1 \notin Bad
      BY <2>1, <2>3, <2>5
    <3>2. Good(m - 1)
      BY <3>1
    <3>3. lot \in Lots
      BY <3>1, ElementOfSeq
    <3>4. f[m] = Sell(was, lot)
      BY <2>2, <2>5, <3>1
    <3>5. /\ left = was.left - Least(lot.size, was.left)
          /\ kept = IF LotStays(lot.size, was.left) THEN Append(was.kept, lot) ELSE was.kept
      BY <3>4 DEF Sell
    <3>6. SizeUpTo(lots, m) = lot.size + SizeUpTo(lots, m - 1) /\ SizeUpTo(lots, m - 1) \in Nat
      BY <3>1, SizesAdd
    <3>7. was.left \in Nat /\ was.kept \in Seq(Lots)
          /\ SizeOf(was.kept) + most >= SizeUpTo(lots, m - 1) + was.left
      BY <3>2
    <3> HIDE DEF was, lot, kept, left
    <3>8. /\ Append(was.kept, lot) \in Seq(Lots) /\ SizeOf(was.kept) \in Nat /\ lot.size \in Nat
          /\ SizeOf(Append(was.kept, lot)) = SizeOf(was.kept) + lot.size
      BY <3>3, <3>7, LotAdds
    <3>9. kept \in Seq(Lots) /\ left \in Nat
      BY <3>5, <3>7, <3>8 DEF Least
    <3>10. SizeOf(kept) + most >= SizeUpTo(lots, m) + left
      <4>1. /\ left <= was.left
            /\ ~ LotStays(lot.size, was.left) => left + lot.size = was.left
        BY <3>5, <3>7, <3>8, LeastLeft, Zenon
      <4>2. CASE LotStays(lot.size, was.left)
        <5>1. SizeOf(kept) = SizeOf(was.kept) + lot.size
          BY <4>2, <3>5, <3>8, Zenon
        <5> QED BY <3>6, <3>7, <3>8, <3>9, <4>1, <5>1, StillMore, Zenon
      <4>3. CASE ~ LotStays(lot.size, was.left)
        <5>1. kept = was.kept
          BY <4>3, <3>5, Zenon
        <5> QED BY <3>6, <3>7, <3>8, <3>9, <4>1, <4>3, <5>1, StillMore, Zenon
      <4> QED BY <4>2, <4>3
    <3>11. Good(m)
      BY <3>9, <3>10 DEF kept, left
    <3> QED BY <2>1, <3>11
  <2> QED BY <2>4, <2>5
<1> QED BY <1>1, <1>2

\* A sale leaves lots whose sizes are short by no more than what it sold.
LEMMA SoldLittle ==
  ASSUME NEW lots \in Seq(Lots), NEW quantity \in Nat
  PROVE  /\ SoldFrom(lots, quantity) \in Seq(Lots) /\ SizeOf(lots) \in Nat
         /\ SizeOf(SoldFrom(lots, quantity)) \in Nat
         /\ SizeOf(SoldFrom(lots, quantity)) >= SizeOf(lots) - Least(quantity, SizeOf(lots))
<1> DEFINE most == Least(quantity, SizeOf(lots))
           s == [left |-> most, kept |-> <<>>]
           n == Len(lots)
           after == CHOOSE f : Goes(f, lots, s, n)
<1>1. n \in Nat /\ SizeOf(lots) \in Nat /\ SizeUpTo(lots, n) = SizeOf(lots) /\ n \in 0 .. n
  BY LenProperties, SizesAdd
<1>2. most \in Nat
  BY <1>1 DEF Least
<1>3. SoldFrom(lots, quantity) = after[n].kept
  BY DEF SoldFrom, Goes
<1>4. Goes(after, lots, s, n)
  BY <1>1, SaleGoes
<1> HIDE DEF after
<1>5. /\ after[n].left \in Nat /\ after[n].kept \in Seq(Lots)
      /\ SizeOf(after[n].kept) + most >= SizeUpTo(lots, n) + after[n].left
  BY <1>1, <1>2, <1>4, TakesLittle
<1>6. SizeOf(after[n].kept) \in Nat
  <2>1. Len(after[n].kept) \in 0 .. Len(after[n].kept)
    BY <1>5, LenProperties
  <2> QED BY <1>5, <2>1, SizesAdd
<1> HIDE DEF most
<1> QED BY <1>1, <1>2, <1>3, <1>5, <1>6 DEF most

-----------------------------------------------------------------------------
(* What the monitor says of its positions.                                 *)

\* Products of natural numbers are natural and keep their order.
LEMMA ProductBelow ==
  /\ \A x, y \in Nat : x * y \in Nat
  /\ \A x, y, z \in Nat : y <= z => x * y \in Nat /\ x * y <= z * x
<1>1. ASSUME NEW x \in Nat, NEW y \in Nat PROVE x * y \in Nat
  BY SMTT(30)
<1>2. ASSUME NEW x \in Nat, NEW y \in Nat, NEW z \in Nat, y <= z PROVE x * y <= z * x
  BY <1>2, SMTT(30)
<1> QED BY <1>1, <1>2, Zenon

\* The average price of lots is none above the dearest.
LEMMA AverageBelow ==
  ASSUME NEW lots \in Seq(Lots), NEW price \in LotPrices, SizeOf(lots) > 0,
         \A i \in 1 .. Len(lots) : lots[i].price <= price
  PROVE  CostOf(lots) \div SizeOf(lots) \in Nat /\ CostOf(lots) \div SizeOf(lots) <= price
<1> DEFINE D == 1 .. Len(lots)
           f == [i \in DOMAIN lots |-> lots[i].size * lots[i].price]
           g == [i \in DOMAIN lots |-> lots[i].size]
<1>1. DOMAIN lots = D /\ IsFiniteSet(D) /\ DOMAIN f = D /\ DOMAIN g = D
  BY LenProperties, FS_Interval
<1>2. price \in Nat /\ 1 \in Nat
  BY MonitorAssumption
<1>3. ASSUME NEW i \in D PROVE f[i] \in Nat /\ g[i] \in Nat /\ 1 * f[i] <= price * g[i]
  <2>1. lots[i] \in Lots
    BY ElementOfSeq
  <2>2. lots[i].price \in Nat /\ lots[i].size \in Nat /\ lots[i].price <= price
    BY <2>1, MonitorAssumption DEF Lots
  <2>3. f[i] = lots[i].size * lots[i].price /\ g[i] = lots[i].size
    BY <1>1
  <2> HIDE DEF f, g
  <2>4. /\ lots[i].size * lots[i].price \in Nat
        /\ lots[i].size * lots[i].price <= price * lots[i].size
    BY <1>2, <2>2, ProductBelow, Zenon
  <2>5. f[i] \in Nat /\ f[i] <= price * g[i]
    BY <2>3, <2>4, Zenon
  <2>6. 1 * f[i] = f[i]
    BY <2>5
  <2> QED BY <2>2, <2>3, <2>5, <2>6, Zenon
<1>4. CostOf(lots) = SumFunctionOnSet(f, D) /\ SizeOf(lots) = SumFunctionOnSet(g, D)
  BY <1>1 DEF CostOf, SizeOf, SumFunction
<1> HIDE DEF D, f, g
<1>5. 1 * SumFunctionOnSet(f, D) <= price * SumFunctionOnSet(g, D)
  BY <1>1, <1>2, <1>3, SumScaled
<1>6. CostOf(lots) \in Nat /\ SizeOf(lots) \in Nat
  BY <1>1, <1>3, <1>4, SumType
<1> DEFINE c == CostOf(lots)
           z == SizeOf(lots)
           d == c \div z
<1>7. c \in Nat /\ z \in Nat /\ z > 0 /\ c <= price * z
  BY <1>4, <1>5, <1>6
<1> HIDE DEF c, z
<1>8. d \in Nat /\ z * d <= c
  BY <1>7, SMTT(30)
<1> HIDE DEF d
<1>9. d <= price
  <2> SUFFICES ASSUME d > price PROVE FALSE
    BY <1>2, <1>8
  <2>1. price + 1 \in Nat /\ price + 1 <= d
    BY <1>2, <1>8
  <2>2. z * (price + 1) \in Nat /\ z * (price + 1) <= d * z
    BY <1>7, <1>8, <2>1, ProductBelow, Zenon
  <2>3. z * (price + 1) = price * z + z /\ d * z = z * d
    BY <1>2, <1>7, <1>8, SMTT(30)
  <2>4. z * d \in Nat /\ price * z \in Nat
    BY <1>2, <1>7, <1>8, ProductBelow, Zenon
  <2> QED BY <1>7, <1>8, <2>2, <2>3, <2>4
<1> QED BY <1>8, <1>9 DEF c, d, z

\* More than half of a user's positions is in one market at most.
LEMMA OneConcentrated ==
  ASSUME PmTypeOK, NEW u \in PmUsers, NEW m \in Concentrated(u), NEW n \in Concentrated(u)
  PROVE  m = n
<1> DEFINE f == [x \in PmMarkets |-> Magnitude(held[<<u, x>>].net)]
           total == SumFunctionOnSet(f, PmMarkets)
<1>1. \A x \in PmMarkets : f[x] \in Nat
  BY DEF PmTypeOK, PmKeys, Magnitude
<1>2. m \in PmMarkets /\ n \in PmMarkets /\ f[m] * 2 > total /\ f[n] * 2 > total
  <2>1. DOMAIN f = PmMarkets
    OBVIOUS
  <2> QED BY <2>1 DEF Concentrated, SumFunction
<1>3. IsFiniteSet(PmMarkets)
  BY MonitorAssumption
<1> HIDE DEF f
<1>4. total \in Nat
  BY <1>1, <1>3, SumType
<1> SUFFICES ASSUME m # n PROVE FALSE
  OBVIOUS
<1>5. SumFunctionOnSet(f, {m, n}) = f[m] + f[n]
  <2>1. IsFiniteSet({m, n}) /\ IsFiniteSet({n})
    BY <1>2, <1>3, FS_Subset
  <2>2. (\A y \in {m, n} : f[y] \in Int) /\ f[n] \in Nat /\ f[m] \in Nat
    BY <1>1, <1>2
  <2>3. {m, n} \ {m} = {n} /\ {n} \ {n} = {}
    OBVIOUS
  <2>4. SumFunctionOnSet(f, {m, n}) = f[m] + SumFunctionOnSet(f, {m, n} \ {m})
    BY <2>1, <2>2, SumRemove
  <2>5. SumFunctionOnSet(f, {n}) = f[n] + SumFunctionOnSet(f, {n} \ {n})
    BY <2>1, <2>2, SumRemove
  <2>6. SumFunctionOnSet(f, {}) = 0
    BY SumEmpty
  <2>7. SumFunctionOnSet(f, {n}) = f[n]
    BY <2>2, <2>3, <2>5, <2>6
  <2> QED BY <2>3, <2>4, <2>7
<1>6. SumFunctionOnSet(f, {m, n}) <= total
  BY <1>1, <1>2, <1>3, SumMonotone
<1> HIDE DEF total
<1> QED BY <1>1, <1>2, <1>4, <1>5, <1>6

-----------------------------------------------------------------------------
\* The lots of a position are at least as much as its net quantity, which is what was
\* traded.
Covered ==
  \A k \in PmKeys : held[k].net = traded[k] /\ SizeOf(held[k].lots) >= held[k].net

Positions == [net : Int, lots : Seq(Lots)]

PmInv == PmTypeOK /\ held \in [PmKeys -> Positions] /\ Covered

\* A position that is not held has no lots.
LEMMA NoLots ==
  <<>> \in Seq(Lots) /\ SizeOf(<<>>) = 0 /\ NotHeld \in Positions /\ NotHeld.net = 0 /\ NotHeld.lots = <<>>
<1>1. <<>> \in Seq(Lots) /\ Len(<<>>) = 0
  BY EmptySeq
<1>2. SizeOf(<<>>) = 0
  BY <1>1, SizesAdd
<1> QED BY <1>1, <1>2 DEF NotHeld, Positions

\* Nobody holds anything at the start.
LEMMA PmInvInit == PmInit => PmInv
<1> SUFFICES ASSUME PmInit PROVE PmInv
  OBVIOUS
<1>1. /\ held = [k \in PmKeys |-> NotHeld] /\ traded = [k \in PmKeys |-> 0] /\ pmFilled = 0
      /\ PmMaxFills \in Nat
  BY MonitorAssumption DEF PmInit
<1>2. held \in [PmKeys -> Positions] /\ Covered
  BY <1>1, NoLots DEF Covered
<1>3. PmTypeOK
  <2>2. \A k \in PmKeys : held[k] = NotHeld /\ traded[k] = 0
    BY <1>1
  <2>3. pmFilled \in 0 .. PmMaxFills /\ traded \in [PmKeys -> Int]
    BY <1>1
  <2>4. ASSUME NEW k \in PmKeys
        PROVE  held[k].net \in Int /\ held[k].lots \in Seq([price : LotPrices, size : LotSizes])
    <3>1. NotHeld.net \in Int /\ NotHeld.lots \in Seq([price : LotPrices, size : LotSizes])
      BY NoLots DEF Positions, Lots
    <3>2. held[k] = NotHeld
      BY <2>2
    <3> QED BY <3>1, <3>2
  <2> QED BY <2>2, <2>3, <2>4 DEF PmTypeOK
<1> QED BY <1>2, <1>3 DEF PmInv

\* A purchase adds a lot of its size, and a sale takes out no more than it sold.
LEMMA PmInvUpdate ==
  ASSUME PmInv, NEW k \in PmKeys, NEW side \in {1, -1}, NEW price \in LotPrices,
         NEW quantity \in LotSizes, UpdatePosition(k, side, price, quantity)
  PROVE  PmInv'
<1> DEFINE was == held[k]
           change == IF side > 0 THEN quantity ELSE -quantity
           sum == was.net + change
           lot == [price |-> price, size |-> quantity]
           lots == IF side > 0 THEN Append(was.lots, lot) ELSE SoldFrom(was.lots, quantity)
           row == IF sum = 0 THEN NotHeld ELSE [net |-> sum, lots |-> lots]
<1>1. /\ held \in [PmKeys -> Positions] /\ traded \in [PmKeys -> Int]
      /\ pmFilled \in 0 .. PmMaxFills /\ PmMaxFills \in Nat /\ Covered
      /\ \A x \in PmKeys : held[x].net = 0 => held[x] = NotHeld
  BY MonitorAssumption DEF PmInv, PmTypeOK
<1>2. /\ pmFilled < PmMaxFills /\ pmFilled' = pmFilled + 1
      /\ held' = [held EXCEPT ![k] = row] /\ traded' = [traded EXCEPT ![k] = @ + change]
  BY DEF UpdatePosition
<1>3. quantity \in Nat /\ lot \in Lots /\ lot.size = quantity
  BY MonitorAssumption DEF Lots
<1>4. /\ was.net \in Int /\ was.lots \in Seq(Lots) /\ was.net = traded[k]
      /\ SizeOf(was.lots) >= was.net
  BY <1>1 DEF Positions, Covered
<1> HIDE DEF was, lot
<1>5. change \in Int /\ sum \in Int
  BY <1>3, <1>4
<1>6. lots \in Seq(Lots) /\ SizeOf(lots) \in Nat /\ SizeOf(lots) >= sum
  <2>1. CASE side > 0
    <3>1. /\ Append(was.lots, lot) \in Seq(Lots) /\ SizeOf(was.lots) \in Nat
          /\ SizeOf(Append(was.lots, lot)) = SizeOf(was.lots) + quantity
      BY <1>3, <1>4, LotAdds
    <3> QED BY <1>3, <1>4, <2>1, <3>1
  <2>2. CASE ~ (side > 0)
    <3>1. /\ SoldFrom(was.lots, quantity) \in Seq(Lots) /\ SizeOf(was.lots) \in Nat
          /\ SizeOf(SoldFrom(was.lots, quantity)) \in Nat
          /\ SizeOf(SoldFrom(was.lots, quantity))
               >= SizeOf(was.lots) - Least(quantity, SizeOf(was.lots))
      BY <1>3, <1>4, SoldLittle
    <3> QED BY <1>3, <1>4, <2>2, <3>1 DEF Least
  <2> QED BY <2>1, <2>2
<1> HIDE DEF lots, sum
<1>7. /\ row \in Positions /\ row.net = sum /\ SizeOf(row.lots) >= sum
      /\ row.net = 0 => row = NotHeld
  BY <1>5, <1>6, NoLots DEF Positions
<1> HIDE DEF row
<1>8. /\ held' \in [PmKeys -> Positions] /\ held'[k] = row
      /\ \A x \in PmKeys \ {k} : held'[x] = held[x]
  BY <1>1, <1>2, <1>7
<1>9. /\ traded' \in [PmKeys -> Int] /\ traded'[k] = sum
      /\ \A x \in PmKeys \ {k} : traded'[x] = traded[x]
  BY <1>1, <1>2, <1>4, <1>5 DEF sum
<1>10. Covered'
  BY <1>1, <1>7, <1>8, <1>9 DEF Covered
<1>11. PmTypeOK'
  <2>1. pmFilled' \in 0 .. PmMaxFills
    BY <1>1, <1>2
  <2>2. \A x \in PmKeys : held'[x] \in Positions /\ (held'[x].net = 0 => held'[x] = NotHeld)
    BY <1>1, <1>7, <1>8
  <2> QED BY <1>9, <2>1, <2>2 DEF PmTypeOK, Positions, Lots
<1> QED BY <1>8, <1>10, <1>11 DEF PmInv

\* There is no other step.
LEMMA PmInvNext == PmInv /\ [PmNext]_pmVars => PmInv'
<1> SUFFICES ASSUME PmInv, [PmNext]_pmVars PROVE PmInv'
  OBVIOUS
<1>1. CASE UNCHANGED pmVars
  BY <1>1 DEF pmVars, PmInv, PmTypeOK, Covered
<1> QED BY <1>1, PmInvUpdate DEF PmNext

\* What the invariant says of every position, and of the concentration of every user.
LEMMA PmSays == PmInv => LotsCover
<1> SUFFICES ASSUME PmInv PROVE LotsCover
  OBVIOUS
<1>1. ASSUME NEW k \in PmKeys, held[k].net > 0
      PROVE  HasPnl(k) /\ SizeOf(held[k].lots) \in Nat /\ SizeOf(held[k].lots) > 0
  <2>1. held[k].lots \in Seq(Lots) /\ held[k].net \in Int /\ SizeOf(held[k].lots) >= held[k].net
    BY DEF PmInv, Covered, Positions
  <2>2. SizeOf(held[k].lots) \in Nat
    <3>1. Len(held[k].lots) \in 0 .. Len(held[k].lots)
      BY <2>1, LenProperties
    <3> QED BY <2>1, <3>1, SizesAdd
  <2>3. held[k].lots # <<>> /\ held[k] # NotHeld
    BY <1>1, <2>1, <2>2, NoLots
  <2> QED BY <1>1, <2>1, <2>2, <2>3 DEF HasPnl
<1>2. ASSUME NEW k \in PmKeys, held[k].net > 0, NEW price \in LotPrices,
             \A i \in 1 .. Len(held[k].lots) : held[k].lots[i].price <= price
      PROVE  UnrealizedPnl(k, price) >= 0
  <2> DEFINE d == CostOf(held[k].lots) \div SizeOf(held[k].lots)
  <2>1. d \in Nat /\ d <= price
    BY <1>1, <1>2, AverageBelow DEF PmInv, Positions
  <2>2. held[k].net \in Int /\ price \in Nat
    BY MonitorAssumption DEF PmInv, Positions
  <2>3. UnrealizedPnl(k, price) = (price - d) * held[k].net
    BY DEF UnrealizedPnl
  <2> HIDE DEF d
  <2>4. \A x, y \in Nat : x * y >= 0
    OBVIOUS
  <2>5. price - d \in Nat /\ held[k].net \in Nat
    BY <1>2, <2>1, <2>2
  <2> QED BY <2>3, <2>4, <2>5
<1>3. \A k \in PmKeys : held[k].net = traded[k] /\ SizeOf(held[k].lots) >= held[k].net
  BY DEF PmInv, Covered
<1>4. \A u \in PmUsers : \A m, n \in Concentrated(u) : m = n
  BY OneConcentrated DEF PmInv
<1> QED BY <1>1, <1>2, <1>3, <1>4 DEF LotsCover

\* A long position is covered by its lots after any fills, however sales cut across
\* lots, so that its result has an answer, which is no loss at the dearest lot's price.
THEOREM LotsKeepCover == PmSpec => []LotsCover
<1> QED BY PmInvInit, PmInvNext, PmSays, PTL DEF PmSpec

-----------------------------------------------------------------------------
(***************************************************************************)
(* Types that are inductive by themselves: those of RateLimiter, whose     *)
(* bounds on counts and times RlTyped leaves out, and of TradingFeed.      *)
(***************************************************************************)

\* No window is open at the start.
LEMMA RlTypesInit == RlInit => RlTypeOK
<1> SUFFICES ASSUME RlInit PROVE RlTypeOK
  OBVIOUS
<1>1. <<>> \in Seq(0 .. RlMaxTime)
  BY EmptySeq
<1> QED BY <1>1, RateAssumption DEF RlInit, RlTypeOK, NoWindow

\* A window opens a period before its end, and counts to the limit.
LEMMA RlTypesNext == RlTypeOK /\ [RlNext]_rlVars => RlTypeOK'
<1> SUFFICES ASSUME RlTypeOK, [RlNext]_rlVars PROVE RlTypeOK'
  OBVIOUS
<1> DEFINE Windows == [count : 0 .. Limit, end : 0 .. RlMaxTime + Period]
<1>1. /\ clock \in 0 .. RlMaxTime /\ windows \in [Clients -> Windows]
      /\ allowed \in [Clients -> Seq(0 .. RlMaxTime)]
      /\ Limit \in Nat \ {0} /\ Period \in Nat \ {0} /\ RlMaxTime \in Nat
  BY RateAssumption DEF RlTypeOK
<1>2. NoWindow \in Windows
  BY <1>1 DEF NoWindow
<1>3. CASE UNCHANGED rlVars
  BY <1>3 DEF rlVars, RlTypeOK
<1>4. CASE RlTick
  BY <1>1, <1>4 DEF RlTick, RlTypeOK
<1>5. CASE SweepWindows
  <2>1. windows' \in [Clients -> Windows]
    BY <1>1, <1>2, <1>5 DEF SweepWindows
  <2> QED BY <1>1, <1>5, <2>1 DEF SweepWindows, RlTypeOK
<1>6. ASSUME NEW c \in Clients, AllowRequest(c) PROVE RlTypeOK'
  <2> DEFINE w == Entry(c)
             new == IF clock > w.end THEN [count |-> 1, end |-> clock + Period]
                    ELSE [w EXCEPT !.count = @ + 1]
  <2>1. w \in Windows
    BY <1>1 DEF Entry
  <2>2. /\ clock > w.end \/ w.count < Limit
        /\ windows' = [windows EXCEPT ![c] = new]
        /\ allowed' = [allowed EXCEPT ![c] = Append(allowed[c], clock)]
        /\ clock' = clock
    BY <1>6 DEF AllowRequest
  <2> HIDE DEF w
  <2>3. new \in Windows
    <3>1. CASE clock > w.end
      BY <1>1, <2>1, <3>1
    <3>2. CASE ~ (clock > w.end)
      <4>1. w.count < Limit /\ w.count \in 0 .. Limit /\ w.end \in 0 .. RlMaxTime + Period
        BY <2>1, <2>2, <3>2
      <4>2. w.count + 1 \in 0 .. Limit
        BY <1>1, <4>1
      <4>3. new = [w EXCEPT !.count = w.count + 1]
        BY <3>2
      <4> QED BY <2>1, <4>1, <4>2, <4>3
    <3> QED BY <3>1, <3>2
  <2> HIDE DEF new
  <2>4. Append(allowed[c], clock) \in Seq(0 .. RlMaxTime)
    BY <1>1, AppendProperties
  <2>5. windows' \in [Clients -> Windows] /\ allowed' \in [Clients -> Seq(0 .. RlMaxTime)]
    BY <1>1, <2>2, <2>3, <2>4
  <2> QED BY <1>1, <2>2, <2>5 DEF RlTypeOK
<1> QED BY <1>3, <1>4, <1>5, <1>6 DEF RlNext, RefuseRequest

\* The tasks are off at the start.
LEMMA FeedTypesInit == FeedInit => FeedTypeOK
<1> SUFFICES ASSUME FeedInit PROVE FeedTypeOK
  OBVIOUS
<1>1. loop \in [Loops -> {"off", "check", "work", "cancel", "ended"}]
  BY DEF FeedInit
<1>2. running \in BOOLEAN /\ tripped \in BOOLEAN /\ lagged \in BOOLEAN
  BY Zenon DEF FeedInit
<1>3. backlog \in 0 .. Backlog
  BY FeedAssumption DEF FeedInit
<1> QED BY <1>1, <1>2, <1>3 DEF FeedInit, FeedTypeOK

\* An event that does not fit is dropped, and one that was received has left.
LEMMA FeedTypesNext == FeedTypeOK /\ [FeedNext]_feedVars => FeedTypeOK'
<1> SUFFICES ASSUME FeedTypeOK, [FeedNext]_feedVars PROVE FeedTypeOK'
  OBVIOUS
<1> USE DEF FeedTypeOK, channel, LoopGoto
<1>1. CASE UNCHANGED feedVars
  BY <1>1 DEF feedVars
<1>2. CASE InitializeEngine \/ Connect \/ Disconnect \/ Reconnect \/ CloseFeed
  BY <1>2 DEF InitializeEngine, Connect, Disconnect, Reconnect, CloseFeed
<1>3. CASE StartEngine
  BY <1>3 DEF StartEngine
<1>4. CASE StopEngine
  BY <1>4 DEF StopEngine
<1>5. CASE TripEngine
  BY <1>5 DEF TripEngine
<1>6. CASE SendEvent
  <2>1. backlog' \in 0 .. Backlog
    BY <1>6, FeedAssumption DEF SendEvent
  <2>2. lagged' \in BOOLEAN
    BY <1>6, Zenon DEF SendEvent
  <2> QED BY <1>6, <2>1, <2>2 DEF SendEvent
<1>7. CASE ReceiveEvent
  <2>1. backlog' \in 0 .. Backlog
    BY <1>7, FeedAssumption DEF ReceiveEvent
  <2>2. loop' \in [Loops -> {"off", "check", "work", "cancel", "ended"}]
    BY <1>7 DEF ReceiveEvent
  <2> QED BY <1>7, <2>1, <2>2 DEF ReceiveEvent
<1>8. CASE CancelAll
  BY <1>8 DEF CancelAll
<1>9. ASSUME NEW l \in Loops, LoopStep(l) PROVE FeedTypeOK'
  <2>1. loop' \in [Loops -> {"off", "check", "work", "cancel", "ended"}]
    <3>1. PICK to \in {"check", "work", "cancel", "ended"} : loop' = [loop EXCEPT ![l] = to]
      BY <1>9 DEF LoopStep, CheckLoop, WorkLoop, MustEnd
    <3> QED BY <3>1
  <2> QED BY <1>9, <2>1 DEF LoopStep, CheckLoop, WorkLoop
<1> QED BY <1>1, <1>2, <1>3, <1>4, <1>5, <1>6, <1>7, <1>8, <1>9 DEF FeedNext

-----------------------------------------------------------------------------
(***************************************************************************)
(* How the loops of TradingFeed wind down.  That they end takes fairness;  *)
(* what can be proved is that nothing stands in the way: the order to stop *)
(* is never taken back, and no step sets a loop further from its end.      *)
(***************************************************************************)

\* What LoopsEnd starts from: loop l was told to end.
Told(l) == loop[l] # "off" /\ (~running \/ tripped) /\ (l = "data" => feed = "ended")

\* How many turns a loop is from its end, once it was told.
Turns == [off |-> 4, work |-> 3, check |-> 2, cancel |-> 1, ended |-> 0]

\* A loop that was told to end stays told, and each of its steps brings it closer to its end.
WindsDown ==
    [][\A l \in Loops : Told(l) => /\ Told(l)'
                                   /\ loop'[l] # loop[l] => Turns[loop'[l]] < Turns[loop[l]]]_feedVars

\* The loops exist once the engine was started, and start does not come twice.
FeedInv == FeedTypeOK /\ \A l \in Loops : loop[l] = "off" <=> phase \in {"new", "ready"}

LEMMA FeedInvInit == FeedInit => FeedInv
<1> SUFFICES ASSUME FeedInit PROVE FeedInv
  OBVIOUS
<1>1. \A l \in Loops : loop[l] = "off"
  BY DEF FeedInit
<1> QED BY <1>1, FeedTypesInit DEF FeedInv, FeedInit

\* A loop goes from one place to another, and the others stay.
LEMMA LoopMoves ==
  ASSUME FeedTypeOK, NEW l \in Loops, NEW to \in {"off", "check", "work", "cancel", "ended"}, LoopGoto(l, to)
  PROVE  loop'[l] = to /\ \A k \in Loops \ {l} : loop'[k] = loop[k]
  BY DEF FeedTypeOK, LoopGoto

\* What a turn of a loop does to the loops.
LEMMA LoopTurns ==
  ASSUME FeedTypeOK, NEW l \in Loops,
         LoopStep(l) \/ (l = "data" /\ ReceiveEvent) \/ (l = "execution" /\ CancelAll)
  PROVE  /\ UNCHANGED <<phase, running, tripped, feed>>
         /\ \A k \in Loops \ {l} : loop'[k] = loop[k]
         /\ \/ loop[l] = "check" /\ loop'[l] = "work" /\ ~ MustEnd(l)
            \/ loop[l] = "check" /\ loop'[l] \in {"cancel", "ended"}
            \/ loop[l] = "work" /\ loop'[l] = "check"
            \/ loop[l] = "cancel" /\ loop'[l] = "ended"
<1>1. CASE CheckLoop(l)
  <2>1. PICK to \in {"work", "cancel", "ended"} : LoopGoto(l, to) /\ (to = "work" => ~ MustEnd(l))
    BY <1>1 DEF CheckLoop
  <2>2. loop[l] = "check" /\ UNCHANGED <<phase, running, tripped, feed>>
    BY <1>1 DEF CheckLoop, channel
  <2> QED BY <2>1, <2>2, LoopMoves
<1>2. CASE WorkLoop(l) \/ (l = "data" /\ ReceiveEvent)
  <2>1. loop[l] = "work" /\ LoopGoto(l, "check") /\ UNCHANGED <<phase, running, tripped, feed>>
    BY <1>2 DEF WorkLoop, ReceiveEvent, channel
  <2> QED BY <2>1, LoopMoves
<1>3. CASE l = "execution" /\ CancelAll
  <2>1. loop[l] = "cancel" /\ LoopGoto(l, "ended") /\ UNCHANGED <<phase, running, tripped, feed>>
    BY <1>3 DEF CancelAll, channel
  <2> QED BY <2>1, LoopMoves
<1> QED BY <1>1, <1>2, <1>3 DEF LoopStep

\* A turn of a loop brings it closer to its end, if it was told.
LEMMA TurnWindsDown ==
  ASSUME FeedInv, NEW l \in Loops,
         LoopStep(l) \/ (l = "data" /\ ReceiveEvent) \/ (l = "execution" /\ CancelAll)
  PROVE  /\ FeedInv'
         /\ \A k \in Loops : Told(k) => Told(k)' /\ (loop'[k] # loop[k] => Turns[loop'[k]] < Turns[loop[k]])
<1>1. /\ UNCHANGED <<phase, running, tripped, feed>>
      /\ \A k \in Loops \ {l} : loop'[k] = loop[k]
      /\ \/ loop[l] = "check" /\ loop'[l] = "work" /\ ~ MustEnd(l)
         \/ loop[l] = "check" /\ loop'[l] \in {"cancel", "ended"}
         \/ loop[l] = "work" /\ loop'[l] = "check"
         \/ loop[l] = "cancel" /\ loop'[l] = "ended"
  BY LoopTurns DEF FeedInv
<1>2. FeedTypeOK'
  <2>1. FeedNext
    BY DEF FeedNext
  <2> QED BY <2>1, FeedTypesNext DEF FeedInv
<1>3. loop[l] # "off" /\ loop'[l] # "off"
  BY <1>1
<1>4. FeedInv'
  BY <1>1, <1>2, <1>3 DEF FeedInv
<1>5. Told(l) => Turns[loop'[l]] < Turns[loop[l]]
  <2>1. Told(l) => MustEnd(l)
    BY DEF Told, MustEnd
  <2> QED BY <1>1, <2>1 DEF Turns
<1>6. ASSUME NEW k \in Loops, Told(k) PROVE Told(k)'
  BY <1>1, <1>3, <1>6 DEF Told
<1> QED BY <1>1, <1>4, <1>5, <1>6

\* The other steps leave the loops alone, and do not take the order to stop back.
LEMMA AsideWindsDown ==
  ASSUME FeedInv, \/ InitializeEngine \/ StartEngine \/ StopEngine \/ TripEngine \/ Connect
                  \/ Disconnect \/ Reconnect \/ CloseFeed \/ SendEvent \/ UNCHANGED feedVars
  PROVE  /\ FeedInv'
         /\ \A k \in Loops : Told(k) => Told(k)' /\ loop'[k] = loop[k]
<1>1. FeedTypeOK'
  <2>1. [FeedNext]_feedVars
    BY DEF FeedNext
  <2> QED BY <2>1, FeedTypesNext DEF FeedInv
<1>2. CASE StartEngine
  <2>1. phase = "ready" /\ phase' = "started" /\ \A l \in Loops : loop'[l] = "check"
    BY <1>2 DEF StartEngine
  <2>2. \A k \in Loops : ~ Told(k)
    BY <2>1 DEF FeedInv, Told
  <2> QED BY <1>1, <2>1, <2>2 DEF FeedInv
<1>3. CASE InitializeEngine
  <2>1. phase = "new" /\ phase' = "ready" /\ loop' = loop
    BY <1>3 DEF InitializeEngine
  <2>2. \A k \in Loops : ~ Told(k)
    BY <2>1 DEF FeedInv, Told
  <2> QED BY <1>1, <2>1, <2>2 DEF FeedInv
<1>4. CASE \/ StopEngine \/ TripEngine \/ Connect
           \/ Disconnect \/ Reconnect \/ CloseFeed \/ SendEvent \/ UNCHANGED feedVars
  <2>1. /\ loop' = loop
        /\ phase' = phase \/ (phase = "started" /\ phase' = "stopping")
        /\ ~running => ~running'
        /\ tripped => tripped'
        /\ feed = "ended" => feed' = "ended"
    BY <1>4 DEF StopEngine, TripEngine, Connect, Disconnect, Reconnect, CloseFeed, SendEvent, feedVars, channel
  <2>2. FeedInv'
    BY <1>1, <2>1 DEF FeedInv
  <2> QED BY <2>1, <2>2 DEF Told
<1> QED BY <1>2, <1>3, <1>4

\* Whatever the checks, the events, the connection and the circuit breaker interleave,
\* a loop that was told to end is at most three turns away from its end, and each turn it
\* takes is one of these: what LoopsEnd needs beside fairness.
THEOREM LoopsWindDown == FeedSpec => WindsDown
<1>1. FeedInv /\ [FeedNext]_feedVars
        => /\ FeedInv'
           /\ \A l \in Loops : Told(l) => /\ Told(l)'
                                          /\ loop'[l] # loop[l] => Turns[loop'[l]] < Turns[loop[l]]
  <2> SUFFICES ASSUME FeedInv, [FeedNext]_feedVars
               PROVE  /\ FeedInv'
                      /\ \A l \in Loops : Told(l) => /\ Told(l)'
                                                     /\ loop'[l] # loop[l] => Turns[loop'[l]] < Turns[loop[l]]
    OBVIOUS
  <2>1. CASE \E l \in Loops : LoopStep(l) \/ (l = "data" /\ ReceiveEvent) \/ (l = "execution" /\ CancelAll)
    BY <2>1, TurnWindsDown
  <2>2. CASE \/ InitializeEngine \/ StartEngine \/ StopEngine \/ TripEngine \/ Connect
             \/ Disconnect \/ Reconnect \/ CloseFeed \/ SendEvent \/ UNCHANGED feedVars
    BY <2>2, AsideWindsDown
  <2>3. "data" \in Loops /\ "execution" \in Loops
    BY DEF Loops
  <2> QED BY <2>1, <2>2, <2>3 DEF FeedNext
<1> QED BY <1>1, FeedInvInit, PTL DEF FeedSpec, WindsDown

-----------------------------------------------------------------------------
(***************************************************************************)
(* The services side by side: a behaviour of MCServices is one of each     *)
(* part, so that what is proved of the parts holds of it.                  *)
(***************************************************************************)

\* Every part starts.
LEMMA PartsStart ==
  Init => MkInit /\ RlInit /\ CbInit /\ OiInit /\ TxInit /\ FeedInit /\ RkInit /\ PmInit
  BY DEF Init

\* A step is one of a part, and leaves the others alone.
LEMMA PartsStep ==
  [Next]_vars => /\ [MkNext]_mkVars /\ [RlNext]_rlVars /\ [CbNext]_cbVars /\ [OiNext]_oiVars
                 /\ [TxNext]_txVars /\ [FeedNext]_feedVars /\ [RkNext]_rkVars /\ [PmNext]_pmVars
  BY DEF Next, vars

\* Whichever part a behaviour steps, it is a behaviour of every part; the fairness of
\* the feed's tasks is assumed only where the feed is the part.
THEOREM PartsBehave ==
  Spec => /\ MkSpec /\ RlSpec /\ CbSpec /\ OiSpec /\ TxSpec /\ RkSpec /\ PmSpec
          /\ FeedInit /\ [][FeedNext]_feedVars
<1> QED BY PartsStart, PartsStep, PTL
        DEF Spec, MkSpec, RlSpec, CbSpec, OiSpec, TxSpec, RkSpec, PmSpec

\* Every part has the types of its module: no count passes its limit, no backlog its
\* channel, no nonce the chain's.
THEOREM ServicesTyped == Spec => []TypeOK
<1> DEFINE Typed == MkInv /\ RlTypeOK /\ CbInv /\ OiInv /\ TxInv /\ FeedTypeOK /\ RkInv /\ PmInv
<1>1. Init => Typed
  BY PartsStart, MkInvInit, RlTypesInit, CbInvInit, OiInvInit, TxInvInit, FeedTypesInit,
     RkInvInit, PmInvInit
<1>2. Typed /\ [Next]_vars => Typed'
  BY PartsStep, MkInvNext, RlTypesNext, CbTypeNext, CbClosedNext, OiInvNext, TxInvNext,
     FeedTypesNext, RkInvNext, PmInvNext DEF CbInv
<1>3. Typed => TypeOK
  BY DEF TypeOK, MkInv, CbInv, OiInv, TxInv, RkInv, PmInv
<1> QED BY <1>1, <1>2, <1>3, PTL DEF Spec

=============================================================================
