--------------------------- MODULE MarketLifecycle ---------------------------
(***************************************************************************)
(* The status of a market: created open, paused and reopened, cancelled,   *)
(* settled with an outcome (api/crates/markets, settlement, db/src/        *)
(* markets.rs and the admin handlers).                                     *)
(*                                                                         *)
(* Every request reads the market and writes it in a later statement; no   *)
(* write looks at the status again.  A settlement reads the positions in   *)
(* between: PositionRow has columns the SELECT lacks, so the first row it  *)
(* gets fails to decode, and the payouts that reach the database are those *)
(* of no positions at all.                                                 *)
(*                                                                         *)
(* Left out: titles and descriptions, the lists, who the admin is, the     *)
(* audit entry (the write is committed by then, and nothing reads it).     *)
(***************************************************************************)
EXTENDS Integers

CONSTANTS
    Markets,
    Traders,       \* users with positions
    MkRequests,    \* admin requests that run side by side
    MkMaxRequests, \* bound: how many admin requests are sent
    MkMaxNet       \* bound: the largest net position

ASSUME MarketAssumption == Markets # {} /\ MkMaxRequests \in Nat /\ MkMaxNet \in Nat

VARIABLES
    market,        \* table markets: status, outcome, and whether resolves_at has passed
    net,           \* table position_changes: SUM(delta) of a trader in a market
    request,       \* where each admin request is, and the status it read
    sent           \* how many requests were sent

mkVars == <<market, net, request, sent>>

Ops == {"pause", "reopen", "cancel", "settle"}
MkStatuses == {"absent", "open", "paused", "settled", "cancelled"}
MkOutcomes == {"none", "yes", "no"}
Absent == [status |-> "absent", outcome |-> "none", due |-> FALSE]
NoRequest == [pc |-> "idle", op |-> "pause", seen |-> "open", m |-> CHOOSE m \in Markets : TRUE,
              outcome |-> "none"]

MkInit ==
    /\ market = [m \in Markets |-> Absent]
    /\ net = [m \in Markets |-> [u \in Traders |-> 0]]
    /\ request = [r \in MkRequests |-> NoRequest]
    /\ sent = 0

MkReturn(r) == request' = [request EXCEPT ![r] = NoRequest]

\* insert_market: open, without a resolution time or with one that is to come.
CreateMarket(m, due) ==
    /\ market[m] = Absent
    /\ market' = [market EXCEPT ![m] = [status |-> "open", outcome |-> "none", due |-> due]]
    /\ UNCHANGED <<net, request, sent>>

\* resolves_at passes.
ComeDue(m) ==
    /\ market[m] # Absent /\ ~market[m].due
    /\ market' = [market EXCEPT ![m].due = TRUE]
    /\ UNCHANGED <<net, request, sent>>

\* A fill of the engine moves quantity from the seller to the buyer, whatever the
\* status of the market is.
MoveNet(m, buyer, seller) ==
    /\ market[m] # Absent /\ buyer # seller
    /\ net[m][buyer] < MkMaxNet /\ net[m][seller] > -MkMaxNet
    /\ net' = [net EXCEPT ![m][buyer] = @ + 1, ![m][seller] = @ - 1]
    /\ UNCHANGED <<market, request, sent>>

MayAlways(op, status) == op \in {"cancel"} \/ status \in {"open", "paused"}
                                       \* mutant: cancel asks for no status

\* The status an operation asks for.
May(op, status) ==
    \/ op = "pause" /\ status = "open"
    \/ op = "reopen" /\ status = "paused"
    \/ op = "cancel" /\ status # "settled"
    \/ op = "settle" /\ status \in {"open", "paused"}

\* A request comes in: get_market, and the guards.  A settlement is early before
\* resolves_at.
ReadMarket(r, op, m, outcome) ==
    LET status == market[m].status
    IN /\ request[r].pc = "idle" /\ sent < MkMaxRequests
       /\ sent' = sent + 1
       /\ IF market[m] # Absent /\ May(op, status) /\ (op = "settle" => market[m].due)
          THEN request' = [request EXCEPT ![r] =
                  [pc |-> IF op = "settle" THEN "positions" ELSE "write",
                   op |-> op, seen |-> status, m |-> m, outcome |-> outcome]]
          ELSE UNCHANGED request
       /\ UNCHANGED <<market, net>>

\* get_user_positions: any trader with a net position is a row, which fails.
ReadPositions(r) ==
    /\ request[r].pc = "positions"
    /\ IF \A u \in Traders : net[request[r].m][u] = 0
       THEN request' = [request EXCEPT ![r].pc = "write"]
       ELSE MkReturn(r)
    /\ UNCHANGED <<market, net, sent>>

NewMkStatus(op) ==
    CASE op = "pause" -> "paused" [] op = "reopen" -> "open"
      [] op = "cancel" -> "cancelled" [] op = "settle" -> "settled"

\* set_market_status, or apply_settlement_payouts with nobody to pay; then the
\* answer, whether the audit entry succeeds or not.
WriteMarket(r) ==
    LET q == request[r]
    IN /\ q.pc = "write"
       /\ market' = [market EXCEPT
             ![q.m].status = NewMkStatus(q.op),
             ![q.m].outcome = IF q.op = "settle" THEN q.outcome ELSE @]
       /\ MkReturn(r)
       /\ UNCHANGED <<net, sent>>

\* A statement fails, or the client goes away.
DropRequest(r) ==
    /\ request[r].pc # "idle" /\ MkReturn(r)
    /\ UNCHANGED <<market, net, sent>>

MkNext ==
    \/ \E m \in Markets : ComeDue(m) \/ \E due \in BOOLEAN : CreateMarket(m, due)
    \/ \E m \in Markets, buyer, seller \in Traders : MoveNet(m, buyer, seller)
    \/ \E r \in MkRequests, m \in Markets :
          \/ \E op \in Ops \ {"settle"} : ReadMarket(r, op, m, "none")
          \/ \E outcome \in MkOutcomes \ {"none"} : ReadMarket(r, "settle", m, outcome)
    \/ \E r \in MkRequests : ReadPositions(r) \/ WriteMarket(r) \/ DropRequest(r)

MkSpec == MkInit /\ [][MkNext]_mkVars

-----------------------------------------------------------------------------
(* Properties.                                                             *)

\* The tables hold what their columns take, and a request is where its operation goes.
MkTypeOK ==
    /\ market \in [Markets -> [status : MkStatuses, outcome : MkOutcomes, due : BOOLEAN]]
    /\ net \in [Markets -> [Traders -> -MkMaxNet .. MkMaxNet]]
    /\ request \in [MkRequests -> [pc : {"idle", "positions", "write"}, op : Ops,
                                   seen : MkStatuses, m : Markets, outcome : MkOutcomes]]
    /\ sent \in 0 .. MkMaxRequests

\* A request in flight that read a status the market no longer has.
StaleRequest(m) ==
    \E r \in MkRequests : /\ request[r].pc # "idle" /\ request[r].m = m
                          /\ request[r].seen # market[m].status

\* A settled market keeps its outcome, and a settled or cancelled market its status,
\* through every request, from the moment that no request is left that read the
\* market before.  (One that did may still reopen it, pause it or settle it again:
\* the check and the write are two statements, and the write does not check.)
SettledIsFinal ==
    [][\A m \in Markets :
          market[m].status \in {"settled", "cancelled"} /\ ~StaleRequest(m) =>
             market'[m].status = market[m].status /\ market'[m].outcome = market[m].outcome]_mkVars

=============================================================================
