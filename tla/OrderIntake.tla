----------------------------- MODULE OrderIntake -----------------------------
(***************************************************************************)
(* Placing an order over the API: the handler place_order claims the       *)
(* idempotency key, validates, and submits to the exchange through         *)
(* OrderService (api-http/src/handlers/orders.rs, orders/src/lib.rs,       *)
(* orders/src/reconciliation.rs, create_order of polymarket/src/           *)
(* client.rs); what is claimed and completed is a row of idempotency_keys. *)
(*                                                                         *)
(* submit asks the risk manager about a user id it has just made up, which *)
(* no fill ever named, so the answer is yes.  An order without a price is  *)
(* refused, market orders included.  The client of OrderService has no     *)
(* breaker.  A failed step ends the handler, and so does a client that     *)
(* goes away.  Nothing has a caller that would take an order out of        *)
(* pending (process_fill, finalize).                                       *)
(***************************************************************************)
EXTENDS Integers, Sequences, FiniteSets

CONSTANTS
    OrderKeys,    \* pairs of a user and an idempotency key
    OiRequests,   \* handlers that run side by side
    OiMaxOrders,  \* bound: how many orders the exchange accepts
    OiMaxExpiries \* bound: how many keys expire

ASSUME IntakeAssumption == OrderKeys # {} /\ OiMaxOrders \in Nat /\ OiMaxExpiries \in Nat

VARIABLES
    orderKey,     \* table idempotency_keys: the status of a key
    handling,     \* where each handler is, its key, and whether it claimed it
    accepted,     \* external: the orders at the exchange, each with its key
    pending,      \* OrderReconciler.pending
    lapsed        \* how often each key expired

oiVars == <<orderKey, handling, accepted, pending, lapsed>>

NoHandler == [pc |-> "idle", key |-> CHOOSE k \in OrderKeys : TRUE, fresh |-> FALSE, order |-> 0]
Handlers == [pc : {"idle", "status", "response", "validate", "create", "register", "complete"},
             key : OrderKeys, fresh : BOOLEAN, order : 0 .. OiMaxOrders]

OiInit ==
    /\ orderKey = [k \in OrderKeys |-> "none"]
    /\ handling = [r \in OiRequests |-> NoHandler]
    /\ accepted = <<>> /\ pending = {}
    /\ lapsed = [k \in OrderKeys |-> 0]

OiAt(r, pc) == handling[r].pc = pc
OiGoto(r, pc) == handling' = [handling EXCEPT ![r].pc = pc]
OiReturn(r) == handling' = [handling EXCEPT ![r] = NoHandler]

ClaimedAlways(k) == TRUE               \* mutant: the conflict goes unnoticed

\* The INSERT of claim_idempotency_key finds no row.
FreshKey(k) == orderKey[k] = "none"

\* A request comes in, and claims its key.
ClaimKey(r, k) ==
    /\ OiAt(r, "idle")
    /\ orderKey' = [orderKey EXCEPT ![k] = IF FreshKey(k) THEN "processing" ELSE @]
    /\ handling' = [handling EXCEPT ![r] =
          [pc |-> IF FreshKey(k) THEN "validate" ELSE "status",
           key |-> k, fresh |-> FreshKey(k), order |-> 0]]
    /\ UNCHANGED <<accepted, pending, lapsed>>

\* The key is taken: complete, or a conflict.
ReadKey(r) ==
    /\ OiAt(r, "status")
    /\ IF orderKey[handling[r].key] = "complete" THEN OiGoto(r, "response") ELSE OiReturn(r)
    /\ UNCHANGED <<orderKey, accepted, pending, lapsed>>

\* The stored order is the answer; without one the handler goes on.
ReadOrder(r) ==
    /\ OiAt(r, "response")
    /\ IF orderKey[handling[r].key] = "complete" THEN OiReturn(r) ELSE OiGoto(r, "validate")
    /\ UNCHANGED <<orderKey, accepted, pending, lapsed>>

\* Side, kind, price and quantity are good, and so is the risk.
Validate(r) ==
    /\ OiAt(r, "validate") /\ OiGoto(r, "create")
    /\ UNCHANGED <<orderKey, accepted, pending, lapsed>>

\* create_order: the exchange takes the order, and its answer arrives or is lost.
CreateOrder(r, answered) ==
    /\ OiAt(r, "create") /\ Len(accepted) < OiMaxOrders
    /\ accepted' = Append(accepted, handling[r].key)
    /\ IF answered
       THEN handling' = [handling EXCEPT ![r].pc = "register", ![r].order = Len(accepted')]
       ELSE OiReturn(r)
    /\ UNCHANGED <<orderKey, pending, lapsed>>

\* register, under the id the exchange gave.
RegisterOrder(r) ==
    /\ OiAt(r, "register") /\ OiGoto(r, "complete")
    /\ pending' = pending \cup {handling[r].order}
    /\ UNCHANGED <<orderKey, accepted, lapsed>>

\* complete_idempotency_key, which updates the key if it is there, and the answer.
CompleteOrder(r) ==
    LET k == handling[r].key
    IN /\ OiAt(r, "complete") /\ OiReturn(r)
       /\ orderKey' = [orderKey EXCEPT ![k] = IF FreshKey(k) THEN "none" ELSE "complete"]
       /\ UNCHANGED <<accepted, pending, lapsed>>

\* A validation, a statement or the call of the exchange fails, or the client goes
\* away: the key keeps its status.
DropOrder(r) ==
    /\ ~OiAt(r, "idle") /\ OiReturn(r)
    /\ UNCHANGED <<orderKey, accepted, pending, lapsed>>

\* expire_idempotency_keys, a day after the key was claimed: the request that
\* claimed it is over by then.
ExpireKey(k) ==
    /\ ~FreshKey(k) /\ lapsed[k] < OiMaxExpiries
    /\ ~\E r \in OiRequests : ~OiAt(r, "idle") /\ handling[r].key = k /\ handling[r].fresh
    /\ orderKey' = [orderKey EXCEPT ![k] = "none"]
    /\ lapsed' = [lapsed EXCEPT ![k] = @ + 1]
    /\ UNCHANGED <<handling, accepted, pending>>

\* cancel, get and list_for_user look at nothing: refused, not found, empty.
AskForOrders == UNCHANGED oiVars

OiNext ==
    \/ \E k \in OrderKeys : ExpireKey(k) \/ \E r \in OiRequests : ClaimKey(r, k)
    \/ \E r \in OiRequests :
          \/ ReadKey(r) \/ ReadOrder(r) \/ Validate(r) \/ RegisterOrder(r) \/ CompleteOrder(r)
          \/ DropOrder(r) \/ \E answered \in BOOLEAN : CreateOrder(r, answered)
    \/ AskForOrders

OiSpec == OiInit /\ [][OiNext]_oiVars

-----------------------------------------------------------------------------
(* Properties.                                                             *)

\* Keys have a status, handlers a step, and pending orders are the exchange's.
OiTypeOK ==
    /\ orderKey \in [OrderKeys -> {"none", "processing", "complete"}]
    /\ handling \in [OiRequests -> Handlers]
    /\ accepted \in Seq(OrderKeys) /\ Len(accepted) <= OiMaxOrders
    /\ pending \subseteq 1 .. Len(accepted)
    /\ lapsed \in [OrderKeys -> 0 .. OiMaxExpiries]

\* While a key has not expired, its requests place one order at most, however many
\* there are and wherever they or the exchange fail; and a key is complete only
\* once its order is at the exchange and pending.
OrderOncePerKey ==
    \A k \in OrderKeys : lapsed[k] = 0 =>
        LET placed == {i \in 1 .. Len(accepted) : accepted[i] = k}
        IN /\ Cardinality(placed) <= 1
           /\ orderKey[k] = "complete" => placed # {} /\ placed \subseteq pending

=============================================================================
