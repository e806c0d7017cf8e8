------------------------------- MODULE Ledger -------------------------------
(***************************************************************************)
(* The users' money in the database: deposits, which carry an idempotency  *)
(* key (api/crates/api-http/src/handlers/deposits.rs, db/src/              *)
(* idempotency.rs), and withdrawals, which hold the money until an admin   *)
(* decides (db/src/withdrawals.rs), while fills change the same balances   *)
(* (db/src/balances.rs; module FillPipeline says when).                    *)
(*                                                                         *)
(* A handler is a sequence of statements; a failed statement ends it, and  *)
(* so does a client that goes away, since the server then drops the        *)
(* handler's future.  External: PostgreSQL, one statement or transaction   *)
(* at a time; a transaction that updated a row keeps the others from       *)
(* updating it until it ends, and they look at the row again then.         *)
(***************************************************************************)
EXTENDS Integers, FiniteSets, Functions

CONSTANTS
    Users,
    Requests,     \* deposit handlers that run side by side
    Keys,         \* idempotency keys, each with its admin
    Deposit,      \* the user and the amount of the requests with a key
    Withdrawals,  \* ids of withdrawals
    Admins,
    MaxAmount,    \* bound: the largest withdrawal and the largest fill
    MaxRequests,  \* bound: how many deposit requests are sent
    MaxExpiries,  \* bound: how many keys expire
    MaxFills,     \* bound: how many fills are applied
    None

ASSUME LedgerAssumption ==
    /\ Deposit \in [Keys -> [user : Users, amount : Nat \ {0}]]
    /\ MaxAmount \in Nat /\ MaxRequests \in Nat /\ MaxExpiries \in Nat /\ MaxFills \in Nat
    /\ None \notin Keys \cup Withdrawals \cup {"processing", "complete"}
    /\ IsFiniteSet(Keys) /\ IsFiniteSet(Withdrawals)

VARIABLES
    balances,     \* table balances
    keys,         \* table idempotency_keys: the status of a key
    handler,      \* where each deposit handler is, its key, and what claiming it gave
    withdrawals,  \* table withdrawals
    holds,        \* table withdrawal_holds
    review,       \* each admin's open transaction
    made,         \* table deposits: how many with a key
    answered,     \* history: keys of which a request was answered with success
    started,      \* how many requests were sent
    expired,      \* how often each key expired
    traded,       \* history: the users whose balances fills changed
    filled        \* how many fills were applied

keyVars == <<keys, handler, made, answered, started, expired>>
withdrawalVars == <<withdrawals, holds, review>>
fillVars == <<traded, filled>>
vars == <<balances, keyVars, withdrawalVars, fillVars>>

Idle == [pc |-> "idle", key |-> None, claimed |-> "fresh"]
NoReview == [withdrawal |-> None, verdict |-> "approved"]
Absent == [user |-> None, amount |-> 0, status |-> "absent"]
Statuses == {"pending", "approved", "rejected"}

-----------------------------------------------------------------------------
Init ==
    /\ balances = [u \in Users |-> [available |-> 0, reserved |-> 0]]
    /\ keys = [k \in Keys |-> None]
    /\ handler = [r \in Requests |-> Idle]
    /\ withdrawals = [w \in Withdrawals |-> Absent]
    /\ holds = {} /\ review = [a \in Admins |-> NoReview]
    /\ made = [k \in Keys |-> 0] /\ answered = {} /\ started = 0
    /\ expired = [k \in Keys |-> 0]
    /\ traded = {} /\ filled = 0

-----------------------------------------------------------------------------
(* Deposits: the handler deposit, statement by statement.                  *)

At(r, pc) == handler[r].pc = pc
Goto(r, pc) == handler' = [handler EXCEPT ![r].pc = pc]
Return(r) == handler' = [handler EXCEPT ![r] = Idle]

NewComplete == "complete"              \* mutant: a claimed key counts as complete

\* The status claim_idempotency_key inserts.
NewStatus == "processing"

AlwaysFresh(k) == TRUE                 \* mutant: the conflict goes unnoticed

\* The INSERT of claim_idempotency_key finds no row.
Fresh(k) == keys[k] = None

\* A request comes in, and claims its key.
Claim(r, k) ==
    /\ At(r, "idle") /\ started < MaxRequests
    /\ started' = started + 1
    /\ IF Fresh(k)
       THEN /\ keys' = [keys EXCEPT ![k] = NewStatus]
            /\ handler' = [handler EXCEPT ![r] = [pc |-> "deposit", key |-> k, claimed |-> "fresh"]]
       ELSE /\ handler' = [handler EXCEPT ![r] = [pc |-> "status", key |-> k, claimed |-> "taken"]]
            /\ UNCHANGED keys
    /\ UNCHANGED <<balances, made, answered, expired, withdrawalVars, fillVars>>

\* The SELECT of claim_idempotency_key: complete, or processing, which is a
\* conflict; no row any more is an error.
ReadStatus(r) ==
    /\ At(r, "status")
    /\ IF keys[handler[r].key] = "complete"
       THEN handler' = [handler EXCEPT ![r].pc = "response", ![r].claimed = "complete"]
       ELSE Return(r)
    /\ UNCHANGED <<balances, keys, made, answered, started, expired, withdrawalVars, fillVars>>

\* get_idempotency_response: the answer, or none, and the handler goes on.
ReadResponse(r) ==
    /\ At(r, "response")
    /\ IF keys[handler[r].key] = "complete"
       THEN Return(r) /\ answered' = answered \cup {handler[r].key}
       ELSE Goto(r, "deposit") /\ UNCHANGED answered
    /\ UNCHANGED <<balances, keys, made, started, expired, withdrawalVars, fillVars>>

\* record_deposit.
RecordDeposit(r) ==
    LET d == Deposit[handler[r].key]
    IN /\ At(r, "deposit")
       /\ balances' = [balances EXCEPT ![d.user].available = @ + d.amount]
       /\ made' = [made EXCEPT ![handler[r].key] = @ + 1]
       /\ Goto(r, "complete")
       /\ UNCHANGED <<keys, answered, started, expired, withdrawalVars, fillVars>>

\* audit, complete_idempotency_key, which updates the key if it is there, and the answer.
CompleteKey(r) ==
    LET k == handler[r].key
    IN /\ At(r, "complete")
       /\ keys' = [keys EXCEPT ![k] = IF Fresh(k) THEN None ELSE "complete"]
       /\ answered' = answered \cup {k}
       /\ Return(r)
       /\ UNCHANGED <<balances, made, started, expired, withdrawalVars, fillVars>>

\* A statement fails, the client goes away, or the server stops.
Drop(r) ==
    /\ ~At(r, "idle") /\ Return(r)
    /\ UNCHANGED <<balances, keys, made, answered, started, expired, withdrawalVars, fillVars>>

\* expire_idempotency_keys, a day after the key was claimed: the request that
\* claimed it is over by then.
Expire(k) ==
    /\ keys[k] # None /\ expired[k] < MaxExpiries
    /\ ~\E r \in Requests : ~At(r, "idle") /\ handler[r].key = k /\ handler[r].claimed = "fresh"
    /\ keys' = [keys EXCEPT ![k] = None]
    /\ expired' = [expired EXCEPT ![k] = @ + 1]
    /\ UNCHANGED <<balances, handler, made, answered, started, withdrawalVars, fillVars>>

-----------------------------------------------------------------------------
(* Withdrawals.                                                            *)

AffordsAny(u, x) == TRUE               \* mutant: no available >= $2

Affords(u, x) == balances[u].available >= x

\* create_withdrawal, one transaction.
RequestWithdrawal(w, u, x) ==
    /\ withdrawals[w] = Absent /\ Affords(u, x)
    /\ balances' = [balances EXCEPT ![u].available = @ - x, ![u].reserved = @ + x]
    /\ withdrawals' = [withdrawals EXCEPT ![w] = [user |-> u, amount |-> x, status |-> "pending"]]
    /\ holds' = holds \cup {w}
    /\ UNCHANGED <<review, keyVars, fillVars>>

PendingOrNot(w) == withdrawals[w] # Absent
                                       \* mutant: no status = 'pending'

Pending(w) == withdrawals[w].status = "pending"

\* The first UPDATE of approve_withdrawal or reject_withdrawal: it waits for an
\* open transaction on the row to end, and changes nothing others see yet.
StartReview(a, w, verdict) ==
    /\ review[a] = NoReview /\ Pending(w)
    /\ \A b \in Admins : review[b].withdrawal # w
    /\ review' = [review EXCEPT ![a] = [withdrawal |-> w, verdict |-> verdict]]
    /\ UNCHANGED <<balances, withdrawals, holds, keyVars, fillVars>>

\* GREATEST(0, reserved - $2).
Released(b, x) == [b EXCEPT !.reserved = IF @ > x THEN @ - x ELSE 0]

ReturnedTwice(b, x) == [b EXCEPT !.available = @ + x]
                                       \* mutant: what is returned stays reserved too

\* The balance a rejection leaves.
Returned(b, x) == [Released(b, x) EXCEPT !.available = @ + x]

\* The rest of the transaction: the balance, the hold, and commit.
FinishReview(a) ==
    LET w == review[a].withdrawal
        verdict == review[a].verdict
        x == withdrawals[w].amount
    IN /\ review[a] # NoReview
       /\ withdrawals' = [withdrawals EXCEPT ![w].status = verdict]
       /\ balances' = [balances EXCEPT ![withdrawals[w].user] =
                         IF verdict = "approved" THEN Released(@, x) ELSE Returned(@, x)]
       /\ holds' = holds \ {w}
       /\ review' = [review EXCEPT ![a] = NoReview]
       /\ UNCHANGED <<keyVars, fillVars>>

\* The transaction is rolled back.
FailReview(a) ==
    /\ review[a] # NoReview
    /\ review' = [review EXCEPT ![a] = NoReview]
    /\ UNCHANGED <<balances, withdrawals, holds, keyVars, fillVars>>

-----------------------------------------------------------------------------
\* apply_fill_balances, one transaction.
ApplyFill(buyer, seller, cost) ==
    LET bought == [balances EXCEPT ![buyer] = Released(@, cost)]
    IN /\ filled < MaxFills
       /\ balances' = [bought EXCEPT ![seller] = Returned(@, cost)]
       /\ traded' = traded \cup {buyer, seller} /\ filled' = filled + 1
       /\ UNCHANGED <<keyVars, withdrawalVars>>

Next ==
    \/ \E r \in Requests, k \in Keys : Claim(r, k)
    \/ \E r \in Requests : ReadStatus(r) \/ ReadResponse(r) \/ RecordDeposit(r)
                           \/ CompleteKey(r) \/ Drop(r)
    \/ \E k \in Keys : Expire(k)
    \/ \E w \in Withdrawals, u \in Users, x \in 1 .. MaxAmount : RequestWithdrawal(w, u, x)
    \/ \E a \in Admins, w \in Withdrawals, verdict \in Statuses \ {"pending"} :
          StartReview(a, w, verdict)
    \/ \E a \in Admins : FinishReview(a) \/ FailReview(a)
    \/ \E buyer, seller \in Users, cost \in 1 .. MaxAmount : ApplyFill(buyer, seller, cost)

Spec == Init /\ [][Next]_vars

-----------------------------------------------------------------------------
(* Properties.                                                             *)

\* Every variable keeps its type; no balance goes below zero, so that no statement
\* fails on the CHECKs of the table.
TypeOK ==
    /\ balances \in [Users -> [available : Nat, reserved : Nat]]
    /\ keys \in [Keys -> {None, "processing", "complete"}]
    /\ handler \in [Requests -> [pc : {"idle", "status", "response", "deposit", "complete"},
                                 key : Keys \cup {None}, claimed : {"fresh", "taken", "complete"}]]
    /\ withdrawals \in [Withdrawals -> {Absent} \cup [user : Users, amount : Nat, status : Statuses]]
    /\ holds \subseteq Withdrawals
    /\ review \in [Admins -> [withdrawal : Withdrawals \cup {None}, verdict : {"approved", "rejected"}]]
    /\ made \in [Keys -> Nat] /\ answered \subseteq Keys /\ started \in 0 .. MaxRequests
    /\ expired \in [Keys -> 0 .. MaxExpiries] /\ traded \subseteq Users /\ filled \in 0 .. MaxFills

\* As long as a key is kept, at most one of its requests deposits, however many
\* come at once and wherever they are dropped.
OnceWhileKept == \A k \in Keys : expired[k] = 0 => made[k] <= 1

\* Nobody is told of a deposit that was not made: not by the request that made it,
\* nor by a retry that finds its key.
AnsweredIsMade == \A k \in answered : made[k] >= 1

\* What a user's withdrawals of a status add up to, and the deposits with a key.
Of(u, status) ==
    SumFunctionOnSet([w \in Withdrawals |-> withdrawals[w].amount],
        {w \in Withdrawals : withdrawals[w].user = u /\ withdrawals[w].status = status})
Deposited(u) ==
    SumFunctionOnSet([k \in Keys |-> made[k] * Deposit[k].amount], {k \in Keys : Deposit[k].user = u})

\* A user who never traded has what was deposited less what was approved, and has
\* reserved exactly what is pending; trading can only take from what is reserved.
BalancesAddUp ==
    \A u \in Users :
        /\ balances[u].reserved <= Of(u, "pending")
        /\ u \notin traded =>
              /\ balances[u].reserved = Of(u, "pending")
              /\ balances[u].available + Of(u, "pending") = Deposited(u) - Of(u, "approved")

\* Two admins who decide at once do not both succeed: a decision stands, and the
\* hold goes with it.
DecidedOnce ==
    [][\A w \in Withdrawals :
          /\ withdrawals[w].status \in {"approved", "rejected"} => withdrawals'[w] = withdrawals[w]
          /\ w \in holds' <=> withdrawals'[w].status = "pending"]_vars

\* What the README says of retries: one that finds its key complete returns the
\* answer that is kept, and does not execute again.
CompleteNotRepeated ==
    [][\A r \in Requests : RecordDeposit(r) => handler[r].claimed # "complete"]_vars

=============================================================================
