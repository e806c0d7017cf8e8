------------------------- MODULE TransactionManager -------------------------
(***************************************************************************)
(* Transactions of the platform's wallet: Web3Provider.send_transaction,   *)
(* which numbers, signs, sends and awaits one transaction under the lock   *)
(* of the nonce, and TransactionManager, which queues what failed and      *)
(* sends it again (api/crates/blockchain/src).  The calls of contracts.rs  *)
(* use the provider directly and are not repeated.                         *)
(*                                                                         *)
(* External: the chain, which mines the transaction of the next nonce of   *)
(* the wallet, once, and whose node refuses the nonces before.  The nonce  *)
(* of the provider is never ahead of the chain, so at most one transaction *)
(* waits in the node's pool, and a later one for the same nonce may take   *)
(* its place.  Any call to the node may fail, and fail after it was heard. *)
(*                                                                         *)
(* Two requests here are two contents: the queue is keyed by the hash of   *)
(* the content.  Left out: gas (the bump is logged and not applied), the   *)
(* counter of get_and_increment_nonce, which nothing calls, and times: a   *)
(* delay has passed or not.                                                *)
(***************************************************************************)
EXTENDS Integers, Sequences, FiniteSets

CONSTANTS
    TxRequests,
    Managed,       \* the requests made with TransactionManager.submit
    MaxRetries,    \* max_retries
    NoTx

ASSUME TxAssumption == Managed \subseteq TxRequests /\ NoTx \notin TxRequests /\ MaxRetries \in Nat

VARIABLES
    chain,         \* external: the requests mined for this wallet, in order
    pool,          \* external: the one that waits for the next nonce
    nonce,         \* Web3Provider.nonce
    stage,         \* how far each request is
    retries,       \* pending_transactions: retry_count
    locked,        \* whether the retry loop holds the lock of pending_transactions
    round          \* the entries its pass has yet to finish

txVars == <<chain, pool, nonce, stage, retries, locked, round>>
queueVars == <<retries, locked, round>>

Stages == {"new", "estimate", "send", "confirm", "queue", "pending", "done"}
Sending == {"estimate", "send", "confirm"}

TxInit ==
    /\ chain = <<>> /\ pool = NoTx /\ nonce = 0
    /\ stage = [r \in TxRequests |-> "new"]
    /\ retries = [r \in TxRequests |-> 0]
    /\ locked = FALSE /\ round = {}

TxGoto(r, s) == stage' = [stage EXCEPT ![r] = s]

\* submit, or a call of a contract: send_transaction begins, with the gas estimate.
SubmitTx(r) ==
    /\ stage[r] = "new" /\ TxGoto(r, "estimate")
    /\ UNCHANGED <<chain, pool, nonce, queueVars>>

\* The lock of the nonce is free.
TakeNonce(r) ==
    /\ stage[r] = "estimate" /\ \A s \in TxRequests : stage[s] \notin {"send", "confirm"}
    /\ TxGoto(r, "send")
    /\ UNCHANGED <<chain, pool, nonce, queueVars>>

\* What becomes of a request whose send_transaction fails, which frees the nonce: the
\* retry loop counts it and keeps it, submit queues it, and a contract gives up.
Failed(r) ==
    /\ TxGoto(r, IF r \in round THEN "pending" ELSE IF r \in Managed THEN "queue" ELSE "done")
    /\ retries' = [retries EXCEPT ![r] = IF r \in round THEN @ + 1 ELSE @]
    /\ round' = round \ {r}
    /\ UNCHANGED locked

\* send_raw_transaction reaches the node, and the answer arrives or is lost.
Broadcast(r, answered) ==
    /\ stage[r] = "send" /\ nonce = Len(chain)
    /\ pool' = r
    /\ IF answered THEN TxGoto(r, "confirm") /\ UNCHANGED queueVars ELSE Failed(r)
    /\ UNCHANGED <<chain, nonce>>

\* The estimate fails, the node refuses or is not reached, or the confirmation fails.
SendFails(r) ==
    /\ stage[r] \in Sending /\ Failed(r)
    /\ UNCHANGED <<chain, pool, nonce>>

CountedAnyway(r) ==                    \* mutant: a lost confirmation counts
    /\ stage[r] = "confirm"
    /\ nonce' = nonce + 1
    /\ IF nonce < Len(chain) /\ chain[nonce + 1] = r
       THEN TxGoto(r, "done") /\ round' = round \ {r} /\ UNCHANGED <<retries, locked>>
       ELSE Failed(r)
    /\ UNCHANGED <<chain, pool>>

\* The receipt: the nonce counts up only now, and the request is done.
Confirmed(r) ==
    /\ stage[r] = "confirm"
    /\ nonce < Len(chain) /\ chain[nonce + 1] = r
    /\ nonce' = nonce + 1
    /\ TxGoto(r, "done") /\ round' = round \ {r}
    /\ UNCHANGED <<chain, pool, retries, locked>>

\* submit puts the request in pending_transactions, unless a pass holds the lock.
QueueTx(r) ==
    /\ stage[r] = "queue" /\ ~locked
    /\ TxGoto(r, "pending") /\ retries' = [retries EXCEPT ![r] = 0]
    /\ UNCHANGED <<chain, pool, nonce, locked, round>>

\* A tick of the retry loop.
StartRound ==
    /\ ~locked /\ locked' = TRUE
    /\ round' = {r \in TxRequests : stage[r] = "pending"}
    /\ UNCHANGED <<chain, pool, nonce, stage, retries>>

\* The loop comes to an entry: spent, not due yet, or sent again.
VisitTx(r, due) ==
    /\ r \in round /\ \A s \in round : stage[s] \notin Sending
    /\ \/ /\ retries[r] >= MaxRetries
          /\ TxGoto(r, "done") /\ round' = round \ {r}
       \/ /\ retries[r] < MaxRetries /\ ~due
          /\ round' = round \ {r} /\ UNCHANGED stage
       \/ /\ retries[r] < MaxRetries /\ due
          /\ TxGoto(r, "estimate") /\ UNCHANGED round
    /\ UNCHANGED <<chain, pool, nonce, retries, locked>>

EndRound ==
    /\ locked /\ round = {} /\ locked' = FALSE
    /\ UNCHANGED <<chain, pool, nonce, stage, retries, round>>

\* The process stops and starts again: the queue and the calls are gone, and
\* initialize_nonce asks the chain.
TxRestart ==
    /\ nonce' = Len(chain)
    /\ stage' = [r \in TxRequests |-> IF stage[r] = "new" THEN "new" ELSE "done"]
    /\ retries' = [r \in TxRequests |-> 0] /\ locked' = FALSE /\ round' = {}
    /\ UNCHANGED <<chain, pool>>

\* The chain mines the transaction that waits, or its node forgets it.
MineTx ==
    /\ pool # NoTx /\ pool' = NoTx
    /\ chain' = Append(chain, pool)
    /\ UNCHANGED <<nonce, stage, queueVars>>

ForgetTx ==
    /\ pool # NoTx /\ pool' = NoTx
    /\ UNCHANGED <<chain, nonce, stage, queueVars>>

TxNext ==
    \/ \E r \in TxRequests :
          \/ SubmitTx(r) \/ TakeNonce(r) \/ SendFails(r) \/ Confirmed(r) \/ QueueTx(r)
          \/ \E b \in BOOLEAN : Broadcast(r, b) \/ VisitTx(r, b)
    \/ StartRound \/ EndRound \/ TxRestart \/ MineTx \/ ForgetTx

TxSpec == TxInit /\ [][TxNext]_txVars

-----------------------------------------------------------------------------
(* Properties.                                                             *)

\* The provider's nonce is never ahead of the chain's, and the rest has its type.
TxTypeOK ==
    /\ chain \in Seq(TxRequests) /\ pool \in TxRequests \cup {NoTx}
    /\ nonce \in 0 .. Len(chain)
    /\ stage \in [TxRequests -> Stages]
    /\ retries \in [TxRequests -> Nat]
    /\ locked \in BOOLEAN /\ round \subseteq TxRequests

\* However calls fail, retries repeat and the process restarts, no request is executed
\* twice on the chain: as long as one may be sent again, it is sent with the nonce it
\* was mined under, or an earlier one.
ExecutedOnce == \A i, j \in 1 .. Len(chain) : chain[i] = chain[j] => i = j

=============================================================================
