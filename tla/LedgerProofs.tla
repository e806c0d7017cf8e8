---------------------------- MODULE LedgerProofs ----------------------------
(***************************************************************************)
(* Proofs about Ledger, for any users, keys, handlers and withdrawals:     *)
(*   LedgerTyped, KeyMadeOnce, AnswersAreMade, AllAddUp, DecisionsStand.   *)
(*                                                                         *)
(* Until a key expires, the handler that claimed it fresh is the only one  *)
(* to deposit with it, and past its deposit exactly if one was made        *)
(* (KeyKept). A review under way is of a pending withdrawal and the only   *)
(* one of it (ReviewsSound), and the pending withdrawals are those with a  *)
(* hold (HoldsSound). BalancesAddUp needs nothing but these and what       *)
(* SumTheorems says of a sum of which one summand changes.                 *)
(***************************************************************************)
EXTENDS Ledger, SumTheorems

\* Where a handler is past the claim of its key.
AtWork(r, k) == handler[r].pc # "idle" /\ handler[r].key = k
Claimed(r, k) == AtWork(r, k) /\ handler[r].claimed = "fresh"

\* A handler has the key it claimed, and is where what claiming it gave leads.
HandlersSound ==
    \A r \in Requests : handler[r].pc # "idle" =>
        /\ handler[r].key \in Keys
        /\ handler[r].pc = "status" => handler[r].claimed = "taken"
        /\ handler[r].pc = "response" => handler[r].claimed = "complete"
        /\ handler[r].pc \in {"deposit", "complete"} => handler[r].claimed \in {"fresh", "complete"}

\* A key is complete, and a request answered, after a deposit only.
MadeFirst ==
    /\ \A r \in Requests : handler[r].pc = "complete" => made[handler[r].key] >= 1
    /\ \A k \in Keys : keys[k] = "complete" => made[k] >= 1
    /\ AnsweredIsMade

\* Until a key expires: it is taken from the first claim on, one handler at most is
\* at work under the claim, and it has deposited if it is past its deposit; only a
\* retry of a complete key is past the claim besides, and it will be answered.
KeyKept(k) ==
    expired[k] = 0 =>
        /\ keys[k] = None => made[k] = 0 /\ \A r \in Requests : ~AtWork(r, k)
        /\ \A r, s \in Requests : Claimed(r, k) /\ Claimed(s, k) => r = s
        /\ \A r \in Requests : Claimed(r, k) =>
              /\ keys[k] = "processing"
              /\ made[k] = IF handler[r].pc = "complete" THEN 1 ELSE 0
        /\ \A r \in Requests : AtWork(r, k) /\ handler[r].claimed = "complete" =>
              keys[k] = "complete" /\ handler[r].pc = "response"
        /\ made[k] <= 1

\* An open review is of a pending withdrawal, which has no other.
ReviewsSound ==
    \A a \in Admins : review[a] # NoReview =>
        /\ review[a].withdrawal \in Withdrawals
        /\ Pending(review[a].withdrawal)
        /\ \A b \in Admins : review[b].withdrawal = review[a].withdrawal => a = b

\* A hold is kept for the pending withdrawals and no others.
HoldsSound == \A w \in Withdrawals : w \in holds <=> Pending(w)

\* The inductive invariant.
IInv == TypeOK /\ HandlersSound /\ MadeFirst /\ (\A k \in Keys : KeyKept(k))
        /\ ReviewsSound /\ HoldsSound

\* A handler at rest is a handler's state.
LEMMA IdleTyped ==
  /\ Idle \in [pc : {"idle", "status", "response", "deposit", "complete"},
               key : Keys \cup {None}, claimed : {"fresh", "taken", "complete"}]
  /\ Idle.pc = "idle"
  BY DEF Idle

\* What an absent withdrawal has in its fields.
LEMMA AbsentPlain == Absent.user = None /\ Absent.amount = 0 /\ Absent.status = "absent"
  BY DEF Absent

\* What the rows hold.
LEMMA Fields ==
  ASSUME TypeOK
  PROVE  /\ \A u \in Users : /\ balances[u] \in [available : Nat, reserved : Nat]
                             /\ balances[u].available \in Nat /\ balances[u].reserved \in Nat
         /\ \A w \in Withdrawals : /\ withdrawals[w].amount \in Nat
                                   /\ withdrawals[w].status \in Statuses \cup {"absent"}
                                   /\ withdrawals[w].status \in Statuses =>
                                        /\ withdrawals[w] \in [user : Users, amount : Nat, status : Statuses]
                                        /\ withdrawals[w].user \in Users
                                   /\ withdrawals[w].status = "absent" => withdrawals[w] = Absent
         /\ \A k \in Keys : made[k] \in Nat /\ Deposit[k].user \in Users /\ Deposit[k].amount \in Nat
  BY LedgerAssumption, AbsentPlain DEF TypeOK, Statuses

LEMMA InvInit == Init => IInv
<1> SUFFICES ASSUME Init PROVE IInv
  OBVIOUS
<1>1. TypeOK
  <2>1. balances \in [Users -> [available : Nat, reserved : Nat]] /\ made \in [Keys -> Nat]
    BY DEF Init
  <2>2. /\ keys \in [Keys -> {None, "processing", "complete"}]
        /\ handler \in [Requests -> [pc : {"idle", "status", "response", "deposit", "complete"},
                                 key : Keys \cup {None}, claimed : {"fresh", "taken", "complete"}]]
    BY IdleTyped DEF Init
  <2>3. /\ withdrawals \in [Withdrawals -> {Absent} \cup [user : Users, amount : Nat, status : Statuses]]
        /\ review \in [Admins -> [withdrawal : Withdrawals \cup {None}, verdict : {"approved", "rejected"}]]
    BY DEF Init, NoReview
  <2>4. /\ holds \subseteq Withdrawals /\ answered \subseteq Keys /\ traded \subseteq Users
        /\ started \in 0 .. MaxRequests /\ filled \in 0 .. MaxFills /\ expired \in [Keys -> 0 .. MaxExpiries]
    BY LedgerAssumption DEF Init
  <2> QED BY <2>1, <2>2, <2>3, <2>4 DEF TypeOK
<1>2. HandlersSound /\ MadeFirst
  BY IdleTyped, LedgerAssumption DEF Init, HandlersSound, MadeFirst, AnsweredIsMade
<1>3. \A k \in Keys : KeyKept(k)
  BY IdleTyped DEF Init, KeyKept, AtWork, Claimed
<1>4. ReviewsSound /\ HoldsSound
  BY AbsentPlain DEF Init, ReviewsSound, HoldsSound, Pending, NoReview
<1> QED BY <1>1, <1>2, <1>3, <1>4 DEF IInv

\* What the balances' updates keep.
LEMMA BalanceUpdates ==
  ASSUME NEW b \in [available : Nat, reserved : Nat], NEW x \in Nat
  PROVE  /\ Released(b, x) \in [available : Nat, reserved : Nat]
         /\ Released(b, x).available = b.available
         /\ Released(b, x).reserved = IF b.reserved > x THEN b.reserved - x ELSE 0
         /\ Returned(b, x) \in [available : Nat, reserved : Nat]
         /\ Returned(b, x).available = b.available + x
         /\ Returned(b, x).reserved = Released(b, x).reserved
<1> DEFINE left == IF b.reserved > x THEN b.reserved - x ELSE 0
           more == b.available + x
<1>1. left \in Nat /\ more \in Nat
  OBVIOUS
<1>2. Released(b, x) = [b EXCEPT !.reserved = left]
  BY DEF Released
<1>3. Returned(b, x) = [Released(b, x) EXCEPT !.available = Released(b, x).available + x]
  BY DEF Returned
<1> HIDE DEF left
<1>4. /\ Released(b, x) \in [available : Nat, reserved : Nat]
      /\ Released(b, x).available = b.available /\ Released(b, x).reserved = left
  BY <1>1, <1>2
<1>5. Returned(b, x) = [Released(b, x) EXCEPT !.available = more]
  BY <1>3, <1>4
<1> HIDE DEF more
<1>6. /\ Returned(b, x) \in [available : Nat, reserved : Nat]
      /\ Returned(b, x).available = more /\ Returned(b, x).reserved = left
  BY <1>1, <1>4, <1>5
<1> QED BY <1>4, <1>6 DEF left, more

-----------------------------------------------------------------------------
(* Deposits.                                                               *)

\* The states of a handler.
HandlerSet == [pc : {"idle", "status", "response", "deposit", "complete"},
               key : Keys \cup {None}, claimed : {"fresh", "taken", "complete"}]

\* A handler's step changes that handler only: to h, which is a handler's state.
LEMMA Steps ==
  ASSUME TypeOK, NEW r \in Requests, NEW h, h \in HandlerSet, handler' = [handler EXCEPT ![r] = h]
  PROVE  /\ handler' \in [Requests -> HandlerSet]
         /\ \A s \in Requests : handler'[s] = IF s = r THEN h ELSE handler[s]
         /\ handler'[r] = h /\ \A s \in Requests \ {r} : handler'[s] = handler[s]
  BY DEF TypeOK, HandlerSet

\* A handler that goes on to pc, with what claiming gave.
LEMMA Moved ==
  ASSUME NEW r \in Requests, NEW pc, NEW c
  PROVE  /\ [handler EXCEPT ![r].pc = pc] = [handler EXCEPT ![r] = [handler[r] EXCEPT !.pc = pc]]
         /\ [handler EXCEPT ![r].pc = pc, ![r].claimed = c] =
              [handler EXCEPT ![r] = [handler[r] EXCEPT !.pc = pc, !.claimed = c]]
  OBVIOUS

\* The withdrawals' part of the invariant is not the deposits' business.
LEMMA DepositsApart ==
  ASSUME IInv, UNCHANGED withdrawalVars
  PROVE  ReviewsSound' /\ HoldsSound'
  BY DEF IInv, ReviewsSound, HoldsSound, Pending, withdrawalVars

\* A claim that finds no key becomes the one handler at work on it.
LEMMA InvClaim ==
  ASSUME IInv, NEW r \in Requests, NEW k \in Keys, Claim(r, k)
  PROVE  IInv'
<1> DEFINE h == [pc |-> IF Fresh(k) THEN "deposit" ELSE "status", key |-> k,
                 claimed |-> IF Fresh(k) THEN "fresh" ELSE "taken"]
<1>1. /\ TypeOK /\ HandlersSound /\ MadeFirst /\ handler[r].pc = "idle"
      /\ started < MaxRequests /\ started' = started + 1
      /\ UNCHANGED <<balances, made, answered, expired, withdrawalVars, fillVars>>
  BY DEF IInv, Claim, At
<1>2. /\ handler' = [handler EXCEPT ![r] = h]
      /\ keys' = IF Fresh(k) THEN [keys EXCEPT ![k] = "processing"] ELSE keys
  BY DEF Claim, NewStatus
<1>3. h \in HandlerSet /\ h.key = k /\ h.pc = (IF Fresh(k) THEN "deposit" ELSE "status")
      /\ h.claimed = IF Fresh(k) THEN "fresh" ELSE "taken"
  BY DEF HandlerSet
<1> HIDE DEF h
<1>4. /\ handler' \in [Requests -> HandlerSet] /\ handler'[r] = h
      /\ \A s \in Requests \ {r} : handler'[s] = handler[s]
  BY <1>1, <1>2, <1>3, Steps
<1>5. /\ keys' \in [Keys -> {None, "processing", "complete"}]
      /\ keys'[k] = IF Fresh(k) THEN "processing" ELSE keys[k]
      /\ \A j \in Keys \ {k} : keys'[j] = keys[j]
  BY <1>1, <1>2 DEF TypeOK
<1>6. TypeOK'
  BY <1>1, <1>4, <1>5, LedgerAssumption DEF TypeOK, HandlerSet, withdrawalVars, fillVars
<1>7. HandlersSound' /\ MadeFirst'
  BY <1>1, <1>3, <1>4, <1>5 DEF HandlersSound, MadeFirst, AnsweredIsMade, Fresh
<1>8. ASSUME NEW j \in Keys PROVE KeyKept(j)'
  <2>1. KeyKept(j) /\ expired'[j] = expired[j] /\ made'[j] = made[j]
    BY <1>1 DEF IInv
  <2>2. CASE j # k
    BY <1>1, <1>3, <1>4, <1>5, <2>1, <2>2 DEF KeyKept, AtWork, Claimed
  <2>3. CASE j = k /\ ~Fresh(k)
    BY <1>1, <1>3, <1>4, <1>5, <2>1, <2>3 DEF KeyKept, AtWork, Claimed, Fresh
  <2>4. CASE j = k /\ Fresh(k)
    BY <1>1, <1>3, <1>4, <1>5, <2>1, <2>4, LedgerAssumption DEF KeyKept, AtWork, Claimed, Fresh
  <2> QED BY <2>2, <2>3, <2>4
<1> QED BY <1>1, <1>6, <1>7, <1>8, DepositsApart DEF IInv

\* A handler goes on, or returns, and changes neither keys nor what was deposited.
LEMMA InvOnward ==
  ASSUME IInv, NEW r \in Requests, NEW h \in HandlerSet, handler' = [handler EXCEPT ![r] = h],
         UNCHANGED <<balances, keys, made, answered, started, expired, withdrawalVars, fillVars>>,
         \/ h.pc = "idle"
         \/ /\ handler[r].pc = "status" /\ keys[handler[r].key] = "complete"
            /\ h.pc = "response" /\ h.key = handler[r].key /\ h.claimed = "complete"
         \/ /\ handler[r].pc = "response" /\ keys[handler[r].key] # "complete"
            /\ h.pc = "deposit" /\ h.key = handler[r].key /\ h.claimed = handler[r].claimed
  PROVE  IInv'
<1>1. TypeOK /\ HandlersSound /\ MadeFirst
  BY DEF IInv
<1>2. /\ handler' \in [Requests -> HandlerSet] /\ handler'[r] = h
      /\ \A s \in Requests \ {r} : handler'[s] = handler[s]
  BY <1>1, Steps
<1>3. TypeOK'
  BY <1>1, <1>2 DEF TypeOK, HandlerSet, withdrawalVars, fillVars
<1>4. HandlersSound' /\ MadeFirst'
  BY <1>1, <1>2 DEF HandlersSound, MadeFirst, AnsweredIsMade
<1>5. ASSUME NEW k \in Keys PROVE KeyKept(k)'
  <2>1. KeyKept(k) /\ UNCHANGED <<expired, made, keys>>
    BY DEF IInv
  <2>2. CASE h.pc = "idle"
    BY <1>2, <2>1, <2>2 DEF KeyKept, AtWork, Claimed
  <2>3. CASE h.pc # "idle"
    BY <1>1, <1>2, <2>1, <2>3 DEF KeyKept, AtWork, Claimed, HandlersSound
  <2> QED BY <2>2, <2>3
<1> QED BY <1>3, <1>4, <1>5, DepositsApart DEF IInv

LEMMA InvReadStatus == ASSUME IInv, NEW r \in Requests, ReadStatus(r) PROVE IInv'
<1>1. handler[r] \in HandlerSet
  BY DEF IInv, TypeOK, HandlerSet
<1>2. CASE keys[handler[r].key] = "complete"
  <2> DEFINE h == [handler[r] EXCEPT !.pc = "response", !.claimed = "complete"]
  <2>1. h \in HandlerSet /\ h.pc = "response" /\ h.key = handler[r].key /\ h.claimed = "complete"
    BY <1>1 DEF HandlerSet
  <2>2. handler' = [handler EXCEPT ![r] = h]
    <3>1. handler \in [Requests -> HandlerSet]
      BY DEF IInv, TypeOK, HandlerSet
    <3>2. handler' = [handler EXCEPT ![r].pc = "response", ![r].claimed = "complete"]
      BY <1>2 DEF ReadStatus
    <3> QED BY <3>1, <3>2, Moved
  <2> HIDE DEF h
  <2> QED BY <1>2, <2>1, <2>2, InvOnward DEF ReadStatus, At
<1>3. CASE keys[handler[r].key] # "complete"
  BY <1>3, IdleTyped, InvOnward DEF ReadStatus, At, Return, HandlerSet
<1> QED BY <1>2, <1>3

\* A retry that finds no stored answer makes the deposit: its key had expired.
LEMMA InvReadResponse == ASSUME IInv, NEW r \in Requests, ReadResponse(r) PROVE IInv'
<1> DEFINE k == handler[r].key
<1>1. /\ handler[r] \in HandlerSet /\ handler[r].pc = "response" /\ k \in Keys /\ handler \in [Requests -> HandlerSet]
      /\ UNCHANGED <<balances, keys, made, started, expired, withdrawalVars, fillVars>>
  BY DEF IInv, TypeOK, HandlerSet, HandlersSound, ReadResponse, At
<1>2. CASE keys[k] # "complete"
  <2> DEFINE h == [handler[r] EXCEPT !.pc = "deposit"]
  <2>1. h \in HandlerSet /\ h.pc = "deposit" /\ h.key = handler[r].key /\ h.claimed = handler[r].claimed
    BY <1>1 DEF HandlerSet
  <2>2. handler' = [handler EXCEPT ![r] = h] /\ answered' = answered
    <3>1. handler' = [handler EXCEPT ![r].pc = "deposit"] /\ answered' = answered
      BY <1>2 DEF ReadResponse, Goto
    <3> QED BY <1>1, <3>1, Moved
  <2> HIDE DEF h
  <2> QED BY <1>1, <1>2, <2>1, <2>2, InvOnward
<1>3. CASE keys[k] = "complete"
  <2>1. TypeOK /\ HandlersSound /\ MadeFirst /\ answered' = answered \cup {k}
        /\ handler' = [handler EXCEPT ![r] = Idle] /\ Idle \in HandlerSet /\ Idle.pc = "idle"
    BY <1>3, IdleTyped DEF IInv, ReadResponse, Return, HandlerSet
  <2>2. /\ handler' \in [Requests -> HandlerSet] /\ handler'[r] = Idle
        /\ \A s \in Requests \ {r} : handler'[s] = handler[s]
    BY <2>1, Steps
  <2>3. TypeOK'
    BY <1>1, <2>1, <2>2 DEF TypeOK, HandlerSet, withdrawalVars, fillVars
  <2>4. HandlersSound' /\ MadeFirst'
    BY <1>1, <1>3, <2>1, <2>2 DEF HandlersSound, MadeFirst, AnsweredIsMade
  <2>5. ASSUME NEW j \in Keys PROVE KeyKept(j)'
    BY <1>1, <2>1, <2>2 DEF IInv, KeyKept, AtWork, Claimed
  <2> QED BY <1>1, <2>3, <2>4, <2>5, DepositsApart DEF IInv
<1> QED BY <1>2, <1>3

\* The deposit of a key that has not expired is its first.
LEMMA InvRecordDeposit == ASSUME IInv, NEW r \in Requests, RecordDeposit(r) PROVE IInv'
<1> DEFINE k == handler[r].key
           d == Deposit[k]
           h == [handler[r] EXCEPT !.pc = "complete"]
<1>1. /\ TypeOK /\ HandlersSound /\ MadeFirst /\ handler[r].pc = "deposit" /\ k \in Keys
      /\ handler[r] \in HandlerSet /\ handler \in [Requests -> HandlerSet]
      /\ made' = [made EXCEPT ![k] = @ + 1]
      /\ UNCHANGED <<keys, answered, started, expired, withdrawalVars, fillVars>>
  BY DEF IInv, TypeOK, HandlerSet, HandlersSound, RecordDeposit, At
<1>2. handler' = [handler EXCEPT ![r] = h] /\ h \in HandlerSet
  <2>1. handler' = [handler EXCEPT ![r].pc = "complete"]
    BY DEF RecordDeposit, Goto
  <2>2. h \in HandlerSet
    BY <1>1 DEF HandlerSet
  <2> QED BY <1>1, <2>1, <2>2, Moved
<1>3. h.pc = "complete" /\ h.key = k /\ h.claimed = handler[r].claimed
  BY <1>1 DEF HandlerSet
<1>4. /\ balances' \in [Users -> [available : Nat, reserved : Nat]]
      /\ made' \in [Keys -> Nat] /\ made'[k] = made[k] + 1 /\ \A j \in Keys \ {k} : made'[j] = made[j]
  <2>1. d.user \in Users /\ d.amount \in Nat
    BY <1>1, Fields
  <2>2. balances' = [balances EXCEPT ![d.user].available = @ + d.amount]
    BY DEF RecordDeposit
  <2> HIDE DEF d
  <2>3. balances' \in [Users -> [available : Nat, reserved : Nat]]
    BY <1>1, <2>1, <2>2 DEF TypeOK
  <2> QED BY <1>1, <2>3 DEF TypeOK
<1> HIDE DEF h, k
<1>5. /\ handler' \in [Requests -> HandlerSet] /\ handler'[r] = h
      /\ \A s \in Requests \ {r} : handler'[s] = handler[s]
  BY <1>1, <1>2, Steps
<1>6. TypeOK'
  BY <1>1, <1>4, <1>5 DEF TypeOK, HandlerSet, withdrawalVars, fillVars
<1>7. HandlersSound'
  BY <1>1, <1>3, <1>5 DEF HandlersSound, k
<1>8. MadeFirst'
  <2>1. \A j \in Keys : made[j] \in Nat /\ made'[j] >= made[j] /\ made'[k] >= 1
    BY <1>1, <1>4, Fields
  <2>2. \A s \in Requests : handler'[s].pc = "complete" => made'[handler'[s].key] >= 1
    BY <1>1, <1>3, <1>5, <2>1 DEF MadeFirst, HandlersSound, k, TypeOK
  <2>3. \A j \in Keys : keys'[j] = "complete" => made'[j] >= 1
    BY <1>1, <1>4, <2>1 DEF MadeFirst
  <2>4. AnsweredIsMade'
    BY <1>1, <1>4, <2>1 DEF MadeFirst, AnsweredIsMade, TypeOK
  <2> QED BY <2>2, <2>3, <2>4 DEF MadeFirst
<1>9. ASSUME NEW j \in Keys PROVE KeyKept(j)'
  <2>1. KeyKept(j) /\ UNCHANGED <<expired, keys>> /\ made[j] \in Nat
    BY <1>1, Fields DEF IInv
  <2>2. CASE j # k
    BY <1>1, <1>3, <1>4, <1>5, <2>1, <2>2 DEF KeyKept, AtWork, Claimed, k
  <2>3. CASE j = k
    <3> SUFFICES ASSUME expired[j] = 0 PROVE KeyKept(j)'
      BY <2>1 DEF KeyKept
    <3>1. AtWork(r, j)
      BY <1>1, <2>3 DEF AtWork, k
    <3>2. Claimed(r, j)
      BY <1>1, <2>1, <3>1 DEF KeyKept, Claimed, HandlersSound
    <3>3. keys[j] = "processing" /\ made[j] = 0 /\ \A s \in Requests : Claimed(s, j) => s = r
      BY <1>1, <2>1, <3>2 DEF KeyKept
    <3>4. made'[j] = 1 /\ keys'[j] = "processing" /\ keys'[j] # None
      BY <1>1, <1>4, <2>3, <3>3, LedgerAssumption
    <3>5. \A s \in Requests : (AtWork(s, j)' <=> AtWork(s, j)) /\ (Claimed(s, j)' <=> Claimed(s, j))
      BY <1>1, <1>3, <1>5, <2>3 DEF AtWork, Claimed, k
    <3>6. \A s \in Requests : AtWork(s, j)' => handler'[s].claimed # "complete"
      BY <1>5, <1>3, <2>1, <3>1, <3>2, <3>3, <3>5 DEF KeyKept, AtWork, Claimed
    <3> QED BY <1>3, <1>5, <3>2, <3>3, <3>4, <3>5, <3>6 DEF KeyKept
  <2> QED BY <2>2, <2>3
<1> QED BY <1>1, <1>6, <1>7, <1>8, <1>9, DepositsApart DEF IInv

\* A key is complete, and its request answered, after the deposit.
LEMMA InvCompleteKey == ASSUME IInv, NEW r \in Requests, CompleteKey(r) PROVE IInv'
<1> DEFINE k == handler[r].key
<1>1. /\ TypeOK /\ HandlersSound /\ MadeFirst /\ handler[r].pc = "complete" /\ k \in Keys
      /\ handler' = [handler EXCEPT ![r] = Idle] /\ Idle \in HandlerSet /\ Idle.pc = "idle"
      /\ answered' = answered \cup {k}
      /\ UNCHANGED <<balances, made, started, expired, withdrawalVars, fillVars>>
  BY IdleTyped DEF IInv, TypeOK, HandlerSet, HandlersSound, CompleteKey, At, Return
<1>2. /\ handler' \in [Requests -> HandlerSet] /\ handler'[r] = Idle
      /\ \A s \in Requests \ {r} : handler'[s] = handler[s]
  BY <1>1, Steps
<1>3. /\ keys' \in [Keys -> {None, "processing", "complete"}]
      /\ keys'[k] = IF Fresh(k) THEN None ELSE "complete"
      /\ \A j \in Keys \ {k} : keys'[j] = keys[j]
  BY <1>1 DEF CompleteKey, TypeOK
<1> HIDE DEF k
<1>4. TypeOK'
  BY <1>1, <1>2, <1>3 DEF TypeOK, HandlerSet, withdrawalVars, fillVars
<1>5. HandlersSound' /\ MadeFirst'
  BY <1>1, <1>2, <1>3 DEF HandlersSound, MadeFirst, AnsweredIsMade, k
<1>6. ASSUME NEW j \in Keys PROVE KeyKept(j)'
  <2>1. KeyKept(j) /\ UNCHANGED <<expired, made>>
    BY <1>1 DEF IInv
  <2>2. CASE j # k
    BY <1>1, <1>2, <1>3, <2>1, <2>2 DEF KeyKept, AtWork, Claimed
  <2>3. CASE j = k
    <3> SUFFICES ASSUME expired[j] = 0 PROVE KeyKept(j)'
      BY <2>1 DEF KeyKept
    <3>1. Claimed(r, j)
      BY <1>1, <2>1, <2>3 DEF KeyKept, Claimed, HandlersSound, AtWork, k
    <3>2. keys[j] = "processing" /\ made[j] = 1 /\ \A s \in Requests : Claimed(s, j) => s = r
      BY <1>1, <2>1, <3>1 DEF KeyKept
    <3>3. keys'[j] = "complete" /\ keys'[j] # None
      BY <1>3, <2>3, <3>2, LedgerAssumption DEF Fresh
    <3>4. \A s \in Requests : ~Claimed(s, j)'
      BY <1>1, <1>2, <3>2 DEF Claimed, AtWork
    <3>5. \A s \in Requests : AtWork(s, j)' /\ handler'[s].claimed = "complete" => handler'[s].pc = "response"
      BY <1>1, <1>2, <2>1 DEF AtWork, KeyKept
    <3> QED BY <2>1, <3>2, <3>3, <3>4, <3>5 DEF KeyKept
  <2> QED BY <2>2, <2>3
<1> QED BY <1>1, <1>4, <1>5, <1>6, DepositsApart DEF IInv

\* An expired key promises nothing any more.
LEMMA InvExpire == ASSUME IInv, NEW k \in Keys, Expire(k) PROVE IInv'
<1>1. /\ TypeOK /\ HandlersSound /\ MadeFirst
      /\ keys' = [keys EXCEPT ![k] = None] /\ expired' = [expired EXCEPT ![k] = @ + 1] /\ expired[k] < MaxExpiries
      /\ UNCHANGED <<balances, handler, made, answered, started, withdrawalVars, fillVars>>
  BY DEF IInv, Expire
<1>2. /\ TypeOK' /\ expired'[k] # 0 /\ keys'[k] = None
      /\ \A j \in Keys \ {k} : expired'[j] = expired[j] /\ keys'[j] = keys[j]
  <2>1. /\ expired' \in [Keys -> 0 .. MaxExpiries] /\ expired'[k] # 0
        /\ \A j \in Keys \ {k} : expired'[j] = expired[j]
    BY <1>1, LedgerAssumption DEF TypeOK
  <2>2. /\ keys' \in [Keys -> {None, "processing", "complete"}] /\ keys'[k] = None
        /\ \A j \in Keys \ {k} : keys'[j] = keys[j]
    BY <1>1 DEF TypeOK
  <2> QED BY <1>1, <2>1, <2>2 DEF TypeOK, withdrawalVars, fillVars
<1>3. HandlersSound' /\ MadeFirst'
  BY <1>1, <1>2, LedgerAssumption DEF HandlersSound, MadeFirst, AnsweredIsMade
<1>4. ASSUME NEW j \in Keys PROVE KeyKept(j)'
  BY <1>1, <1>2 DEF IInv, KeyKept, AtWork, Claimed
<1> QED BY <1>1, <1>2, <1>3, <1>4, DepositsApart DEF IInv

\* A request that goes away leaves its key as it is.
LEMMA InvDrop == ASSUME IInv, NEW r \in Requests, Drop(r) PROVE IInv'
  BY IdleTyped, InvOnward DEF Drop, Return, HandlerSet

-----------------------------------------------------------------------------
(* Withdrawals and fills.                                                  *)

\* The deposits' part of the invariant is not the withdrawals' business.
LEMMA WithdrawalsApart ==
  ASSUME IInv, UNCHANGED keyVars
  PROVE  HandlersSound' /\ MadeFirst' /\ \A k \in Keys : KeyKept(k)'
<1>1. HandlersSound' /\ MadeFirst'
  BY DEF IInv, keyVars, HandlersSound, MadeFirst, AnsweredIsMade
<1>2. ASSUME NEW k \in Keys PROVE KeyKept(k)'
  BY DEF IInv, keyVars, KeyKept, AtWork, Claimed
<1> QED BY <1>1, <1>2

\* What a withdrawal's row may become.
LEMMA Rows ==
  ASSUME TypeOK, NEW w \in Withdrawals, NEW row \in [user : Users, amount : Nat, status : Statuses],
         withdrawals' = [withdrawals EXCEPT ![w] = row]
  PROVE  /\ withdrawals' \in [Withdrawals -> {Absent} \cup [user : Users, amount : Nat, status : Statuses]]
         /\ withdrawals'[w] = row /\ \A v \in Withdrawals \ {w} : withdrawals'[v] = withdrawals[v]
  BY DEF TypeOK

\* A request for a withdrawal reserves its amount and holds it.
LEMMA InvRequest ==
  ASSUME IInv, NEW w \in Withdrawals, NEW u \in Users, NEW x \in 1 .. MaxAmount, RequestWithdrawal(w, u, x)
  PROVE  /\ IInv'
         /\ withdrawals[w].status = "absent"
         /\ withdrawals'[w].user = u /\ withdrawals'[w].amount = x /\ withdrawals'[w].status = "pending"
         /\ \A v \in Withdrawals \ {w} : withdrawals'[v] = withdrawals[v]
         /\ x \in Nat /\ balances'[u].available = balances[u].available - x
         /\ balances'[u].reserved = balances[u].reserved + x
         /\ \A v \in Users \ {u} : balances'[v] = balances[v]
<1> DEFINE row == [user |-> u, amount |-> x, status |-> "pending"]
           b == [balances[u] EXCEPT !.available = @ - x, !.reserved = @ + x]
<1>1. /\ TypeOK /\ ReviewsSound /\ HoldsSound /\ withdrawals[w] = Absent /\ balances[u].available >= x
      /\ withdrawals' = [withdrawals EXCEPT ![w] = row] /\ holds' = holds \cup {w}
      /\ UNCHANGED <<review, keyVars, fillVars>>
  BY DEF IInv, RequestWithdrawal, Affords
<1>2. x \in Nat /\ row \in [user : Users, amount : Nat, status : Statuses]
  BY LedgerAssumption DEF Statuses
<1>3. /\ withdrawals' \in [Withdrawals -> {Absent} \cup [user : Users, amount : Nat, status : Statuses]]
      /\ withdrawals'[w] = row /\ \A v \in Withdrawals \ {w} : withdrawals'[v] = withdrawals[v]
  BY <1>1, <1>2, Rows
<1>4. /\ balances' = [balances EXCEPT ![u] = b]
      /\ b \in [available : Nat, reserved : Nat]
      /\ b.available = balances[u].available - x /\ b.reserved = balances[u].reserved + x
  <2>1. balances' = [balances EXCEPT ![u].available = @ - x, ![u].reserved = @ + x]
    BY DEF RequestWithdrawal
  <2>2. balances' = [balances EXCEPT ![u] = b]
    BY <2>1
  <2>3. /\ balances[u] \in [available : Nat, reserved : Nat]
        /\ balances[u].available - x \in Nat /\ balances[u].reserved + x \in Nat
    BY <1>1, <1>2, Fields
  <2> DEFINE less == balances[u].available - x
             more == balances[u].reserved + x
  <2>4. b = [balances[u] EXCEPT !.available = less, !.reserved = more]
    OBVIOUS
  <2> HIDE DEF less, more, b
  <2>5. b \in [available : Nat, reserved : Nat] /\ b.available = less /\ b.reserved = more
    BY <2>3, <2>4 DEF less, more
  <2> QED BY <2>2, <2>5 DEF less, more
<1>5. row.user = u /\ row.amount = x /\ row.status = "pending"
  OBVIOUS
<1> HIDE DEF row, b
<1>6. /\ balances' \in [Users -> [available : Nat, reserved : Nat]]
      /\ balances'[u] = b /\ \A v \in Users \ {u} : balances'[v] = balances[v]
  BY <1>1, <1>4 DEF TypeOK
<1>7. TypeOK'
  BY <1>1, <1>3, <1>6 DEF TypeOK, keyVars, fillVars
<1>8. \A v \in Withdrawals : Pending(v)' <=> v = w \/ Pending(v)
  BY <1>3, <1>5 DEF Pending
<1>9. ReviewsSound' /\ HoldsSound'
  BY <1>1, <1>8 DEF ReviewsSound, HoldsSound
<1> QED BY <1>1, <1>2, <1>3, <1>4, <1>5, <1>6, <1>7, <1>9, WithdrawalsApart, AbsentPlain DEF IInv

\* A review starts on a pending withdrawal that no other review has locked.
LEMMA InvStartReview ==
  ASSUME IInv, NEW a \in Admins, NEW w \in Withdrawals, NEW verdict \in Statuses \ {"pending"},
         StartReview(a, w, verdict)
  PROVE  IInv'
<1>1. /\ TypeOK /\ ReviewsSound /\ HoldsSound /\ Pending(w)
      /\ \A c \in Admins : review[c].withdrawal # w
      /\ review' = [review EXCEPT ![a] = [withdrawal |-> w, verdict |-> verdict]]
      /\ UNCHANGED <<balances, withdrawals, holds, keyVars, fillVars>>
  BY DEF IInv, StartReview
<1>2. /\ review' \in [Admins -> [withdrawal : Withdrawals \cup {None}, verdict : {"approved", "rejected"}]]
      /\ review'[a].withdrawal = w /\ \A c \in Admins \ {a} : review'[c] = review[c]
  BY <1>1 DEF TypeOK, Statuses
<1>3. TypeOK'
  BY <1>1, <1>2 DEF TypeOK, keyVars, fillVars
<1>4. ReviewsSound' /\ HoldsSound'
  BY <1>1, <1>2 DEF ReviewsSound, HoldsSound, Pending
<1> QED BY <1>1, <1>3, <1>4, WithdrawalsApart DEF IInv

\* A review that fails leaves its withdrawal pending.
LEMMA InvFailReview == ASSUME IInv, NEW a \in Admins, FailReview(a) PROVE IInv'
<1>1. /\ TypeOK /\ ReviewsSound /\ HoldsSound /\ review[a] # NoReview
      /\ review' = [review EXCEPT ![a] = NoReview]
      /\ UNCHANGED <<balances, withdrawals, holds, keyVars, fillVars>>
  BY DEF IInv, FailReview
<1>2. /\ NoReview \in [withdrawal : Withdrawals \cup {None}, verdict : {"approved", "rejected"}]
      /\ NoReview.withdrawal \notin Withdrawals
  BY LedgerAssumption DEF NoReview
<1>3. /\ review' \in [Admins -> [withdrawal : Withdrawals \cup {None}, verdict : {"approved", "rejected"}]]
      /\ review'[a] = NoReview /\ \A c \in Admins \ {a} : review'[c] = review[c]
  BY <1>1, <1>2 DEF TypeOK
<1>4. TypeOK'
  BY <1>1, <1>3 DEF TypeOK, keyVars, fillVars
<1>5. ReviewsSound' /\ HoldsSound'
  BY <1>1, <1>2, <1>3 DEF ReviewsSound, HoldsSound, Pending
<1> QED BY <1>1, <1>4, <1>5, WithdrawalsApart DEF IInv

\* A review of u's withdrawal w of x ends.
Finished(w, u, x) ==
    /\ Pending(w) /\ withdrawals[w].user = u /\ withdrawals[w].amount = x
    /\ withdrawals'[w].user = u /\ withdrawals'[w].amount = x
    /\ withdrawals'[w].status \in {"approved", "rejected"}
    /\ \A v \in Withdrawals \ {w} : withdrawals'[v] = withdrawals[v]
    /\ balances'[u].reserved = IF balances[u].reserved > x THEN balances[u].reserved - x ELSE 0
    /\ balances'[u].available = balances[u].available + IF withdrawals'[w].status = "approved" THEN 0 ELSE x
    /\ \A v \in Users \ {u} : balances'[v] = balances[v]

\* A finished review decides its withdrawal and gives up the hold.
LEMMA InvFinishReview ==
  ASSUME IInv, NEW a \in Admins, FinishReview(a)
  PROVE  /\ IInv'
         /\ \E w \in Withdrawals, u \in Users, x \in Nat : Finished(w, u, x)
<1> DEFINE w == review[a].withdrawal
           verdict == review[a].verdict
           x == withdrawals[w].amount
           u == withdrawals[w].user
           row == [withdrawals[w] EXCEPT !.status = verdict]
           b == IF verdict = "approved" THEN Released(balances[u], x) ELSE Returned(balances[u], x)
<1>1. /\ TypeOK /\ ReviewsSound /\ HoldsSound /\ review[a] # NoReview
      /\ holds' = holds \ {w} /\ review' = [review EXCEPT ![a] = NoReview]
      /\ UNCHANGED <<keyVars, fillVars>>
  BY DEF IInv, FinishReview
<1>2. /\ w \in Withdrawals /\ Pending(w) /\ verdict \in {"approved", "rejected"}
      /\ \A c \in Admins : review[c].withdrawal = w => a = c
  BY <1>1 DEF ReviewsSound, TypeOK
<1>3. withdrawals[w] \in [user : Users, amount : Nat, status : Statuses] /\ x \in Nat /\ u \in Users
  BY <1>1, <1>2, Fields DEF Pending, Statuses
<1>4. withdrawals' = [withdrawals EXCEPT ![w] = row] /\ balances' = [balances EXCEPT ![u] = b]
  BY DEF FinishReview
<1>5. /\ row \in [user : Users, amount : Nat, status : Statuses]
      /\ row.user = u /\ row.amount = x /\ row.status = verdict
  BY <1>2, <1>3 DEF Statuses
<1>6. /\ b \in [available : Nat, reserved : Nat]
      /\ b.available = balances[u].available + IF verdict = "approved" THEN 0 ELSE x
      /\ b.reserved = IF balances[u].reserved > x THEN balances[u].reserved - x ELSE 0
  <2>1. /\ balances[u] \in [available : Nat, reserved : Nat]
        /\ balances[u].available \in Nat /\ x \in Nat
    BY <1>1, <1>3, Fields
  <2> HIDE DEF u, x
  <2>2. /\ Released(balances[u], x) \in [available : Nat, reserved : Nat]
        /\ Returned(balances[u], x) \in [available : Nat, reserved : Nat]
        /\ Released(balances[u], x).available = balances[u].available
        /\ Returned(balances[u], x).available = balances[u].available + x
        /\ Released(balances[u], x).reserved =
              IF balances[u].reserved > x THEN balances[u].reserved - x ELSE 0
        /\ Returned(balances[u], x).reserved =
              IF balances[u].reserved > x THEN balances[u].reserved - x ELSE 0
    BY <2>1, BalanceUpdates
  <2> HIDE DEF verdict
  <2>3. CASE verdict = "approved"
    <3>1. b = Released(balances[u], x)
      BY <2>3
    <3> HIDE DEF b
    <3>2. balances[u].available + (IF verdict = "approved" THEN 0 ELSE x) = balances[u].available
      BY <2>1, <2>3
    <3> QED BY <2>2, <3>1, <3>2
  <2>4. CASE verdict # "approved"
    <3>1. b = Returned(balances[u], x)
      BY <2>4
    <3> HIDE DEF b
    <3>2. (IF verdict = "approved" THEN 0 ELSE x) = x
      BY <2>4
    <3> QED BY <2>2, <3>1, <3>2
  <2> QED BY <2>3, <2>4
<1> HIDE DEF row, b, u, x, w, verdict
<1>7. /\ withdrawals' \in [Withdrawals -> {Absent} \cup [user : Users, amount : Nat, status : Statuses]]
      /\ withdrawals'[w] = row /\ \A v \in Withdrawals \ {w} : withdrawals'[v] = withdrawals[v]
  BY <1>1, <1>2, <1>4, <1>5, Rows
<1>8. /\ balances' \in [Users -> [available : Nat, reserved : Nat]]
      /\ balances'[u] = b /\ \A v \in Users \ {u} : balances'[v] = balances[v]
  BY <1>1, <1>3, <1>4, <1>6 DEF TypeOK
<1>9. /\ NoReview \in [withdrawal : Withdrawals \cup {None}, verdict : {"approved", "rejected"}]
      /\ NoReview.withdrawal \notin Withdrawals
  BY LedgerAssumption DEF NoReview
<1>10. /\ review' \in [Admins -> [withdrawal : Withdrawals \cup {None}, verdict : {"approved", "rejected"}]]
       /\ review'[a] = NoReview /\ \A c \in Admins \ {a} : review'[c] = review[c]
  BY <1>1, <1>9 DEF TypeOK
<1>11. TypeOK'
  BY <1>1, <1>7, <1>8, <1>10 DEF TypeOK, keyVars, fillVars
<1>12. \A v \in Withdrawals : Pending(v)' <=> v # w /\ Pending(v)
  BY <1>2, <1>5, <1>7 DEF Pending
<1>13. ReviewsSound' /\ HoldsSound'
  BY <1>1, <1>2, <1>9, <1>10, <1>12 DEF ReviewsSound, HoldsSound
<1>14. IInv'
  BY <1>1, <1>11, <1>13, WithdrawalsApart DEF IInv
<1>15. Finished(w, u, x)
  BY <1>2, <1>3, <1>5, <1>6, <1>7, <1>8 DEF Finished, x, u
<1> QED BY <1>2, <1>3, <1>14, <1>15

\* A fill moves money between users and concerns neither keys nor withdrawals.
LEMMA InvApplyFill ==
  ASSUME IInv, NEW buyer \in Users, NEW seller \in Users, NEW cost \in 1 .. MaxAmount,
         ApplyFill(buyer, seller, cost)
  PROVE  /\ IInv'
         /\ \A u \in Users : /\ balances'[u].reserved <= balances[u].reserved
                             /\ u \notin {buyer, seller} => balances'[u] = balances[u]
<1> DEFINE bought == [balances EXCEPT ![buyer] = Released(balances[buyer], cost)]
<1>1. /\ TypeOK /\ cost \in Nat /\ filled < MaxFills /\ UNCHANGED <<keyVars, withdrawalVars>>
      /\ balances' = [bought EXCEPT ![seller] = Returned(bought[seller], cost)]
      /\ traded' = traded \cup {buyer, seller} /\ filled' = filled + 1
  BY LedgerAssumption DEF IInv, ApplyFill
<1>2. /\ Released(balances[buyer], cost) \in [available : Nat, reserved : Nat]
      /\ Released(balances[buyer], cost).reserved <= balances[buyer].reserved
  <2> DEFINE b == balances[buyer]
  <2>1. b \in [available : Nat, reserved : Nat] /\ b.reserved \in Nat
    BY <1>1, Fields
  <2> HIDE DEF b
  <2>2. /\ Released(b, cost) \in [available : Nat, reserved : Nat]
        /\ Released(b, cost).reserved = IF b.reserved > cost THEN b.reserved - cost ELSE 0
    BY <1>1, <2>1, BalanceUpdates
  <2>3. Released(b, cost).reserved <= b.reserved
    BY <1>1, <2>1, <2>2
  <2> QED BY <2>2, <2>3 DEF b
<1>3. /\ bought \in [Users -> [available : Nat, reserved : Nat]]
      /\ \A u \in Users : /\ bought[u].reserved <= balances[u].reserved
                          /\ u # buyer => bought[u] = balances[u]
  <2>1. bought \in [Users -> [available : Nat, reserved : Nat]] /\ bought[buyer] = Released(balances[buyer], cost)
        /\ \A u \in Users \ {buyer} : bought[u] = balances[u]
    BY <1>1, <1>2 DEF TypeOK
  <2> HIDE DEF bought
  <2> QED BY <1>1, <1>2, <2>1, Fields
<1> HIDE DEF bought
<1>4. \A u \in Users : /\ bought[u] \in [available : Nat, reserved : Nat]
                       /\ bought[u].reserved \in Nat
  BY <1>3
<1>5. /\ Returned(bought[seller], cost) \in [available : Nat, reserved : Nat]
      /\ Returned(bought[seller], cost).reserved <= bought[seller].reserved
  BY <1>1, <1>4, BalanceUpdates
<1>6. /\ balances' \in [Users -> [available : Nat, reserved : Nat]]
      /\ balances'[seller] = Returned(bought[seller], cost)
      /\ \A u \in Users \ {seller} : balances'[u] = bought[u]
  BY <1>1, <1>3, <1>5
<1>7. \A u \in Users : /\ balances'[u].reserved <= balances[u].reserved
                       /\ u \notin {buyer, seller} => balances'[u] = balances[u]
  <2>1. \A u \in Users : balances[u].reserved \in Nat /\ balances'[u].reserved \in Nat
    BY <1>1, <1>6, Fields
  <2> QED BY <1>3, <1>4, <1>5, <1>6, <2>1
<1>8. TypeOK'
  <2>1. filled' \in 0 .. MaxFills /\ traded' \subseteq Users
    BY <1>1, LedgerAssumption DEF TypeOK
  <2> QED BY <1>1, <1>6, <2>1 DEF TypeOK, keyVars, withdrawalVars
<1>9. IInv'
  BY <1>1, <1>8, WithdrawalsApart, DepositsApart DEF IInv
<1> QED BY <1>7, <1>9

\* Every step keeps the invariant.
LEMMA InvNext == IInv /\ [Next]_vars => IInv'
<1> SUFFICES ASSUME IInv, [Next]_vars PROVE IInv'
  OBVIOUS
<1>1. ASSUME NEW r \in Requests, NEW k \in Keys, Claim(r, k) PROVE IInv'
  BY <1>1, InvClaim
<1>2. ASSUME NEW r \in Requests,
             ReadStatus(r) \/ ReadResponse(r) \/ RecordDeposit(r) \/ CompleteKey(r) \/ Drop(r)
      PROVE IInv'
  BY <1>2, InvReadStatus, InvReadResponse, InvRecordDeposit, InvCompleteKey, InvDrop
<1>3. ASSUME NEW k \in Keys, Expire(k) PROVE IInv'
  BY <1>3, InvExpire
<1>4. ASSUME NEW w \in Withdrawals, NEW u \in Users, NEW x \in 1 .. MaxAmount, RequestWithdrawal(w, u, x)
      PROVE IInv'
  BY <1>4, InvRequest
<1>5. ASSUME NEW a \in Admins, NEW w \in Withdrawals, NEW verdict \in Statuses \ {"pending"},
             StartReview(a, w, verdict)
      PROVE IInv'
  BY <1>5, InvStartReview
<1>6. ASSUME NEW a \in Admins, FinishReview(a) \/ FailReview(a) PROVE IInv'
  BY <1>6, InvFinishReview, InvFailReview
<1>7. ASSUME NEW buyer \in Users, NEW seller \in Users, NEW cost \in 1 .. MaxAmount,
             ApplyFill(buyer, seller, cost)
      PROVE IInv'
  BY <1>7, InvApplyFill
<1>8. CASE UNCHANGED vars
  <2>1. TypeOK' /\ UNCHANGED <<keyVars, withdrawalVars>>
    BY <1>8 DEF IInv, TypeOK, vars, keyVars, withdrawalVars, fillVars
  <2> QED BY <2>1, DepositsApart, WithdrawalsApart DEF IInv
<1> QED BY <1>1, <1>2, <1>3, <1>4, <1>5, <1>6, <1>7, <1>8 DEF Next

-----------------------------------------------------------------------------
(* The balances.                                                           *)

\* What a user's withdrawals of a status amount to is a natural number.
LEMMA Amounts ==
  ASSUME TypeOK, NEW u \in Users, NEW s \in Statuses
  PROVE  Of(u, s) \in Nat
<1> DEFINE f == [w \in Withdrawals |-> withdrawals[w].amount]
           S == {w \in Withdrawals : withdrawals[w].user = u /\ withdrawals[w].status = s}
<1>1. IsFiniteSet(S)
  BY LedgerAssumption, FS_Subset
<1>2. \A w \in S : f[w] \in Nat
  BY Fields
<1>3. Of(u, s) = SumFunctionOnSet(f, S)
  BY DEF Of
<1> HIDE DEF f, S
<1> QED BY <1>1, <1>2, <1>3, SumType

\* The same, as a formula to be primed.
AmountsOK == \A u \in Users, s \in Statuses : Of(u, s) \in Nat

\* The same of the next state.
LEMMA AmountsNext == TypeOK' => \A u \in Users, s \in Statuses : Of(u, s)' \in Nat
<1>1. TypeOK => AmountsOK
  BY Amounts DEF AmountsOK
<1>2. TypeOK' => AmountsOK'
  BY <1>1, PTL
<1> QED BY <1>2 DEF AmountsOK

\* What a step that changes one withdrawal does to what a user's withdrawals add up to.
LEMMA OfChanges ==
  ASSUME TypeOK, TypeOK', NEW w \in Withdrawals,
         \A v \in Withdrawals \ {w} : withdrawals'[v] = withdrawals[v],
         NEW u \in Users, NEW s \in Statuses
  PROVE  Of(u, s)' = Of(u, s)
           + (IF withdrawals'[w].user = u /\ withdrawals'[w].status = s THEN withdrawals'[w].amount ELSE 0)
           - (IF withdrawals[w].user = u /\ withdrawals[w].status = s THEN withdrawals[w].amount ELSE 0)
<1> DEFINE f == [v \in Withdrawals |-> withdrawals[v].amount]
           g == [v \in Withdrawals |-> withdrawals'[v].amount]
           S == {v \in Withdrawals : withdrawals[v].user = u /\ withdrawals[v].status = s}
           R == {v \in Withdrawals : withdrawals'[v].user = u /\ withdrawals'[v].status = s}
<1>1. IsFiniteSet(S) /\ S \ {w} = R \ {w}
  BY LedgerAssumption, FS_Subset
<1>2. \A v \in Withdrawals : withdrawals[v].amount \in Nat
  BY Fields
<1>3. \A v \in Withdrawals : withdrawals'[v].amount \in Nat
  BY LedgerAssumption, AbsentPlain DEF TypeOK
<1>4. /\ \A v \in S : f[v] \in Int
      /\ \A v \in R : g[v] \in Int
      /\ \A v \in S \ {w} : f[v] = g[v]
  BY <1>2, <1>3
<1>5. Of(u, s) = SumFunctionOnSet(f, S) /\ Of(u, s)' = SumFunctionOnSet(g, R)
  BY DEF Of
<1>6. /\ w \in R <=> withdrawals'[w].user = u /\ withdrawals'[w].status = s
      /\ w \in S <=> withdrawals[w].user = u /\ withdrawals[w].status = s
      /\ g[w] = withdrawals'[w].amount /\ f[w] = withdrawals[w].amount
  OBVIOUS
<1> HIDE DEF f, g, R, S
<1>7. SumFunctionOnSet(g, R) = SumFunctionOnSet(f, S) + (IF w \in R THEN g[w] ELSE 0)
                                                     - (IF w \in S THEN f[w] ELSE 0)
  BY <1>1, <1>4, SumDiffer
<1> QED BY <1>5, <1>6, <1>7

\* A deposit with a key adds its amount to what its user deposited.
LEMMA DepositedChanges ==
  ASSUME TypeOK, NEW k \in Keys, made' = [made EXCEPT ![k] = @ + 1], NEW u \in Users
  PROVE  /\ Deposited(u) \in Int
         /\ Deposited(u)' = Deposited(u) + IF Deposit[k].user = u THEN Deposit[k].amount ELSE 0
<1> DEFINE f == [j \in Keys |-> made[j] * Deposit[j].amount]
           g == [j \in Keys |-> made'[j] * Deposit[j].amount]
           S == {j \in Keys : Deposit[j].user = u}
<1>1. IsFiniteSet(S)
  BY LedgerAssumption, FS_Subset
<1>2. /\ \A j \in Keys : made[j] \in Nat /\ Deposit[j].amount \in Nat /\ made'[j] \in Nat
      /\ made'[k] = made[k] + 1 /\ \A j \in Keys \ {k} : made'[j] = made[j]
  BY Fields DEF TypeOK
<1>3. \A m, n \in Nat : m * n \in Nat /\ (m + 1) * n = m * n + n
  OBVIOUS
<1>4. /\ \A j \in S : f[j] \in Int /\ g[j] \in Int
      /\ \A j \in S \ {k} : f[j] = g[j]
      /\ g[k] = f[k] + Deposit[k].amount
  BY <1>2, <1>3
<1>5. Deposited(u) = SumFunctionOnSet(f, S) /\ Deposited(u)' = SumFunctionOnSet(g, S)
  BY DEF Deposited
<1>6. (k \in S <=> Deposit[k].user = u) /\ f[k] \in Int /\ Deposit[k].amount \in Nat
  BY <1>2, <1>3
<1> HIDE DEF f, g, S
<1>7. SumFunctionOnSet(g, S) = SumFunctionOnSet(f, S) + (IF k \in S THEN g[k] ELSE 0)
                                                     - (IF k \in S THEN f[k] ELSE 0)
  BY <1>1, <1>4, SumDiffer
<1>8. SumFunctionOnSet(f, S) \in Int
  <2>1. Int \in {Nat, Int} /\ \A j \in S : f[j] \in Int
    BY <1>4
  <2> QED BY <1>1, <2>1, SumType
<1> QED BY <1>4, <1>5, <1>6, <1>7, <1>8

\* What a user deposited is a natural number.
LEMMA DepositedTyped ==
  ASSUME TypeOK, NEW u \in Users
  PROVE  Deposited(u) \in Int
<1> DEFINE f == [j \in Keys |-> made[j] * Deposit[j].amount]
           S == {j \in Keys : Deposit[j].user = u}
<1>1. IsFiniteSet(S) /\ Int \in {Nat, Int}
  BY LedgerAssumption, FS_Subset
<1>2. \A j \in Keys : made[j] \in Nat /\ Deposit[j].amount \in Nat
  BY Fields
<1>3. \A m, n \in Nat : m * n \in Int
  OBVIOUS
<1>4. \A j \in S : f[j] \in Int
  BY <1>2, <1>3
<1>5. Deposited(u) = SumFunctionOnSet(f, S)
  BY DEF Deposited
<1> HIDE DEF f, S
<1> QED BY <1>1, <1>4, <1>5, SumType

\* At first there is nothing to add up.
LEMMA AddUpInit == Init => BalancesAddUp
<1> SUFFICES ASSUME Init, NEW u \in Users
             PROVE  /\ balances[u].reserved = 0 /\ balances[u].available = 0
                    /\ Of(u, "pending") = 0 /\ Of(u, "approved") = 0 /\ Deposited(u) = 0
  BY DEF BalancesAddUp
<1>1. balances[u].reserved = 0 /\ balances[u].available = 0
  BY DEF Init
<1>2. Of(u, "pending") = 0 /\ Of(u, "approved") = 0
  <2>1. {w \in Withdrawals : withdrawals[w].user = u /\ withdrawals[w].status = "pending"} = {}
    BY AbsentPlain DEF Init
  <2>2. {w \in Withdrawals : withdrawals[w].user = u /\ withdrawals[w].status = "approved"} = {}
    BY AbsentPlain DEF Init
  <2> QED BY <2>1, <2>2, SumEmpty DEF Of
<1>3. Deposited(u) = 0
  <2> DEFINE f == [k \in Keys |-> made[k] * Deposit[k].amount]
             S == {k \in Keys : Deposit[k].user = u}
  <2>1. IsFiniteSet(S)
    BY LedgerAssumption, FS_Subset
  <2>2. \A k \in S : f[k] = 0
    BY LedgerAssumption DEF Init
  <2>3. Deposited(u) = SumFunctionOnSet(f, S)
    BY DEF Deposited
  <2> HIDE DEF f, S
  <2> QED BY <2>1, <2>2, <2>3, SumZero
<1> QED BY <1>1, <1>2, <1>3

\* Every step that moves money books it in a deposit, a withdrawal or a fill.
LEMMA AddUpNext == IInv /\ BalancesAddUp /\ [Next]_vars => BalancesAddUp'
<1> SUFFICES ASSUME IInv, BalancesAddUp, [Next]_vars PROVE BalancesAddUp'
  OBVIOUS
<1>1. TypeOK /\ TypeOK' /\ {"pending", "approved"} \subseteq Statuses
  BY InvNext DEF IInv, Statuses
<1>2. \A u \in Users : /\ Of(u, "pending") \in Nat /\ Of(u, "approved") \in Nat
                       /\ balances[u].available \in Nat /\ balances[u].reserved \in Nat
  BY <1>1, Amounts, Fields
<1>3. \A u \in Users : Of(u, "pending")' \in Nat /\ Of(u, "approved")' \in Nat
  BY <1>1, AmountsNext
<1>4. ASSUME UNCHANGED withdrawals PROVE \A u \in Users, s \in Statuses : Of(u, s)' = Of(u, s)
  BY <1>4 DEF Of
<1>5. ASSUME UNCHANGED made PROVE \A u \in Users : Deposited(u)' = Deposited(u)
  BY <1>5 DEF Deposited
<1>6. CASE UNCHANGED <<balances, withdrawals, made, traded>>
  BY <1>1, <1>4, <1>5, <1>6 DEF BalancesAddUp
<1>7. ASSUME NEW r \in Requests, RecordDeposit(r) PROVE BalancesAddUp'
  <2> DEFINE k == handler[r].key
             d == Deposit[k]
  <2>1. /\ k \in Keys /\ made' = [made EXCEPT ![k] = @ + 1] /\ UNCHANGED <<withdrawals, traded>>
        /\ balances' = [balances EXCEPT ![d.user].available = @ + d.amount]
    BY <1>7 DEF IInv, HandlersSound, RecordDeposit, At, withdrawalVars, fillVars
  <2>2. d.user \in Users /\ d.amount \in Nat
    BY <1>1, <2>1, Fields
  <2> HIDE DEF k
  <2>3. \A u \in Users : /\ Deposited(u) \in Int
                         /\ Deposited(u)' = Deposited(u) + IF d.user = u THEN d.amount ELSE 0
    BY <1>1, <2>1, DepositedChanges
  <2> HIDE DEF d
  <2>4. \A u \in Users : /\ balances'[u].reserved = balances[u].reserved
                         /\ balances'[u].available = balances[u].available + IF d.user = u THEN d.amount ELSE 0
    BY <1>1, <2>1, <2>2 DEF TypeOK
  <2> QED BY <1>1, <1>2, <1>4, <2>1, <2>2, <2>3, <2>4 DEF BalancesAddUp
<1>8. ASSUME NEW w \in Withdrawals, NEW u \in Users, NEW x \in 1 .. MaxAmount, RequestWithdrawal(w, u, x)
      PROVE BalancesAddUp'
  <2>1. UNCHANGED <<made, traded>>
    BY <1>8 DEF RequestWithdrawal, keyVars, fillVars
  <2>2. /\ withdrawals[w].status = "absent"
        /\ withdrawals'[w].user = u /\ withdrawals'[w].amount = x /\ withdrawals'[w].status = "pending"
        /\ \A v \in Withdrawals \ {w} : withdrawals'[v] = withdrawals[v]
        /\ x \in Nat /\ balances'[u].available = balances[u].available - x
        /\ balances'[u].reserved = balances[u].reserved + x
        /\ \A v \in Users \ {u} : balances'[v] = balances[v]
    BY <1>8, InvRequest
  <2>3. \A v \in Users : /\ Of(v, "pending")' = Of(v, "pending") + IF v = u THEN x ELSE 0
                         /\ Of(v, "approved")' = Of(v, "approved")
    BY <1>1, <1>2, <2>2, OfChanges
  <2> QED BY <1>1, <1>2, <1>5, <2>1, <2>2, <2>3, DepositedTyped DEF BalancesAddUp
<1>9. ASSUME NEW a \in Admins, FinishReview(a) PROVE BalancesAddUp'
  <2>1. UNCHANGED <<made, traded>>
    BY <1>9 DEF FinishReview, keyVars, fillVars
  <2>2. PICK w \in Withdrawals, u \in Users, x \in Nat : Finished(w, u, x)
    BY <1>9, InvFinishReview
  <2> DEFINE approved == withdrawals'[w].status = "approved"
  <2>3. \A v \in Users : /\ Of(v, "pending")' = Of(v, "pending") - IF v = u THEN x ELSE 0
                         /\ Of(v, "approved")' = Of(v, "approved") + IF v = u /\ approved THEN x ELSE 0
    BY <1>1, <1>2, <2>2, OfChanges DEF Pending, Finished
  <2>4. /\ balances'[u].reserved = IF balances[u].reserved > x THEN balances[u].reserved - x ELSE 0
        /\ balances'[u].available = balances[u].available + IF approved THEN 0 ELSE x
        /\ \A v \in Users \ {u} : balances'[v] = balances[v]
    BY <2>2 DEF Finished
  <2> HIDE DEF approved
  <2>5. ASSUME NEW v \in Users, v # u
        PROVE  /\ balances'[v] = balances[v] /\ Of(v, "pending")' = Of(v, "pending")
               /\ Of(v, "approved")' = Of(v, "approved")
    BY <1>2, <2>3, <2>4, <2>5
  <2>6. /\ Of(u, "pending")' = Of(u, "pending") - x
        /\ Of(u, "approved")' = Of(u, "approved") + IF approved THEN x ELSE 0
        /\ Of(u, "pending")' \in Nat
    BY <1>3, <2>3, <2>4
  <2>7. /\ Of(u, "pending") \in Nat /\ Of(u, "approved") \in Nat /\ Deposited(u) \in Int
        /\ balances[u].available \in Nat /\ balances[u].reserved \in Nat
        /\ balances[u].reserved <= Of(u, "pending")
        /\ u \notin traded =>
             /\ balances[u].reserved = Of(u, "pending")
             /\ balances[u].available + Of(u, "pending") = Deposited(u) - Of(u, "approved")
    BY <1>1, <1>2, <2>4, DepositedTyped DEF BalancesAddUp
  <2>8. /\ balances'[u].reserved <= Of(u, "pending")'
        /\ u \notin traded =>
             /\ balances'[u].reserved = Of(u, "pending")'
             /\ balances'[u].available + Of(u, "pending")' = Deposited(u) - Of(u, "approved")'
    BY <2>4, <2>6, <2>7
  <2> QED BY <1>5, <2>1, <2>5, <2>8 DEF BalancesAddUp
<1>10. ASSUME NEW buyer \in Users, NEW seller \in Users, NEW cost \in 1 .. MaxAmount,
              ApplyFill(buyer, seller, cost)
       PROVE  BalancesAddUp'
  <2>1. UNCHANGED <<made, withdrawals>> /\ traded' = traded \cup {buyer, seller}
    BY <1>10 DEF ApplyFill, keyVars, withdrawalVars
  <2>2. \A u \in Users : /\ balances'[u].reserved <= balances[u].reserved
                         /\ u \notin {buyer, seller} => balances'[u] = balances[u]
    BY <1>10, InvApplyFill
  <2>3. \A u \in Users : balances'[u].reserved \in Nat
    BY <1>1 DEF TypeOK
  <2> QED BY <1>1, <1>2, <1>4, <1>5, <2>1, <2>2, <2>3 DEF BalancesAddUp
<1>11. CASE UNCHANGED vars
  BY <1>6, <1>11 DEF vars, keyVars, withdrawalVars, fillVars
<1>12. CASE \/ \E r \in Requests, k \in Keys : Claim(r, k)
            \/ \E r \in Requests : ReadStatus(r) \/ ReadResponse(r) \/ CompleteKey(r) \/ Drop(r)
            \/ \E k \in Keys : Expire(k)
            \/ \E a \in Admins, w \in Withdrawals, verdict \in Statuses \ {"pending"} :
                  StartReview(a, w, verdict)
            \/ \E a \in Admins : FailReview(a)
  <2>1. UNCHANGED <<balances, withdrawals, made, traded>>
    BY <1>12 DEF Claim, ReadStatus, ReadResponse, CompleteKey, Drop, Expire, StartReview, FailReview,
                 keyVars, withdrawalVars, fillVars
  <2> QED BY <1>6, <2>1
<1> QED BY <1>7, <1>8, <1>9, <1>10, <1>11, <1>12 DEF Next

-----------------------------------------------------------------------------
(* The theorems.                                                           *)

\* The invariant always holds.
LEMMA SpecInv == Spec => []IInv
<1>1. Init => IInv
  BY InvInit
<1>2. IInv /\ [Next]_vars => IInv'
  BY InvNext
<1> QED BY <1>1, <1>2, PTL DEF Spec

\* Every variable keeps its type, and no balance goes below zero.
THEOREM LedgerTyped == Spec => []TypeOK
<1>1. IInv => TypeOK
  BY DEF IInv
<1> QED BY <1>1, SpecInv, PTL

\* At most one deposit is made with a key before it expires, however often and
\* however concurrently its request is retried: the insert of the key is the claim.
THEOREM KeyMadeOnce == Spec => []OnceWhileKept
<1>1. IInv => OnceWhileKept
  BY DEF IInv, KeyKept, OnceWhileKept
<1> QED BY <1>1, SpecInv, PTL

\* A request is answered with success only if a deposit with its key was made.
THEOREM AnswersAreMade == Spec => []AnsweredIsMade
<1>1. IInv => AnsweredIsMade
  BY DEF IInv, MadeFirst
<1> QED BY <1>1, SpecInv, PTL

\* Whatever retries, admins and fills interleave: a user who never traded has what was
\* deposited less what was approved, and has reserved what is pending.
THEOREM AllAddUp == Spec => []BalancesAddUp
<1>1. Init => IInv /\ BalancesAddUp
  BY InvInit, AddUpInit
<1>2. IInv /\ BalancesAddUp /\ [Next]_vars => (IInv /\ BalancesAddUp)'
  BY InvNext, AddUpNext
<1> QED BY <1>1, <1>2, PTL DEF Spec

\* A decided withdrawal does not change, and its hold is kept while it is pending.
THEOREM DecisionsStand == Spec => DecidedOnce
<1>1. ASSUME IInv, IInv', [Next]_vars
      PROVE  [\A w \in Withdrawals :
                /\ withdrawals[w].status \in {"approved", "rejected"} => withdrawals'[w] = withdrawals[w]
                /\ w \in holds' <=> withdrawals'[w].status = "pending"]_vars
  <2>1. ASSUME NEW w \in Withdrawals PROVE w \in holds' <=> withdrawals'[w].status = "pending"
    BY <1>1 DEF IInv, HoldsSound, Pending
  <2>2. ASSUME NEW w \in Withdrawals, withdrawals[w].status \in {"approved", "rejected"}
        PROVE  withdrawals'[w] = withdrawals[w]
    <3>1. CASE UNCHANGED withdrawals
      BY <3>1
    <3>2. ASSUME NEW v \in Withdrawals, NEW u \in Users, NEW x \in 1 .. MaxAmount, RequestWithdrawal(v, u, x)
          PROVE  withdrawals'[w] = withdrawals[w]
      BY <1>1, <2>2, <3>2, InvRequest
    <3>3. ASSUME NEW a \in Admins, FinishReview(a) PROVE withdrawals'[w] = withdrawals[w]
      BY <1>1, <2>2, <3>3, InvFinishReview DEF Pending, Finished
    <3> QED BY <1>1, <3>1, <3>2, <3>3
            DEF Next, Claim, ReadStatus, ReadResponse, RecordDeposit, CompleteKey, Drop, Expire,
                StartReview, FailReview, ApplyFill, vars, withdrawalVars
  <2> QED BY <2>1, <2>2
<1>2. Spec => []IInv /\ [][Next]_vars
  BY SpecInv DEF Spec
<1> QED BY <1>1, <1>2, PTL DEF DecidedOnce

=============================================================================
