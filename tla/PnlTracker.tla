----------------------------- MODULE PnlTracker -----------------------------
(***************************************************************************)
(* The locks of the profit-and-loss tracker (api/crates/analytics/src/     *)
(* pnl.rs): four maps, each behind a lock for many readers or one writer,  *)
(* and calls that take several of them.  A lock serves its waiters in the  *)
(* order in which they asked (tokio's RwLock), and no call is told that it *)
(* waits for itself.                                                       *)
(*                                                                         *)
(* Left out: what the maps hold; every call takes the same locks whatever  *)
(* it finds in them.                                                       *)
(***************************************************************************)
EXTENDS Integers, Sequences

CONSTANTS
    PnlCallers,
    PnlMaxCalls   \* bound: how many calls are made

VARIABLES
    call,         \* each caller's call: the locks it has yet to take, in order
    asked,        \* whether it waits for the first of them
    guards,       \* the locks it holds
    line,         \* who waits for each lock
    calls         \* how many calls were made

pnlVars == <<call, asked, guards, line, calls>>

Locks == {"daily_records", "positions", "user_balances", "historical_performance"}

\* A lock is kept until the call returns, or until the next step of the call.
Lock(name, write, kept) == <<[lock |-> name, write |-> write, kept |-> kept]>>

UpdateBalance == Lock("user_balances", TRUE, FALSE)

GetMarketPnl(kept) == Lock("positions", FALSE, kept)

UpdateDailyRecord == GetMarketPnl(FALSE) \o Lock("daily_records", TRUE, FALSE)

RecordFill(aggressor) ==
    Lock("positions", TRUE, TRUE)
        \o (IF aggressor = "buy" THEN <<>> ELSE UpdateBalance) \o UpdateDailyRecord

UpdatePrices == Lock("positions", TRUE, TRUE)

GetUserPnl == Lock("positions", FALSE, TRUE)

GetDailySummary == Lock("daily_records", FALSE, TRUE)

GetPerformanceMetrics == Lock("historical_performance", FALSE, TRUE)

EndTradingDay ==
    Lock("daily_records", TRUE, TRUE) \o Lock("positions", FALSE, TRUE)
        \o Lock("user_balances", FALSE, TRUE) \o Lock("historical_performance", TRUE, TRUE)

Calls == {UpdatePrices, GetUserPnl, GetMarketPnl(TRUE), GetDailySummary, GetPerformanceMetrics,
          EndTradingDay} \cup {RecordFill(side) : side \in {"buy", "sell"}}

PnlInit ==
    /\ call = [c \in PnlCallers |-> <<>>] /\ asked = [c \in PnlCallers |-> FALSE]
    /\ guards = [c \in PnlCallers |-> {}]
    /\ line = [l \in Locks |-> <<>>]
    /\ calls = 0

\* A caller that has nothing left to take and nothing in hand is not in a call.
Idle(c) == call[c] = <<>> /\ guards[c] = {}

MakeCall(c, program) ==
    /\ Idle(c) /\ calls < PnlMaxCalls /\ calls' = calls + 1
    /\ call' = [call EXCEPT ![c] = program]
    /\ UNCHANGED <<asked, guards, line>>

\* read().await or write().await begins: the guards that were for a moment are gone.
AskLock(c) ==
    /\ call[c] # <<>> /\ ~asked[c]
    /\ asked' = [asked EXCEPT ![c] = TRUE]
    /\ guards' = [guards EXCEPT ![c] = {g \in @ : g.kept}]
    /\ line' = [line EXCEPT ![Head(call[c]).lock] = Append(@, c)]
    /\ UNCHANGED <<call, calls>>

\* Guards of a lock that exclude a request for it, the caller's own included.
Excluding(want) ==
    {g \in UNION {guards[c] : c \in PnlCallers} :
        g.lock = want.lock /\ (g.write \/ want.write)}

TakeLock(c) ==
    LET want == Head(call[c])
    IN /\ asked[c] /\ c = Head(line[want.lock]) /\ Excluding(want) = {}
       /\ line' = [line EXCEPT ![want.lock] = Tail(@)]
       /\ guards' = [guards EXCEPT ![c] = @ \cup {want}]
       /\ asked' = [asked EXCEPT ![c] = FALSE]
       /\ call' = [call EXCEPT ![c] = Tail(@)]
       /\ UNCHANGED calls

\* The call returns.
PnlReturn(c) ==
    /\ call[c] = <<>> /\ guards[c] # {}
    /\ guards' = [guards EXCEPT ![c] = {}]
    /\ UNCHANGED <<call, asked, line, calls>>

PnlStep(c) == AskLock(c) \/ TakeLock(c) \/ PnlReturn(c)

PnlNext == \E c \in PnlCallers : PnlStep(c) \/ \E program \in Calls : MakeCall(c, program)

\* Every task that can go on does.
PnlSpec == PnlInit /\ [][PnlNext]_pnlVars /\ \A c \in PnlCallers : WF_pnlVars(PnlStep(c))

-----------------------------------------------------------------------------
(* Properties.                                                             *)

\* Every call returns, as the test that awaits record_fill and then reads the result
\* expects.
CallsEnd == \A c \in PnlCallers : ~Idle(c) ~> Idle(c)

=============================================================================
