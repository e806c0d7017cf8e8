----------------------------- MODULE TradingFeed -----------------------------
(***************************************************************************)
(* The trading engine's tasks: the connection to the exchange's market     *)
(* data (api/crates/polymarket/src/websocket.rs), the broadcast channel    *)
(* behind it, and the loops that read the channel, generate signals, look  *)
(* for orders to place and watch for the end (api-http/src/                *)
(* trading_engine.rs, shutdown_signal of main.rs).                         *)
(*                                                                         *)
(* initialize drops the handle of the connection when it returns: no       *)
(* command can be sent, so that the branch of subscriptions and close is   *)
(* dead, and the feed task is the only sender of the channel.  A loop      *)
(* reads running and circuit_breaker one after the other; neither comes    *)
(* back (nothing calls reset_daily_stats, or start again), so the two      *)
(* reads are one step.  The execution loop never places an order: every    *)
(* path of a signal ends in continue.                                      *)
(*                                                                         *)
(* Left out: what events say, delays, and the clients' other requests.     *)
(* External: the broadcast channel drops the oldest event when it is full, *)
(* and the receiver is told so once.                                       *)
(***************************************************************************)
EXTENDS Integers

CONSTANTS Backlog   \* capacity of the channel, 1000 in the code

ASSUME FeedAssumption == Backlog \in Nat \ {0}

VARIABLES
    phase,          \* of the engine: new, ready after initialize, started, stopping
    running,        \* running
    tripped,        \* circuit_breaker of analytics' risk manager
    feed,           \* the connection task
    backlog,        \* how many events the receiver has yet to see
    lagged,         \* whether events were dropped since it looked
    loop            \* where each loop is

feedVars == <<phase, running, tripped, feed, backlog, lagged, loop>>
channel == <<feed, backlog, lagged>>

Loops == {"data", "signal", "execution", "monitor"}

FeedInit ==
    /\ phase = "new" /\ running = FALSE /\ tripped = FALSE
    /\ feed = "off" /\ backlog = 0 /\ lagged = FALSE
    /\ loop = [l \in Loops |-> "off"]

\* initialize: the connection task starts.
InitializeEngine ==
    /\ phase = "new" /\ phase' = "ready"
    /\ feed' = "connecting"
    /\ UNCHANGED <<running, tripped, backlog, lagged, loop>>

\* start, and the monitor main starts after it.
StartEngine ==
    /\ phase = "ready" /\ phase' = "started"
    /\ running' = TRUE
    /\ loop' = [l \in Loops |-> "check"]
    /\ UNCHANGED <<tripped, channel>>

\* stop, once the signal came.
StopEngine ==
    /\ phase = "started" /\ phase' = "stopping"
    /\ running' = FALSE
    /\ UNCHANGED <<tripped, channel, loop>>

\* A fill brings a user's daily loss to the limit (module RiskManager).
TripEngine ==
    /\ phase # "new" /\ ~tripped /\ tripped' = TRUE
    /\ UNCHANGED <<phase, running, channel, loop>>

\* connect_async succeeds; it or the connection fails; the retry delay is over.
Connect ==
    /\ feed = "connecting" /\ feed' = "connected"
    /\ UNCHANGED <<phase, running, tripped, backlog, lagged, loop>>

Disconnect ==
    /\ feed \in {"connecting", "connected"} /\ feed' = "waiting"
    /\ UNCHANGED <<phase, running, tripped, backlog, lagged, loop>>

Reconnect ==
    /\ feed = "waiting" /\ feed' = "connecting"
    /\ UNCHANGED <<phase, running, tripped, backlog, lagged, loop>>

\* A close frame: connect_and_run returns, the task ends and drops the sender.
CloseFeed ==
    /\ feed = "connected" /\ feed' = "ended"
    /\ UNCHANGED <<phase, running, tripped, backlog, lagged, loop>>

\* handle_message puts an event on the channel.
SendEvent ==
    /\ feed = "connected"
    /\ IF backlog < Backlog
       THEN backlog' = backlog + 1 /\ UNCHANGED lagged
       ELSE lagged' = TRUE /\ UNCHANGED backlog
    /\ UNCHANGED <<phase, running, tripped, feed, loop>>

OnlyTripped(l) == tripped              \* mutant: the loop does not look at running

\* What makes a loop end when it looks.
MustEnd(l) == ~running \/ tripped

LoopGoto(l, to) == loop' = [loop EXCEPT ![l] = to]

\* The head of a loop: the execution loop cancels the orders before it breaks on the
\* circuit breaker, the others just end.
CheckLoop(l) ==
    /\ loop[l] = "check"
    /\ LoopGoto(l, CASE ~MustEnd(l) -> "work"
                     [] MustEnd(l) /\ l = "execution" /\ running -> "cancel"
                     [] OTHER -> "ended")
    /\ UNCHANGED <<phase, running, tripped, channel>>

\* A tick, a sleep, or a round of signals with its requests to the exchange.
WorkLoop(l) ==
    /\ loop[l] = "work" /\ l # "data" /\ LoopGoto(l, "check")
    /\ UNCHANGED <<phase, running, tripped, channel>>

\* recv: an event, the news that some were dropped, or the end of the channel, which
\* is an error like the other and ends nothing.  Without any of these it waits.
ReceiveEvent ==
    /\ loop["data"] = "work" /\ (lagged \/ backlog > 0 \/ feed = "ended")
    /\ lagged' = FALSE
    /\ backlog' = IF ~lagged /\ backlog > 0 THEN backlog - 1 ELSE backlog
    /\ LoopGoto("data", "check")
    /\ UNCHANGED <<phase, running, tripped, feed>>

\* cancel_all_open_orders: cancel refuses every order, and the loop breaks.
CancelAll ==
    /\ loop["execution"] = "cancel" /\ LoopGoto("execution", "ended")
    /\ UNCHANGED <<phase, running, tripped, channel>>

LoopStep(l) == CheckLoop(l) \/ WorkLoop(l)

FeedNext ==
    \/ InitializeEngine \/ StartEngine \/ StopEngine \/ TripEngine
    \/ Connect \/ Disconnect \/ Reconnect \/ CloseFeed \/ SendEvent
    \/ ReceiveEvent \/ CancelAll \/ \E l \in Loops : LoopStep(l)

\* The runtime runs every task that can run, and timers and requests end.
FeedFairness ==
    /\ \A l \in Loops : WF_feedVars(LoopStep(l))
    /\ WF_feedVars(ReceiveEvent) /\ WF_feedVars(CancelAll)

FeedSpec == FeedInit /\ [][FeedNext]_feedVars /\ FeedFairness

-----------------------------------------------------------------------------
(* Properties.                                                             *)

\* The engine goes through its phases, and the backlog fits its channel.
FeedTypeOK ==
    /\ phase \in {"new", "ready", "started", "stopping"}
    /\ running \in BOOLEAN /\ tripped \in BOOLEAN /\ lagged \in BOOLEAN
    /\ feed \in {"off", "connecting", "connected", "waiting", "ended"}
    /\ backlog \in 0 .. Backlog
    /\ loop \in [Loops -> {"off", "check", "work", "cancel", "ended"}]

\* Once the engine was told to stop, or the circuit breaker tripped, every loop ends,
\* the data loop at least if its feed has ended: however the checks, the events and the
\* connection interleave, none waits on what does not come.  (With a feed that lives
\* and is silent the data loop does wait, and keeps the lock of the stream.)
LoopsEnd ==
    \A l \in Loops :
        loop[l] # "off" /\ (~running \/ tripped) /\ (l = "data" => feed = "ended")
            ~> loop[l] = "ended"

=============================================================================
