----------------------------- MODULE RateLimiter -----------------------------
(***************************************************************************)
(* The fixed-window rate limiter of the API (middleware/rate_limit.rs):    *)
(* one window per limiter and address, opened by the first request, and a  *)
(* task that removes the windows that are over.  check holds the entry of  *)
(* its key from the first look to the last write, so it is one step.       *)
(*                                                                         *)
(* auth_rate_limit allows 10 in a minute, order_rate_limit 60 in a second; *)
(* a client is an address under one of the two.                            *)
(***************************************************************************)
EXTENDS Integers, Sequences

CONSTANTS
    Clients,    \* addresses, each under one limiter
    Limit,      \* limit
    Period,     \* period, in ticks
    RlMaxTime   \* bound: how many ticks pass

ASSUME RateAssumption == Limit \in Nat \ {0} /\ Period \in Nat \ {0} /\ RlMaxTime \in Nat

VARIABLES
    clock,      \* Instant::now()
    windows,    \* windows: count and window_end, or count 0 where there is no entry
    allowed     \* history: when requests of each client were let through

rlVars == <<clock, windows, allowed>>

NoWindow == [count |-> 0, end |-> 0]

RlInit ==
    /\ clock = 0
    /\ windows = [c \in Clients |-> NoWindow]
    /\ allowed = [c \in Clients |-> <<>>]

RlTick ==
    /\ clock < RlMaxTime /\ clock' = clock + 1
    /\ UNCHANGED <<windows, allowed>>

\* or_insert_with: the window a request finds.
Entry(c) == IF windows[c] = NoWindow THEN [count |-> 0, end |-> clock + Period] ELSE windows[c]

\* check lets a request through: into a new window, or into one with room.
AllowRequest(c) ==
    LET w == Entry(c)
    IN /\ clock > w.end \/ w.count < Limit
       /\ windows' = [windows EXCEPT ![c] =
             IF clock > w.end THEN [count |-> 1, end |-> clock + Period]
             ELSE [w EXCEPT !.count = @ + 1]]
       /\ allowed' = [allowed EXCEPT ![c] = Append(@, clock)]
       /\ UNCHANGED clock

\* check refuses, and the answer is 429.
RefuseRequest(c) ==
    LET w == Entry(c)
    IN clock <= w.end /\ w.count >= Limit /\ UNCHANGED rlVars

SweptEarly(w) == w.end > clock + 1     \* mutant: a window goes a tick before its end

\* What retain keeps.
Kept(w) == w.end > clock

\* The task that drops the windows that are over.
SweepWindows ==
    /\ windows' = [c \in Clients |-> IF Kept(windows[c]) THEN windows[c] ELSE NoWindow]
    /\ UNCHANGED <<clock, allowed>>

RlNext ==
    \/ RlTick
    \/ SweepWindows
    \/ \E c \in Clients : AllowRequest(c) \/ RefuseRequest(c)

RlSpec == RlInit /\ [][RlNext]_rlVars

-----------------------------------------------------------------------------
(* Properties.                                                             *)

\* Windows count up to the limit and end in a period at the latest.
RlTypeOK ==
    /\ clock \in 0 .. RlMaxTime
    /\ windows \in [Clients -> [count : 0 .. Limit, end : 0 .. RlMaxTime + Period]]
    /\ allowed \in [Clients -> Seq(0 .. RlMaxTime)]

\* Whatever the sweeps do, no client gets more than twice its limit through in any
\* time as long as the period: requests a period or more apart are the only ones
\* that a run of 2 * Limit + 1 can hold at its ends.
BurstBound ==
    \A c \in Clients : \A i \in 1 .. Len(allowed[c]) - 2 * Limit :
        allowed[c][i + 2 * Limit] - allowed[c][i] >= Period

=============================================================================
