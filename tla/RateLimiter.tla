---------------------------- MODULE RateLimiter ----------------------------
(***************************************************************************)
(* The sliding windows of serving/limits.py that every request to start a  *)
(* run passes (enforce_rate_limit of api/dependencies.py).                 *)
(*                                                                         *)
(* A request thread reads the clock before it takes the limiter's lock, so *)
(* the limiter may see times out of order.  An action is the section under *)
(* the lock; `moment` is the time its thread read, at most MaxSkew ago.    *)
(***************************************************************************)
EXTENDS Integers, Sequences, FiniteSetsExt

CONSTANTS
    Clients,
    Settings,              \* limits to consider: [hourly, daily], 0 for none
    CLIENT_WINDOW_SECONDS,
    DAILY_WINDOW_SECONDS,
    MaxSkew,               \* timing assumption
    MaxTime                \* bound on the clock

ASSUME SettingsAssumption == Settings \subseteq [hourly: Nat, daily: Nat]
ASSUME TimesAssumption    == /\ CLIENT_WINDOW_SECONDS \in Nat /\ MaxTime \in Nat
                             /\ DAILY_WINDOW_SECONDS \in Nat
                             /\ MaxSkew \in 0..CLIENT_WINDOW_SECONDS
                             /\ CLIENT_WINDOW_SECONDS <= DAILY_WINDOW_SECONDS

VARIABLES
    limit,    \* per_client_hourly and daily_total
    now,      \* the clock
    clients,  \* _clients: each client's timestamps
    global,   \* _global
    admitted, \* history: the true times of each client's admitted runs
    admitted_all, \* history: the true times of all of them
    promise   \* history: when a refused client was told to come back

limiter_vars == <<limit, now, clients, global, admitted, admitted_all, promise>>

NoPromise == [window |-> "none", until |-> 0]

LimiterInit ==
    /\ limit \in Settings
    /\ now = 0
    /\ clients = [c \in Clients |-> <<>>]
    /\ global = <<>>
    /\ admitted = [c \in Clients |-> <<>>]
    /\ admitted_all = <<>>
    /\ promise = [c \in Clients |-> NoPromise]

----------------------------------------------------------------------------
Tick ==
    /\ now < MaxTime
    /\ now' = now + 1
    /\ UNCHANGED <<limit, clients, global, admitted, admitted_all, promise>>

\* The times a thread that has the lock now may have read.
Moments == {moment \in 0..now : now - moment <= MaxSkew}

\* Mutant: a timestamp leaves one second before the window has passed.
_prune_early(stamps, moment, window) ==
    LET fresh == {i \in DOMAIN stamps : moment - stamps[i] < window - 1}
    IN IF fresh = {} THEN <<>> ELSE SubSeq(stamps, Min(fresh), Len(stamps))

\* Timestamps are dropped from the front, up to the first one in the window.
_prune(stamps, moment, window) ==
    LET fresh == {i \in DOMAIN stamps : moment - stamps[i] < window}
    IN IF fresh = {} THEN <<>> ELSE SubSeq(stamps, Min(fresh), Len(stamps))

Day(moment)     == _prune(global, moment, DAILY_WINDOW_SECONDS)
Hour(c, moment) == _prune(clients[c], moment, CLIENT_WINDOW_SECONDS)

DayIsFull(moment)     == limit.daily # 0 /\ Len(Day(moment)) >= limit.daily

HourIsFull(c, moment) == limit.hourly # 0 /\ Len(Hour(c, moment)) >= limit.hourly

\* retry_after_seconds, as the time it names.
Promise(c, window, until) ==
    promise' = [promise EXCEPT ![c] = [window |-> window, until |-> until]]

\* check: three outcomes.
RefuseDay(c, moment) ==
    /\ DayIsFull(moment)
    /\ global' = Day(moment)
    /\ Promise(c, "day", Head(Day(moment)) + DAILY_WINDOW_SECONDS)
    /\ UNCHANGED <<limit, now, clients, admitted, admitted_all>>

\* Mutant: a refused run counts, and pushes the reset away.
RefuseHour_recorded(c, moment) ==
    /\ ~DayIsFull(moment) /\ HourIsFull(c, moment)
    /\ global' = Day(moment)
    /\ clients' = [clients EXCEPT ![c] = Tail(Append(Hour(c, moment), moment))]
    /\ Promise(c, "hour", Head(Hour(c, moment)) + CLIENT_WINDOW_SECONDS)
    /\ UNCHANGED <<limit, now, admitted, admitted_all>>

RefuseHour(c, moment) ==
    /\ ~DayIsFull(moment) /\ HourIsFull(c, moment)
    /\ global' = Day(moment)
    /\ clients' = [clients EXCEPT ![c] = Hour(c, moment)]
    /\ Promise(c, "hour", Head(Hour(c, moment)) + CLIENT_WINDOW_SECONDS)
    /\ UNCHANGED <<limit, now, admitted, admitted_all>>

Admit(c, moment) ==
    /\ ~DayIsFull(moment) /\ ~HourIsFull(c, moment)
    /\ global' = Append(Day(moment), moment)
    /\ clients' = [clients EXCEPT ![c] = Append(Hour(c, moment), moment)]
    /\ admitted' = [admitted EXCEPT ![c] = Append(@, now)]
    /\ admitted_all' = Append(admitted_all, now)
    /\ promise' = [d \in Clients |-> NoPromise]
    /\ UNCHANGED <<limit, now>>

\* remaining prunes both windows as well.
remaining(c, moment) ==
    /\ global' = Day(moment)
    /\ clients' = [clients EXCEPT ![c] = Hour(c, moment)]
    /\ UNCHANGED <<limit, now, admitted, admitted_all, promise>>

LimiterNext ==
    \/ Tick
    \/ \E c \in Clients, moment \in Moments :
          \/ RefuseDay(c, moment) \/ RefuseHour(c, moment)
          \/ Admit(c, moment) \/ remaining(c, moment)

LimiterSpec == LimiterInit /\ [][LimiterNext]_limiter_vars
----------------------------------------------------------------------------
\* How many of these times are less than span ago.
Within(span, times) == Cardinality({i \in DOMAIN times : times[i] > now - span})

\* Although threads may reach the lock out of the order of their times, neither
\* a client nor the service as a whole ever starts more runs than its allowance
\* within a window, less only the time a thread can lose between the clock and
\* the lock.
WindowsRespected ==
    /\ limit.hourly # 0 => \A c \in Clients :
          Within(CLIENT_WINDOW_SECONDS - MaxSkew, admitted[c]) <= limit.hourly
    /\ limit.daily # 0 =>
          Within(DAILY_WINDOW_SECONDS - MaxSkew, admitted_all) <= limit.daily

\* Who comes back when it was told to is not refused for the same reason again,
\* unless a run was admitted since: neither its own retries nor anybody's
\* reading of the allowance push the reset away.
RetryAfterIsKept ==
    \A c \in Clients :
        /\ promise[c].window = "day" => ~DayIsFull(promise[c].until)
        /\ promise[c].window = "hour" => ~HourIsFull(c, promise[c].until)
=============================================================================
