------------------------------ MODULE Watchdog ------------------------------
(***************************************************************************)
(* HeartbeatWatchdog (backend/app/collector/watchdog.py): communication    *)
(* loss seen from the collector, as operations on the comm_gaps table.     *)
(*                                                                         *)
(* Wall-clock time only enters as how long the heartbeat has been silent,  *)
(* kept in ticks and stopped one tick past the timeout.  An operation is   *)
(* [op, start, end]: "open" (OpenGapOp), "close" (CloseGapOp) or "closed"  *)
(* (ClosedGapOp).                                                          *)
(***************************************************************************)
EXTENDS Integers

CONSTANTS
    Jump,         \* jump_s, in simulated time
    Timeout       \* timeout_s, in ticks of wall-clock time

Never == 0

\* __init__: the watchdog of a process that resumes from the database.
NewWatchdogForgettingGap(lastSeen, openGap) ==
    [lastHb    |-> lastSeen,
     silence   |-> 0,
     gapStart  |-> Never,
     checkJump |-> lastSeen # Never]
NewWatchdog(lastSeen, openGap) ==
    [lastHb    |-> lastSeen,             \* _last_hb
     silence   |-> 0,                    \* now - _last_change_wall
     gapStart  |-> openGap,              \* _gap_start
     checkJump |-> lastSeen # Never]     \* _check_jump

\* seed(): the first run ever observes from the oldest initial value on.
Seeded(wd, firstTs) ==
    IF wd.lastHb = Never THEN [wd EXCEPT !.lastHb = firstTs, !.checkJump = TRUE] ELSE wd

\* on_connected()
Connected(wd) == [wd EXCEPT !.silence = 0, !.checkJump = wd.lastHb # Never]

\* on_heartbeat(): a heartbeat is new when its timestamp advances.
IsNew(wd, ts) == ts > wd.lastHb

Jumped(wd, ts) == wd.checkJump /\ wd.lastHb # Never /\ ts - wd.lastHb > Jump

HeartbeatOps(wd, ts) ==
    IF ~IsNew(wd, ts) THEN <<>>
    ELSE IF wd.gapStart # Never
    THEN <<[op |-> "close", start |-> wd.gapStart, end |-> ts]>>
    ELSE IF Jumped(wd, ts)
    THEN <<[op |-> "closed", start |-> wd.lastHb, end |-> ts]>>
    ELSE <<>>

AfterHeartbeat(wd, ts) ==
    IF IsNew(wd, ts)
    THEN [lastHb |-> ts, silence |-> 0, gapStart |-> Never, checkJump |-> FALSE]
    ELSE wd

\* poll(): silent for longer than the timeout.
Silent(wd) == wd.gapStart = Never /\ wd.lastHb # Never /\ wd.silence > Timeout

PollOps(wd) ==
    IF Silent(wd) THEN <<[op |-> "open", start |-> wd.lastHb, end |-> Never]>> ELSE <<>>

AfterPoll(wd) == IF Silent(wd) THEN [wd EXCEPT !.gapStart = wd.lastHb] ELSE wd

\* One tick of wall-clock time.
Quiet(wd) == IF wd.silence > Timeout THEN wd ELSE [wd EXCEPT !.silence = @ + 1]
=============================================================================
