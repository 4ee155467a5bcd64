-------------------------------- MODULE Oee --------------------------------
(***************************************************************************)
(* The OEE core (backend/app/oee: stops.py, compute.py, windows.py): time  *)
(* and parts of a window, from stops, counter deltas and gaps.             *)
(*                                                                         *)
(* Instants are whole numbers, seconds say; Never stands for None.  The    *)
(* ratios are quotients of the numbers below and are left out; so is the   *)
(* weight of a part, its theoretical cycle time.                           *)
(***************************************************************************)
EXTENDS Intervals, Counters

CONSTANTS
    LossStates,     \* the states that are losses, in the order they claim time
    MicroStop,      \* micro_stop_s: a shorter stop is a micro-stop
    DayLength,      \* 86 400 s
    Shifts,         \* plan.shifts: a sequence of [start, end] in seconds of the day
    DayStart        \* plan.day_start_s

\* OeeCfg._contiguous: each shift ends when the next one starts.
Contiguous(shifts) ==
    /\ shifts # <<>>
    /\ \A i \in DOMAIN shifts :
          shifts[i].end = shifts[IF i = Len(shifts) THEN 1 ELSE i + 1].start

ASSUME OeeAssumption ==
    /\ LossStates \in Seq(3..7)      \* fault, setup, starved, blocked, manual
    /\ MicroStop \in Nat /\ DayLength \in Nat \ {0}
    /\ Shifts \in Seq([start : 0..(DayLength - 1), end : 0..(DayLength - 1)])
    /\ DayStart \in 0..(DayLength - 1)
    /\ Contiguous(Shifts)

Never == 0

Producing == 1
Planned   == 2
States    == {Producing, Planned} \cup ToSet(LossStates)

-----------------------------------------------------------------------------

\* The end of an open stop is the latest instant known.
StopEnd(stop, until) == IF stop.end # Never THEN stop.end ELSE Larger(until, stop.start)

\* classify_stops: on the whole duration of a stop, wherever a window cuts it.
ClassifyStopsInclusive(stops, until) ==
    {LET end == StopEnd(stop, until)
     IN  [start |-> stop.start, end |-> end, state |-> stop.state,
          kind |-> CASE stop.state = Planned -> "planned"
                     [] stop.state # Planned /\ end - stop.start <= MicroStop -> "micro"
                     [] OTHER -> "loss"] : stop \in stops}
ClassifyStops(stops, until) ==
    {LET end == StopEnd(stop, until)
     IN  [start |-> stop.start, end |-> end, state |-> stop.state,
          kind |-> CASE stop.state = Planned -> "planned"
                     [] stop.state # Planned /\ end - stop.start < MicroStop -> "micro"
                     [] OTHER -> "loss"] : stop \in stops}

\* _overlaps_gap: the interval a delta covers touches a gap.
OverlapsGapAtItsEnd(delta, gaps) ==
    \E gap \in gaps : gap.start < delta.ts /\ (gap.end = Never \/ gap.end > delta.ts)
OverlapsGap(delta, gaps) ==
    /\ delta.prev # Never
    /\ \E gap \in gaps :
          gap.start < delta.ts /\ (gap.end = Never \/ gap.end > delta.prev)

\* The part of a window in which something was observed.
GapIntervals(window, gaps) ==
    Clip({<<gap.start, IF gap.end # Never THEN gap.end ELSE window.end>> : gap \in gaps},
         window.start, window.end)

Observed(window, gaps) == Complement(GapIntervals(window, gaps), window.start, window.end)

SumOf(deltas, Parts(_)) == MapThenSumSet(Parts, deltas)

\* compute_oee.  Each second is claimed once: planned stop, then the losses in
\* their order; what nobody claims is operating time.
ComputeOee(window, stops, deltas, gaps) ==
    LET observed == Observed(window, gaps)
        within(kind, states) ==
            Intersect(Clip({<<stop.start, stop.end>> :
                                stop \in {s \in stops : s.kind = kind /\ s.state \in states}},
                           window.start, window.end),
                      observed)
        planned == within("planned", States)
        claim(acc, state) ==
            LET mine == Subtract(within("loss", {state}), acc.taken)
            IN  [taken  |-> Merge(ToSet(acc.taken) \cup ToSet(mine)),
                 losses |-> Append(acc.losses, Total(mine))]
        claimed == FoldLeft(claim, [taken |-> planned, losses |-> <<>>], LossStates)
        here == {d \in deltas : window.start <= d.ts /\ d.ts < window.end}
        dropped == {d \in here : OverlapsGap(d, gaps)}
    IN  [start     |-> window.start,
         end       |-> window.end,
         gap       |-> Total(GapIntervals(window, gaps)),
         planned   |-> Total(planned),
         losses    |-> claimed.losses,
         micro     |-> Total(Subtract(within("micro", States), claimed.taken)),
         operating |-> Total(Subtract(observed, claimed.taken)),
         good      |-> SumOf(here \ dropped, LAMBDA d : d.good),
         scrap     |-> SumOf(here \ dropped, LAMBDA d : d.scrap),
         dropped   |-> SumOf(dropped, LAMBDA d : d.good + d.scrap)]

\* compute_oee_windows
ComputeOeeWindows(windows, stops, samples, gaps, until) ==
    LET classified == ClassifyStops(stops, until)
        deltas == CounterDeltas(samples)
    IN  {ComputeOee(window, classified, deltas, gaps) : window \in windows}

\* combine: the sum of several windows.
Combine(results) ==
    LET sum(Field(_)) == MapThenSumSet(Field, results)
    IN  [start     |-> Min({r.start : r \in results}),
         end       |-> Max({r.end : r \in results}),
         gap       |-> sum(LAMBDA r : r.gap),
         planned   |-> sum(LAMBDA r : r.planned),
         losses    |-> [i \in DOMAIN LossStates |-> sum(LAMBDA r : r.losses[i])],
         micro     |-> sum(LAMBDA r : r.micro),
         operating |-> sum(LAMBDA r : r.operating),
         good      |-> sum(LAMBDA r : r.good),
         scrap     |-> sum(LAMBDA r : r.scrap),
         dropped   |-> sum(LAMBDA r : r.dropped)]

-----------------------------------------------------------------------------

\* windows.py.  A window is clipped to the range asked for, and left out when
\* nothing of it remains.
ClippedWindows(windows, frm, to) ==
    {w \in {[start |-> Larger(w.start, frm), end |-> Smaller(w.end, to)] : w \in windows} :
        w.end > w.start}

\* The midnights that matter: from the day before the first one to the last.
Days(frm, to) ==
    {day \in ((frm \div DayLength) - 1)..(to \div DayLength) : day * DayLength < to}

ShiftLength(shift) ==
    LET length == (shift.end - shift.start) % DayLength
    IN  IF length = 0 THEN DayLength ELSE length

\* shift_windows: a shift may cross midnight.
ShiftWindowsOfTheDay(frm, to) ==
    ClippedWindows(
        {LET start == day * DayLength + Shifts[i].start
         IN  [start |-> start, end |-> start + ShiftLength(Shifts[i])] :
         day \in Days(frm, to) \ {(frm \div DayLength) - 1}, i \in DOMAIN Shifts}, frm, to)
ShiftWindows(frm, to) ==
    ClippedWindows(
        {LET start == day * DayLength + Shifts[i].start
         IN  [start |-> start, end |-> start + ShiftLength(Shifts[i])] :
         day \in Days(frm, to), i \in DOMAIN Shifts}, frm, to)

\* day_windows: production days.
DayWindows(frm, to) ==
    ClippedWindows(
        {LET start == day * DayLength + DayStart
         IN  [start |-> start, end |-> start + DayLength] : day \in Days(frm, to)}, frm, to)
=============================================================================
