-------------------------------- MODULE Cell --------------------------------
(***************************************************************************)
(* The simulated cell and the engine that drives it (cell_sim/cell.py,     *)
(* engine.py, shifts.py, wear.py): a machine of timed events.              *)
(*                                                                         *)
(* A cell is a record; each handler is an operator from the cell to the    *)
(* cell.  What the code draws at random is a parameter (draws).  An epoch  *)
(* is only ever compared with the current one, so an event carries whether *)
(* its epoch is still current.  Left out: the tags themselves, the good    *)
(* and scrap counters and the weld currents, which steer nothing; codes of *)
(* faults but for the weld fault 201; blocked, which is starved by another *)
(* name.                                                                   *)
(***************************************************************************)
EXTENDS Integers, SequencesExt

CONSTANTS
    PointsPerPart,      \* weld.points_per_part
    ConsecutiveNok,     \* weld.fault_201.consecutive_nok_parts
    DressingThresholds, \* what _threshold may return for a tip dressing, in parts
    CapThresholds,      \* and for a cap change
    SetupDuration,      \* how long either takes
    ShiftLength,        \* from a break to the next one
    BreakOffset,        \* planned_break.offset_h
    BreakLength,        \* planned_break.duration_min
    HeartbeatPeriod     \* 1 s

ASSUME CellAssumption ==
    /\ {PointsPerPart, ConsecutiveNok, SetupDuration, BreakLength, HeartbeatPeriod}
          \subseteq Nat \ {0}
    /\ DressingThresholds \cup CapThresholds \subseteq Nat \ {0}
    /\ BreakOffset \in Nat
    /\ ShiftLength \in Nat /\ BreakLength < ShiftLength

Never == -1
None  == "none"

Interrupted == {"fault", "starved"}

-----------------------------------------------------------------------------

\* The planned breaks: one in each shift.  Shifts are equally long here and
\* longer than a break, as in config.yaml (three of eight hours, a break of
\* 20 minutes); the configuration only requires that they cover the day.
\* next_window: the first break that has not ended yet.
Break(k) == [start |-> k * ShiftLength + BreakOffset,
             end   |-> k * ShiftLength + BreakOffset + BreakLength]

NextWindow(after) == Break(((after - BreakOffset - BreakLength) \div ShiftLength) + 1)

-----------------------------------------------------------------------------

\* Engine.schedule: the heap keeps events in the order they were scheduled;
\* arg is what the handler is told.
ScheduleIn(c, delay, kind, arg) ==
    [c EXCEPT !.heap = Append(c.heap,
        [at |-> c.now + delay, kind |-> kind, arg |-> arg, current |-> TRUE])]

\* The next event: the earliest, and of those the one scheduled first.
NextEvent(c) ==
    CHOOSE i \in DOMAIN c.heap :
        \A j \in DOMAIN c.heap :
            c.heap[i].at < c.heap[j].at \/ (c.heap[i].at = c.heap[j].at /\ i <= j)

NextEventTime(c) == c.heap[NextEvent(c)].at

\* The kinds of events that carry an epoch.
OfAState == {"slot_end", "interrupt", "stop_end"}

\* _enter: whatever was scheduled for the state that is left is void, and the
\* slot in progress is frozen.
EnterForgettingSlot(c, state) ==
    [c EXCEPT
        !.state = state,
        !.slotEnd = Never,
        !.heap = [i \in DOMAIN c.heap |->
                    [c.heap[i] EXCEPT !.current = @ /\ c.heap[i].kind \notin OfAState]]]
Enter(c, state) ==
    [c EXCEPT
        !.state = state,
        !.slotRemaining = IF c.slotEnd # Never THEN c.slotEnd - c.now ELSE @,
        !.slotEnd = Never,
        !.heap = [i \in DOMAIN c.heap |->
                    [c.heap[i] EXCEPT !.current = @ /\ c.heap[i].kind \notin OfAState]]]

-----------------------------------------------------------------------------

ScheduleSlot(c) ==
    ScheduleIn([c EXCEPT !.slotEnd = c.now + c.slotRemaining], c.slotRemaining, "slot_end", None)

\* _start_producing: the part that a stop froze, or a new one.
StartProducing(c, draw) ==
    LET producing == Enter(c, "producing")
        withPart == IF c.part.active THEN producing
                    ELSE [producing EXCEPT
                            !.part = [active |-> TRUE, idx |-> 0, ok |-> TRUE, slot |-> draw.slot],
                            !.slotRemaining = draw.slot]
        slot == ScheduleSlot(withPart)
    IN  IF draw.interrupt = None THEN slot
        ELSE ScheduleIn(slot, draw.delay, "interrupt", draw.interrupt)

\* _start_setup
StartSetup(c, kind) ==
    ScheduleIn([Enter(c, "setup") EXCEPT
                    !.dressingDue = FALSE,
                    !.capDue = @ /\ kind # "cap_change"], SetupDuration, "stop_end", kind)

\* _resume: break, cap change, dressing, production, in this order.
ResumeProducing(c, draw) ==
    IF c.breakActive THEN Enter(c, "planned") ELSE StartProducing(c, draw)
ResumeMaintenanceFirst(c, draw) ==
    CASE c.capDue -> StartSetup(c, "cap_change")
      [] ~c.capDue /\ c.dressingDue -> StartSetup(c, "dressing")
      [] ~c.capDue /\ ~c.dressingDue -> ResumeProducing(c, draw)
Resume(c, draw) ==
    CASE c.breakActive -> Enter(c, "planned")
      [] ~c.breakActive /\ c.capDue -> StartSetup(c, "cap_change")
      [] ~c.breakActive /\ ~c.capDue /\ c.dressingDue -> StartSetup(c, "dressing")
      [] ~c.breakActive /\ ~c.capDue /\ ~c.dressingDue -> StartProducing(c, draw)

EnterFault(c, draw) == ScheduleIn(Enter(c, "fault"), draw.duration, "stop_end", "fault")

\* _complete_part
CompletePart(c, draw) ==
    LET nok == IF c.part.ok THEN 0 ELSE c.nok + 1
        wear == [cap |-> c.wear.cap + 1, dressing |-> c.wear.dressing + 1]
        done == [c EXCEPT !.part.active = FALSE, !.wear = wear, !.nok = nok]
        capDue == wear.cap >= c.next.cap
    IN  IF nok >= ConsecutiveNok
        THEN EnterFault([done EXCEPT !.nok = 0, !.dressingDue = TRUE], draw)
        ELSE Resume([done EXCEPT
                        !.capDue = @ \/ capDue,
                        !.dressingDue = @ \/ (~capDue /\ wear.dressing >= c.next.dressing)],
                    draw)

\* _on_slot_end
OnSlotEnd(c, draw) ==
    LET welded == [c EXCEPT !.slotEnd = Never,
                            !.part = [c.part EXCEPT !.ok = @ /\ draw.ok, !.idx = @ + 1]]
    IN  IF welded.part.idx < PointsPerPart
        THEN ScheduleSlot([welded EXCEPT !.slotRemaining = c.part.slot])
        ELSE CompletePart(welded, draw)

\* _on_interrupt
OnInterrupt(c, kind, draw) ==
    IF kind = "fault" THEN EnterFault(c, draw)
    ELSE ScheduleIn(Enter(c, "starved"), draw.duration, "stop_end", "starved")

\* _finish_setup
FinishSetup(c, kind, draw) ==
    IF kind = "cap_change"
    THEN [c EXCEPT !.wear = [cap |-> 0, dressing |-> 0], !.next = draw.next]
    ELSE [c EXCEPT !.wear.dressing = 0, !.next.dressing = draw.next.dressing]

\* _on_stop_end: a fault may need a manual recovery.
OnStopEnd(c, kind, draw) ==
    CASE kind = "fault" /\ draw.manual ->
            ScheduleIn(Enter(c, "manual"), draw.duration, "stop_end", "manual")
      [] kind \in {"cap_change", "dressing"} -> Resume(FinishSetup(c, kind, draw), draw)
      [] OTHER -> Resume(c, draw)

-----------------------------------------------------------------------------

\* _arm_break
ArmBreakToCome(c, after) ==
    LET window == NextWindow(after + BreakLength)
    IN  ScheduleIn([c EXCEPT !.window = window], window.start - c.now, "break_start", None)
ArmBreak(c, after) ==
    LET window == NextWindow(after)
        armed == [c EXCEPT !.window = window]
    IN  IF window.start <= c.now
        THEN ScheduleIn([armed EXCEPT !.breakActive = TRUE], window.end - c.now, "break_end", None)
        ELSE ScheduleIn(armed, window.start - c.now, "break_start", None)

\* _on_break_start: only an idle line is taken over at once.
OnBreakStart(c, draw) ==
    LET begun == ScheduleIn([c EXCEPT !.breakActive = TRUE], c.window.end - c.now, "break_end", None)
    IN  IF c.state = "starved" THEN Resume(begun, draw) ELSE begun

\* _on_break_end
OnBreakEndLeavingIdle(c, draw) ==
    ArmBreak([c EXCEPT !.breakActive = FALSE],
             (IF c.now > c.window.end THEN c.now ELSE c.window.end) + 1)
OnBreakEnd(c, draw) ==
    LET over == ArmBreak([c EXCEPT !.breakActive = FALSE],
                         (IF c.now > c.window.end THEN c.now ELSE c.window.end) + 1)
    IN  IF c.state = "planned" THEN Resume(over, draw) ELSE over

OnHeartbeat(c) == ScheduleIn(c, HeartbeatPeriod, "heartbeat", None)

-----------------------------------------------------------------------------

\* Engine.step: take the next event; a void one does nothing.
IgnoresNothing(e) == TRUE
Heeded(e) == e.current

StepCell(c, draw) ==
    LET i == NextEvent(c)
        e == c.heap[i]
        taken == [c EXCEPT !.now = e.at, !.heap = RemoveAt(c.heap, i)]
    IN  CASE ~Heeded(e) -> taken
          [] Heeded(e) /\ e.kind = "slot_end"    -> OnSlotEnd(taken, draw)
          [] Heeded(e) /\ e.kind = "interrupt"   -> OnInterrupt(taken, e.arg, draw)
          [] Heeded(e) /\ e.kind = "stop_end"    -> OnStopEnd(taken, e.arg, draw)
          [] Heeded(e) /\ e.kind = "break_start" -> OnBreakStart(taken, draw)
          [] Heeded(e) /\ e.kind = "break_end"   -> OnBreakEnd(taken, draw)
          [] Heeded(e) /\ e.kind = "heartbeat"   -> OnHeartbeat(taken)

\* Engine.force_fault, while nothing is due at or before that instant.  The cell
\* refuses a code it does not know, and any fault unless it is producing; time
\* has come to that instant by then.
MayForce(c, at) == NextEventTime(c) > at

ForceFault(c, at, draw) ==
    LET asked == [c EXCEPT !.now = IF at > c.now THEN at ELSE c.now]
    IN  IF c.state = "producing" /\ draw.known THEN EnterFault(asked, draw) ELSE asked

\* Cell.__init__ and start: from the retentive data and the draws.
StartCell(ts, wear, next, draw) ==
    LET blank == [now |-> ts, heap |-> <<>>, state |-> "producing",
                  breakActive |-> FALSE, window |-> Break(0),
                  part |-> [active |-> FALSE, idx |-> 0, ok |-> TRUE, slot |-> 0],
                  slotRemaining |-> 0, slotEnd |-> Never,
                  dressingDue |-> FALSE, capDue |-> FALSE, nok |-> 0,
                  wear |-> wear, next |-> next]
    IN  Resume(ArmBreak(OnHeartbeat(blank), ts), draw)
=============================================================================
