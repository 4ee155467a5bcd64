----------------------------- MODULE PlcProofs -----------------------------
(***************************************************************************)
(* Theorems about the simulated PLC, for any parts, breaks, thresholds,    *)
(* random draws and faults, and any number of restarts.                    *)
(*                                                                         *)
(* What the handlers of the cell rely on is the heap: exactly one event is *)
(* awaited of each kind that matters, at the right instant.  The first     *)
(* part is about heaps alone, the second follows a cell through the        *)
(* handlers, the third through the steps of the PLC.                       *)
(***************************************************************************)
EXTENDS Plc, Extremes, SequenceTheorems, FiniteSetTheorems, TLAPS

(* Heaps.                                                                  *)

BreakKinds == {"break_start", "break_end"}
Kinds == OfAState \cup BreakKinds \cup {"heartbeat"}

\* What a handler may be told.
Causes == {None, "fault", "starved", "manual", "cap_change", "dressing"}

Events == [at : Nat, kind : Kinds, arg : Causes, current : BOOLEAN]

EventsOf(heap) == {heap[i] : i \in DOMAIN heap}

IsAwaited(e, kinds) == e.current /\ e.kind \in kinds

\* The only event of these kinds that will be heeded, and: there is none.
Alone(heap, kinds, e) ==
    \E i \in DOMAIN heap :
        /\ heap[i] = e
        /\ \A j \in DOMAIN heap : IsAwaited(heap[j], kinds) <=> j = i
Clear(heap, kinds) == \A j \in DOMAIN heap : ~IsAwaited(heap[j], kinds)

\* What Enter does to the heap.
Voided(heap) ==
    [i \in DOMAIN heap |-> [heap[i] EXCEPT !.current = @ /\ heap[i].kind \notin OfAState]]

LEMMA AppendedEvent ==
    ASSUME NEW heap \in Seq(Events), NEW e \in Events, NEW kinds
    PROVE  /\ Append(heap, e) \in Seq(Events)
           /\ IsAwaited(e, kinds) /\ Clear(heap, kinds) => Alone(Append(heap, e), kinds, e)
           /\ ~IsAwaited(e, kinds) =>
                 /\ Clear(heap, kinds) => Clear(Append(heap, e), kinds)
                 /\ \A x : Alone(heap, kinds, x) => Alone(Append(heap, e), kinds, x)
<1> DEFINE n == Len(heap)
           new == Append(heap, e)
<1>1. /\ n \in Nat /\ DOMAIN heap = 1..n
      /\ new \in Seq(Events) /\ DOMAIN new = 1..(n + 1)
      /\ \A i \in 1..n : new[i] = heap[i]
      /\ new[n + 1] = e
    OBVIOUS
<1> HIDE DEF n, new
<1>2. ASSUME IsAwaited(e, kinds), Clear(heap, kinds)
      PROVE  Alone(new, kinds, e)
  <2>1. \A j \in DOMAIN new : IsAwaited(new[j], kinds) <=> j = n + 1
      BY <1>1, <1>2 DEF Clear
  <2>2. QED
      BY <1>1, <2>1 DEF Alone
<1>3. ASSUME ~IsAwaited(e, kinds), Clear(heap, kinds)
      PROVE  Clear(new, kinds)
    BY <1>1, <1>3 DEF Clear
<1>4. ASSUME ~IsAwaited(e, kinds), NEW x, Alone(heap, kinds, x)
      PROVE  Alone(new, kinds, x)
  <2>1. PICK i \in 1..n : heap[i] = x /\ \A j \in 1..n : IsAwaited(heap[j], kinds) <=> j = i
      BY <1>1, <1>4 DEF Alone
  <2>2. i \in DOMAIN new /\ new[i] = x
      BY <1>1, <2>1
  <2>3. \A j \in DOMAIN new : IsAwaited(new[j], kinds) <=> j = i
      BY <1>1, <1>4, <2>1
  <2>4. QED
      BY <2>2, <2>3 DEF Alone
<1>5. QED
    BY <1>1, <1>2, <1>3, <1>4 DEF new

LEMMA VoidedEvents ==
    ASSUME NEW heap \in Seq(Events), NEW kinds
    PROVE  /\ Voided(heap) \in Seq(Events)
           /\ Len(Voided(heap)) = Len(heap)
           /\ \A i \in 1..Len(heap) : Voided(heap)[i].at = heap[i].at
           /\ Clear(Voided(heap), OfAState)
           /\ kinds \cap OfAState = {} =>
                 \A x : Alone(heap, kinds, x) => Alone(Voided(heap), kinds, x)
<1> DEFINE new == Voided(heap)
           void(e) == [e EXCEPT !.current = @ /\ e.kind \notin OfAState]
<1>1. \A e \in Events : /\ void(e) \in Events /\ void(e).at = e.at
                        /\ void(e).kind = e.kind
                        /\ void(e).current = (e.current /\ e.kind \notin OfAState)
                        /\ e.kind \notin OfAState => void(e) = e
    BY DEF Events
<1>2. /\ DOMAIN heap = 1..Len(heap) /\ Len(heap) \in Nat
      /\ new = [i \in 1..Len(heap) |-> void(heap[i])]
      /\ \A i \in 1..Len(heap) : heap[i] \in Events
    BY DEF Voided
<1> HIDE DEF new, void
<1>3. new \in Seq(Events) /\ Len(new) = Len(heap) /\ DOMAIN new = 1..Len(heap)
    BY <1>1, <1>2
<1>4. \A i \in 1..Len(heap) : new[i] = void(heap[i])
    BY <1>2
<1>5. \A i \in 1..Len(heap) : new[i].at = heap[i].at
    BY <1>1, <1>2, <1>4
<1>6. Clear(new, OfAState)
    BY <1>1, <1>2, <1>3, <1>4 DEF Clear, IsAwaited
<1>7. ASSUME kinds \cap OfAState = {}, NEW x, Alone(heap, kinds, x)
      PROVE  Alone(new, kinds, x)
  <2>1. PICK i \in 1..Len(heap) :
            heap[i] = x /\ \A j \in 1..Len(heap) : IsAwaited(heap[j], kinds) <=> j = i
      BY <1>2, <1>7 DEF Alone
  <2>2. \A j \in 1..Len(heap) : IsAwaited(new[j], kinds) <=> IsAwaited(heap[j], kinds)
      BY <1>1, <1>2, <1>4, <1>7 DEF IsAwaited
  <2>3. new[i] = heap[i]
    <3>1. heap[i].kind \notin OfAState
        BY <1>7, <2>1 DEF IsAwaited
    <3>2. QED
        BY <1>1, <1>2, <1>4, <3>1
  <2>4. QED
      BY <1>3, <2>1, <2>2, <2>3 DEF Alone
<1>8. QED
    BY <1>3, <1>5, <1>6, <1>7 DEF new

LEMMA RemovedEvent ==
    ASSUME NEW heap \in Seq(Events), NEW i \in 1..Len(heap), NEW kinds
    PROVE  /\ RemoveAt(heap, i) \in Seq(Events)
           /\ EventsOf(RemoveAt(heap, i)) \subseteq EventsOf(heap)
           /\ Clear(heap, kinds) => Clear(RemoveAt(heap, i), kinds)
           /\ \A x : Alone(heap, kinds, x) =>
                 IF IsAwaited(heap[i], kinds)
                 THEN x = heap[i] /\ Clear(RemoveAt(heap, i), kinds)
                 ELSE Alone(RemoveAt(heap, i), kinds, x)
<1> DEFINE n == Len(heap)
           new == RemoveAt(heap, i)
<1>1. /\ n \in Nat /\ DOMAIN heap = 1..n /\ i \in 1..n
      /\ new \in Seq(Events) /\ DOMAIN new = 1..(n - 1)
      /\ \A j \in 1..(n - 1) : new[j] = IF j < i THEN heap[j] ELSE heap[j + 1]
  <2> DEFINE a == SubSeq(heap, 1, i - 1)
             b == SubSeq(heap, i + 1, n)
  <2>1. n \in Nat /\ DOMAIN heap = 1..n /\ i \in 1..n
      OBVIOUS
  <2>2. /\ a \in Seq(Events) /\ Len(a) = i - 1
        /\ \A j \in 1..(i - 1) : a[j] = heap[j]
      BY <2>1
  <2>3. /\ b \in Seq(Events) /\ Len(b) = n - i
        /\ \A j \in 1..(n - i) : b[j] = heap[i + j]
    <3>1. \A j \in (i + 1)..n : heap[j] \in Events
        BY <2>1
    <3>2. /\ b \in Seq(Events) /\ Len(b) = IF i + 1 <= n THEN n - (i + 1) + 1 ELSE 0
          /\ \A j \in 1..(n - (i + 1) + 1) : b[j] = heap[(i + 1) + j - 1]
        BY <2>1, <3>1, SubSeqProperties
    <3> HIDE DEF n, b
    <3>3. ASSUME NEW j \in 1..(n - i)
          PROVE  b[j] = heap[i + j]
      <4>1. j \in 1..(n - (i + 1) + 1) /\ (i + 1) + j - 1 = i + j
          BY <2>1
      <4>2. QED
          BY <3>2, <4>1
    <3>4. QED
        BY <2>1, <3>2, <3>3
  <2>4. new = a \o b
      BY DEF RemoveAt
  <2> HIDE DEF n, new, a, b
  <2>5. /\ new \in Seq(Events) /\ Len(new) = n - 1
        /\ \A j \in 1..(n - 1) : new[j] = IF j <= i - 1 THEN a[j] ELSE b[j - (i - 1)]
      BY <2>1, <2>2, <2>3, <2>4
  <2>6. \A j \in 1..(n - 1) : new[j] = IF j < i THEN heap[j] ELSE heap[j + 1]
    <3>1. ASSUME NEW j \in 1..(n - 1), j < i
          PROVE  new[j] = heap[j]
        BY <2>1, <2>2, <2>5, <3>1
    <3>2. ASSUME NEW j \in 1..(n - 1), ~(j < i)
          PROVE  new[j] = heap[j + 1]
      <4>1. j - (i - 1) \in 1..(n - i) /\ i + (j - (i - 1)) = j + 1
          BY <2>1, <3>2
      <4>2. QED
          BY <2>1, <2>3, <2>5, <3>2, <4>1
    <3>3. QED
        BY <3>1, <3>2
  <2>7. QED
      BY <2>1, <2>5, <2>6
<1> HIDE DEF n, new
<1>2. EventsOf(new) \subseteq EventsOf(heap)
  <2>1. ASSUME NEW j \in 1..(n - 1)
        PROVE  \E k \in 1..n : new[j] = heap[k]
      BY <1>1
  <2>2. ASSUME NEW x \in EventsOf(new)
        PROVE  x \in EventsOf(heap)
      BY <1>1, <2>1, SMTT(20) DEF EventsOf
  <2>3. QED
      BY <2>2
<1>3. Clear(heap, kinds) => Clear(new, kinds)
  <2>1. ASSUME NEW j \in 1..(n - 1)
        PROVE  \E k \in 1..n : new[j] = heap[k]
      BY <1>1
  <2>2. QED
      BY <1>1, <2>1 DEF Clear
<1>4. ASSUME NEW x, Alone(heap, kinds, x)
      PROVE  IF IsAwaited(heap[i], kinds) THEN x = heap[i] /\ Clear(new, kinds)
             ELSE Alone(new, kinds, x)
  <2>1. PICK k \in 1..n : heap[k] = x /\ \A j \in 1..n : IsAwaited(heap[j], kinds) <=> j = k
      BY <1>1, <1>4 DEF Alone
  <2>2. CASE IsAwaited(heap[i], kinds)
    <3>1. i = k
        BY <1>1, <2>1, <2>2
    <3>2. QED
        BY <1>1, <2>1, <2>2, <3>1 DEF Clear
  <2>3. CASE ~IsAwaited(heap[i], kinds)
    <3> DEFINE l == IF k < i THEN k ELSE k - 1
    <3>1. k # i
        BY <1>1, <2>1, <2>3
    <3>2. l \in 1..(n - 1) /\ new[l] = x
        BY <1>1, <2>1, <3>1
    <3>3. \A j \in 1..(n - 1) : IsAwaited(new[j], kinds) <=> j = l
        BY <1>1, <2>1, <3>1
    <3> HIDE DEF l
    <3>4. Alone(new, kinds, x)
        BY <1>1, <3>2, <3>3 DEF Alone
    <3>5. QED
        BY <2>3, <3>4
  <2>4. QED
      BY <2>2, <2>3
<1>5. QED
    BY <1>1, <1>2, <1>3, <1>4 DEF new

-----------------------------------------------------------------------------

(* The cell.                                                               *)

Parts == [active : BOOLEAN, idx : 0..PointsPerPart, ok : BOOLEAN, slot : SlotLengths \cup {0}]

Cells ==
    [now : Nat, heap : Seq(Events), state : CellStates,
     breakActive : BOOLEAN, window : [start : Int, end : Int],
     part : Parts, slotRemaining : Nat, slotEnd : Nat \cup {Never},
     dressingDue : BOOLEAN, capDue : BOOLEAN, nok : 0..(ConsecutiveNok - 1),
     wear : [cap : Nat, dressing : Nat], next : Thresholds]

\* Nothing is scheduled in the past.
Ahead(c) == \A i \in DOMAIN c.heap : c.heap[i].at >= c.now

\* A heartbeat is due within its period.
Beats(c) ==
    \E e \in EventsOf(c.heap) : /\ Alone(c.heap, {"heartbeat"}, e)
                                /\ e.at <= c.now + HeartbeatPeriod

IsBreak(window) == \E k \in Int : window = Break(k)

\* The break under way ends on time, or the next one begins on time.
Armed(c) ==
    /\ IsBreak(c.window)
    /\ \E e \in EventsOf(c.heap) :
           /\ Alone(c.heap, BreakKinds, e)
           /\ IF c.breakActive
              THEN e.kind = "break_end" /\ e.at = c.window.end /\ c.window.start <= c.now
              ELSE /\ e.kind = "break_start" /\ e.at = c.window.start
                   /\ c.window.end - ShiftLength <= c.now

\* What is left of the slot in progress.
Left(c) == IF c.slotEnd # Never THEN c.slotEnd - c.now ELSE c.slotRemaining

\* Between what was worked on the slot and what is left nothing is missing, and
\* maintenance is only due between parts.
SlotKept(c, work) ==
    /\ c.slotEnd # Never => c.slotEnd >= c.now
    /\ c.part.active => /\ c.part.idx < PointsPerPart
                        /\ work + Left(c) = c.part.slot
                        /\ ~c.dressingDue /\ ~c.capDue
    /\ ~c.part.active => work = 0

\* What every handler may rely on, whatever state it leaves.
Ready(c, work) ==
    /\ c \in Cells /\ work \in Nat
    /\ Ahead(c) /\ Beats(c) /\ Armed(c) /\ SlotKept(c, work)

\* What is awaited in a state.
StopArgs(state) == IF state = "setup" THEN {"cap_change", "dressing"} ELSE {state}

SlotAwaited(c) ==
    /\ c.part.active /\ c.slotEnd # Never
    /\ Clear(c.heap, {"stop_end"})
    /\ \E e \in EventsOf(c.heap) : Alone(c.heap, {"slot_end"}, e) /\ e.at = c.slotEnd
    /\ \/ Clear(c.heap, {"interrupt"})
       \/ \E e \in EventsOf(c.heap) : Alone(c.heap, {"interrupt"}, e) /\ e.arg \in Interrupted

BreakAwaited(c) ==
    /\ c.slotEnd = Never /\ c.breakActive
    /\ Clear(c.heap, OfAState)

StopAwaited(c) ==
    /\ c.slotEnd = Never
    /\ c.state = "setup" => ~c.part.active
    /\ Clear(c.heap, {"slot_end", "interrupt"})
    /\ \E e \in EventsOf(c.heap) : Alone(c.heap, {"stop_end"}, e) /\ e.arg \in StopArgs(c.state)

WayOut(c) ==
    /\ c.state = "producing" => SlotAwaited(c)
    /\ c.state = "planned" => BreakAwaited(c)
    /\ c.state \notin {"producing", "planned"} => StopAwaited(c)

Going(c, work) == Ready(c, work) /\ WayOut(c)

-----------------------------------------------------------------------------

(* From handler to handler.                                                *)

\* The next event is one of the heap, and none is due before it.
LEMMA NextEventIsFirst ==
    ASSUME NEW c, c.heap \in Seq(Events), c.heap # <<>>
    PROVE  /\ NextEvent(c) \in 1..Len(c.heap)
           /\ c.heap[NextEvent(c)] \in Events
           /\ \A j \in 1..Len(c.heap) : c.heap[NextEvent(c)].at <= c.heap[j].at
<1> DEFINE heap == c.heap
           n == Len(heap)
           ats == {heap[i].at : i \in 1..n}
<1>1. n \in Nat \ {0} /\ DOMAIN heap = 1..n /\ \A i \in 1..n : heap[i] \in Events
    OBVIOUS
<1> HIDE DEF heap, n
<1>2. \A i \in 1..n : heap[i].at \in Nat
    BY <1>1 DEF Events
<1>3. ats \subseteq Nat /\ ats # {}
    BY <1>1, <1>2
<1> DEFINE first == Min(ats)
           those == {i \in 1..n : heap[i].at = first}
<1>4. first \in ats /\ \A a \in ats : first <= a
    <2> HIDE DEF ats
    <2>1. QED
        BY <1>3, MinOfNaturals
<1>5. those \subseteq Nat /\ those # {}
  <2>1. PICK i \in 1..n : heap[i].at = first
      BY <1>4
  <2>2. i \in those
      BY <2>1
  <2> HIDE DEF first
  <2>3. QED
      BY <1>1, <2>2
<1>6. Min(those) \in those /\ \A i \in those : Min(those) <= i
    <2> HIDE DEF those
    <2>1. QED
        BY <1>5, MinOfNaturals
<1> DEFINE P(i) == \A j \in DOMAIN heap :
                       heap[i].at < heap[j].at \/ (heap[i].at = heap[j].at /\ i <= j)
<1>7. P(Min(those)) /\ Min(those) \in DOMAIN heap
    <2>1. \A j \in 1..n : first <= heap[j].at
        BY <1>4
    <2>2. first \in Nat
        BY <1>3, <1>4
    <2> DEFINE m == Min(those)
    <2>3. m \in 1..n /\ heap[m].at = first /\ \A j \in 1..n : heap[j].at = first => m <= j
        BY <1>6
    <2> HIDE DEF m, first
    <2>4. ASSUME NEW j \in 1..n
          PROVE  heap[m].at < heap[j].at \/ (heap[m].at = heap[j].at /\ m <= j)
        BY <1>2, <2>1, <2>2, <2>3
    <2>5. QED
        BY <1>1, <2>3, <2>4 DEF m
<1>8. NextEvent(c) = CHOOSE i \in DOMAIN heap : P(i)
    BY DEF NextEvent, heap
<1> HIDE DEF P
<1>9. NextEvent(c) \in DOMAIN heap /\ P(NextEvent(c))
    BY <1>7, <1>8
<1>10. \A j \in 1..n : heap[NextEvent(c)].at <= heap[j].at
    BY <1>1, <1>2, <1>9 DEF P
<1>11. QED
    BY <1>1, <1>9, <1>10 DEF heap, n

\* Nothing of what must be awaited whatever the state is lost or comes late.
LEMMA AloneIsThere ==
    ASSUME NEW heap, NEW kinds, NEW e, Alone(heap, kinds, e)
    PROVE  e \in EventsOf(heap)
BY DEF Alone, EventsOf

LEMMA ClearOfFewer ==
    ASSUME NEW heap, NEW kinds, NEW fewer \in SUBSET kinds, Clear(heap, kinds)
    PROVE  Clear(heap, fewer)
BY DEF Clear, IsAwaited

\* The world goes on whatever the cell does, as long as its heap keeps the
\* heartbeat and the break.
LEMMA WorldGoesOn ==
    ASSUME NEW c, NEW d, Beats(c), Armed(c),
           d.now = c.now, d.breakActive = c.breakActive, d.window = c.window,
           \A x : Alone(c.heap, {"heartbeat"}, x) => Alone(d.heap, {"heartbeat"}, x),
           \A x : Alone(c.heap, BreakKinds, x) => Alone(d.heap, BreakKinds, x)
    PROVE  Beats(d) /\ Armed(d)
<1>1. Beats(d)
  <2>1. PICK e \in EventsOf(c.heap) : Alone(c.heap, {"heartbeat"}, e)
                                      /\ e.at <= c.now + HeartbeatPeriod
      BY DEF Beats
  <2>2. Alone(d.heap, {"heartbeat"}, e) /\ e \in EventsOf(d.heap)
      BY <2>1, AloneIsThere
  <2>3. QED
      BY <2>1, <2>2 DEF Beats
<1>2. Armed(d)
  <2>1. PICK e \in EventsOf(c.heap) :
           /\ Alone(c.heap, BreakKinds, e)
           /\ IF c.breakActive
              THEN e.kind = "break_end" /\ e.at = c.window.end /\ c.window.start <= c.now
              ELSE /\ e.kind = "break_start" /\ e.at = c.window.start
                   /\ c.window.end - ShiftLength <= c.now
      BY DEF Armed
  <2>2. Alone(d.heap, BreakKinds, e) /\ e \in EventsOf(d.heap)
      BY <2>1, AloneIsThere
  <2>3. IsBreak(d.window)
      BY DEF Armed
  <2>4. IF d.breakActive
        THEN e.kind = "break_end" /\ e.at = d.window.end /\ d.window.start <= d.now
        ELSE /\ e.kind = "break_start" /\ e.at = d.window.start
             /\ d.window.end - ShiftLength <= d.now
      BY <2>1
  <2>5. QED
      BY <2>2, <2>3, <2>4 DEF Armed
<1>3. QED
    BY <1>1, <1>2

\* What is scheduled for any reason.
LEMMA ScheduledEvent ==
    ASSUME NEW c, c \in Cells, Ahead(c),
           NEW delay \in Nat, NEW kind \in Kinds, NEW arg \in Causes,
           NEW e, e = [at |-> c.now + delay, kind |-> kind, arg |-> arg, current |-> TRUE],
           NEW d, d = ScheduleIn(c, delay, kind, arg)
    PROVE  /\ d \in Cells /\ Ahead(d)
           /\ e \in Events
           /\ d = [c EXCEPT !.heap = Append(c.heap, e)] /\ d.heap = Append(c.heap, e)
<1>1. c.heap \in Seq(Events) /\ c.now \in Nat
    BY DEF Cells
<1>2. e \in Events
    BY <1>1 DEF Events
<1>3. d = [c EXCEPT !.heap = Append(c.heap, e)]
    BY DEF ScheduleIn
<1>4. Append(c.heap, e) \in Seq(Events)
    BY <1>1, <1>2
<1>5. d \in Cells /\ d.heap = Append(c.heap, e) /\ d.now = c.now
    BY <1>1, <1>3, <1>4 DEF Cells
<1>6. Ahead(d)
  <2>1. ASSUME NEW i \in 1..Len(Append(c.heap, e))
        PROVE  Append(c.heap, e)[i].at >= c.now
    <3>1. e.at >= c.now
        BY <1>1
    <3>2. i \in 1..Len(c.heap) \/ i = Len(c.heap) + 1
        BY <1>1, <1>2
    <3>3. CASE i \in 1..Len(c.heap)
        BY <1>1, <1>2, <3>3 DEF Ahead
    <3>4. CASE i = Len(c.heap) + 1
        BY <1>1, <1>2, <3>1, <3>4
    <3>5. QED
        BY <3>2, <3>3, <3>4
  <2>2. DOMAIN d.heap = 1..Len(Append(c.heap, e))
      BY <1>4, <1>5
  <2>3. QED
      BY <1>5, <2>1, <2>2 DEF Ahead
<1>7. QED
    BY <1>2, <1>3, <1>5, <1>6

\* What is scheduled for a state.
LEMMA Scheduled ==
    ASSUME NEW c, NEW work, Ready(c, work),
           NEW delay \in Nat, NEW kind \in OfAState, NEW arg \in Causes,
           NEW e, e = [at |-> c.now + delay, kind |-> kind, arg |-> arg, current |-> TRUE],
           NEW d, d = ScheduleIn(c, delay, kind, arg)
    PROVE  /\ Ready(d, work)
           /\ e \in Events
           /\ d = [c EXCEPT !.heap = Append(c.heap, e)] /\ d.heap = Append(c.heap, e)
<1>1. c \in Cells /\ c.heap \in Seq(Events) /\ c.now \in Nat
    BY DEF Ready, Cells
<1>2. /\ d \in Cells /\ Ahead(d) /\ e \in Events
      /\ d = [c EXCEPT !.heap = Append(c.heap, e)] /\ d.heap = Append(c.heap, e)
  <2>1. kind \in Kinds
      BY DEF Kinds
  <2>2. QED
      BY <2>1, ScheduledEvent DEF Ready
<1>3. /\ d.now = c.now /\ d.breakActive = c.breakActive /\ d.window = c.window
      /\ d.part = c.part /\ d.slotEnd = c.slotEnd /\ d.slotRemaining = c.slotRemaining
      /\ d.dressingDue = c.dressingDue /\ d.capDue = c.capDue
    BY <1>1, <1>2 DEF Cells
<1>4. /\ ~IsAwaited(e, {"heartbeat"})
      /\ ~IsAwaited(e, BreakKinds)
    BY DEF IsAwaited, OfAState, BreakKinds
<1>5. Beats(d) /\ Armed(d)
  <2>1. \A x : Alone(c.heap, {"heartbeat"}, x) => Alone(d.heap, {"heartbeat"}, x)
    <3>1. e \in Events /\ d.heap = Append(c.heap, e)
        BY <1>2
    <3>2. \A x : Alone(c.heap, {"heartbeat"}, x) => Alone(Append(c.heap, e), {"heartbeat"}, x)
        BY <1>1, <1>4, <3>1, AppendedEvent
    <3>3. QED
        BY <3>1, <3>2
  <2>2. \A x : Alone(c.heap, BreakKinds, x) => Alone(d.heap, BreakKinds, x)
    <3>1. e \in Events /\ d.heap = Append(c.heap, e)
        BY <1>2
    <3>2. \A x : Alone(c.heap, BreakKinds, x) => Alone(Append(c.heap, e), BreakKinds, x)
        BY <1>1, <1>4, <3>1, AppendedEvent
    <3>3. QED
        BY <3>1, <3>2
  <2>3. QED
      BY <1>3, <2>1, <2>2, WorldGoesOn DEF Ready
<1>6. SlotKept(d, work)
    BY <1>3 DEF Ready, SlotKept, Left
<1>7. QED
    BY <1>2, <1>5, <1>6 DEF Ready

\* A state has been left, and nothing of it will be heeded.
Halted(c, work) ==
    /\ Ready(c, work)
    /\ c.slotEnd = Never
    /\ Clear(c.heap, OfAState)

LEMMA EnterHalts ==
    ASSUME NEW c, NEW work, Ready(c, work), NEW state \in CellStates,
           NEW d, d = Enter(c, state)
    PROVE  /\ Halted(d, work)
           /\ d.state = state /\ d.now = c.now /\ d.breakActive = c.breakActive
           /\ d.window = c.window /\ d.part = c.part /\ d.dressingDue = c.dressingDue
           /\ d.capDue = c.capDue /\ d.nok = c.nok /\ d.wear = c.wear /\ d.next = c.next
<1>1. c \in Cells /\ c.heap \in Seq(Events) /\ c.now \in Nat
    BY DEF Ready, Cells
<1>2. Left(c) \in Nat
    BY <1>1 DEF Ready, Cells, SlotKept, Left, Never
<1>3. d = [c EXCEPT !.state = state, !.slotRemaining = Left(c), !.slotEnd = Never,
                    !.heap = Voided(c.heap)]
    BY <1>1 DEF Enter, Left, Voided, Cells
<1>4. Voided(c.heap) \in Seq(Events)
    BY <1>1, VoidedEvents
<1>5. d \in Cells
    BY <1>1, <1>2, <1>3, <1>4 DEF Cells
<1>6. /\ d.state = state /\ d.now = c.now /\ d.breakActive = c.breakActive
      /\ d.window = c.window /\ d.part = c.part /\ d.dressingDue = c.dressingDue
      /\ d.capDue = c.capDue /\ d.nok = c.nok /\ d.wear = c.wear /\ d.next = c.next
      /\ d.slotEnd = Never /\ d.slotRemaining = Left(c) /\ d.heap = Voided(c.heap)
    BY <1>1, <1>3 DEF Cells
<1>7. Ahead(d)
  <2>1. /\ Len(Voided(c.heap)) = Len(c.heap)
        /\ \A i \in 1..Len(c.heap) : Voided(c.heap)[i].at = c.heap[i].at
      BY <1>1, VoidedEvents
  <2>2. DOMAIN d.heap = 1..Len(c.heap) /\ DOMAIN c.heap = 1..Len(c.heap)
      BY <1>1, <1>4, <1>6, <2>1
  <2>3. \A i \in 1..Len(c.heap) : c.heap[i].at >= c.now
      BY <2>2 DEF Ready, Ahead
  <2>4. QED
      BY <1>6, <2>1, <2>2, <2>3 DEF Ahead
<1>8. Beats(d) /\ Armed(d)
  <2>1. {"heartbeat"} \cap OfAState = {} /\ BreakKinds \cap OfAState = {}
      BY DEF OfAState, BreakKinds
  <2>2. \A x : Alone(c.heap, {"heartbeat"}, x) => Alone(d.heap, {"heartbeat"}, x)
      BY <1>1, <1>6, <2>1, VoidedEvents
  <2>3. \A x : Alone(c.heap, BreakKinds, x) => Alone(d.heap, BreakKinds, x)
      BY <1>1, <1>6, <2>1, VoidedEvents
  <2>4. QED
      BY <1>6, <2>2, <2>3, WorldGoesOn DEF Ready
<1>9. SlotKept(d, work)
    BY <1>2, <1>6 DEF Ready, SlotKept, Left
<1>10. Clear(d.heap, OfAState)
    BY <1>1, <1>6, VoidedEvents
<1>11. QED
    BY <1>5, <1>6, <1>7, <1>8, <1>9, <1>10 DEF Halted, Ready

\* A stop will end.
LEMMA StopIsScheduled ==
    ASSUME NEW c, NEW work, Halted(c, work), c.state \notin {"producing", "planned"},
           c.state = "setup" => ~c.part.active,
           NEW delay \in Nat, NEW arg \in StopArgs(c.state),
           NEW d, d = ScheduleIn(c, delay, "stop_end", arg)
    PROVE  Going(d, work)
<1> DEFINE e == [at |-> c.now + delay, kind |-> "stop_end", arg |-> arg, current |-> TRUE]
<1>1. c \in Cells /\ c.heap \in Seq(Events) /\ Ready(c, work)
    BY DEF Halted, Ready, Cells
<1>2. arg \in Causes
    BY <1>1 DEF StopArgs, Causes, Cells, CellStates
<1>3. /\ Ready(d, work) /\ e \in Events
      /\ d = [c EXCEPT !.heap = Append(c.heap, e)] /\ d.heap = Append(c.heap, e)
    BY <1>1, <1>2, Scheduled DEF OfAState
<1>4. d.state = c.state /\ d.slotEnd = Never /\ d.part = c.part
    BY <1>1, <1>3 DEF Halted, Cells
<1>5. IsAwaited(e, {"stop_end"}) /\ ~IsAwaited(e, {"slot_end", "interrupt"})
    BY DEF IsAwaited
<1> HIDE DEF e
<1>6. Clear(c.heap, {"stop_end"}) /\ Clear(c.heap, {"slot_end", "interrupt"})
    BY ClearOfFewer DEF Halted, OfAState
<1>7. Alone(d.heap, {"stop_end"}, e)
    BY <1>1, <1>3, <1>5, <1>6, AppendedEvent
<1>8. Clear(d.heap, {"slot_end", "interrupt"})
    BY <1>1, <1>3, <1>5, <1>6, AppendedEvent
<1>9. e \in EventsOf(d.heap) /\ e.arg \in StopArgs(d.state)
  <2>1. e.arg = arg
      BY DEF e
  <2>2. QED
      BY <1>4, <1>7, <2>1, AloneIsThere
<1>10. StopAwaited(d)
    BY <1>4, <1>7, <1>8, <1>9 DEF StopAwaited
<1>11. QED
    BY <1>3, <1>4, <1>10 DEF Going, WayOut

\* Every way into a stop.
LEMMA Stops ==
    ASSUME NEW c, NEW work, Ready(c, work),
           NEW state \in {"fault", "setup", "starved", "manual"},
           state = "setup" => ~c.part.active,
           NEW delay \in Nat, NEW arg \in StopArgs(state)
    PROVE  Going(ScheduleIn(Enter(c, state), delay, "stop_end", arg), work)
<1> DEFINE d == Enter(c, state)
<1>1. state \in CellStates
    BY DEF CellStates
<1>2. Halted(d, work) /\ d.state = state /\ d.part = c.part
    BY <1>1, EnterHalts
<1> HIDE DEF d
<1>3. QED
    BY <1>2, StopIsScheduled DEF d

\* An idle cell waits for the break to end.
LEMMA BreakIsTaken ==
    ASSUME NEW c, NEW work, Ready(c, work), c.breakActive
    PROVE  Going(Enter(c, "planned"), work)
<1> DEFINE d == Enter(c, "planned")
<1>1. Halted(d, work) /\ d.state = "planned" /\ d.breakActive = c.breakActive
  <2>1. "planned" \in CellStates
      BY DEF CellStates
  <2>2. QED
      BY <2>1, EnterHalts, ZenonT(40)
<1> HIDE DEF d
<1>2. QED
    BY <1>1 DEF Going, Halted, WayOut, BreakAwaited, d

\* Whether an interruption is awaited, there is at most one.
MayBeInterrupted(heap) ==
    \/ Clear(heap, {"interrupt"})
    \/ \E e \in EventsOf(heap) : Alone(heap, {"interrupt"}, e) /\ e.arg \in Interrupted

\* The slot in progress will end.
LEMMA SlotIsScheduled ==
    ASSUME NEW c, NEW work, Ready(c, work), c.state = "producing", c.part.active,
           c.slotEnd = Never,
           Clear(c.heap, {"slot_end"}), Clear(c.heap, {"stop_end"}), MayBeInterrupted(c.heap),
           NEW d, d = ScheduleSlot(c)
    PROVE  /\ Going(d, work)
           /\ Clear(c.heap, {"interrupt"}) => Clear(d.heap, {"interrupt"})
           /\ d.state = "producing" /\ d.part = c.part /\ d.now = c.now
           /\ d.breakActive = c.breakActive
<1> DEFINE b == [c EXCEPT !.slotEnd = c.now + c.slotRemaining]
           e == [at |-> b.now + c.slotRemaining, kind |-> "slot_end", arg |-> None,
                 current |-> TRUE]
<1>1. c \in Cells /\ c.heap \in Seq(Events) /\ c.now \in Nat /\ c.slotRemaining \in Nat
    BY DEF Ready, Cells
<1>2. /\ b \in Cells /\ b.slotEnd = c.now + c.slotRemaining /\ b.now = c.now
      /\ b.heap = c.heap /\ b.part = c.part /\ b.breakActive = c.breakActive
      /\ b.window = c.window /\ b.dressingDue = c.dressingDue /\ b.capDue = c.capDue
      /\ b.state = c.state
  <2> DEFINE n == c.now + c.slotRemaining
  <2>1. n \in Nat
      BY <1>1
  <2>2. b = [c EXCEPT !.slotEnd = n]
      OBVIOUS
  <2> HIDE DEF n, b
  <2>3. /\ b \in Cells /\ b.slotEnd = n /\ b.now = c.now
        /\ b.heap = c.heap /\ b.part = c.part /\ b.breakActive = c.breakActive
        /\ b.window = c.window /\ b.dressingDue = c.dressingDue /\ b.capDue = c.capDue
        /\ b.state = c.state
      BY <1>1, <2>1, <2>2 DEF Cells
  <2>4. QED
      BY <2>3 DEF n
<1>3. b.slotEnd # Never
    BY <1>1, <1>2 DEF Never
<1> HIDE DEF b
<1>4. Ready(b, work)
  <2>1. Ahead(b)
      BY <1>2 DEF Ready, Ahead
  <2>2. Beats(b) /\ Armed(b)
      BY <1>2, WorldGoesOn DEF Ready
  <2>3. SlotKept(b, work)
    <3>1. Left(c) = c.slotRemaining /\ Left(b) = c.slotRemaining
        BY <1>1, <1>2, <1>3 DEF Left
    <3>2. QED
        BY <1>1, <1>2, <1>3, <3>1 DEF Ready, SlotKept
  <2>4. QED
      BY <1>2, <2>1, <2>2, <2>3 DEF Ready
<1>5. d = ScheduleIn(b, c.slotRemaining, "slot_end", None)
    BY DEF ScheduleSlot, b
<1>6. /\ Ready(d, work) /\ e \in Events
      /\ d = [b EXCEPT !.heap = Append(b.heap, e)] /\ d.heap = Append(b.heap, e)
  <2>1. "slot_end" \in OfAState /\ None \in Causes
      BY DEF OfAState, Causes
  <2>2. /\ c.slotRemaining \in Nat
        /\ e = [at |-> b.now + c.slotRemaining, kind |-> "slot_end", arg |-> None,
                current |-> TRUE]
      BY <1>1
  <2> HIDE DEF e
  <2>3. ASSUME NEW f, f = b
        PROVE  /\ Ready(d, work) /\ e \in Events
               /\ d = [f EXCEPT !.heap = Append(f.heap, e)] /\ d.heap = Append(f.heap, e)
    <3>1. Ready(f, work) /\ d = ScheduleIn(f, c.slotRemaining, "slot_end", None)
        BY <1>4, <1>5, <2>3
    <3>2. e = [at |-> f.now + c.slotRemaining, kind |-> "slot_end", arg |-> None,
               current |-> TRUE]
        BY <2>2, <2>3
    <3>3. QED
        BY <2>1, <2>2, <3>1, <3>2, Scheduled, SMTT(20)
  <2>4. QED
      BY <2>3
<1>7. /\ d.slotEnd = b.slotEnd /\ d.state = c.state /\ d.part = c.part /\ d.now = c.now
      /\ d.breakActive = c.breakActive
    BY <1>2, <1>6 DEF Cells
<1>8. /\ IsAwaited(e, {"slot_end"}) /\ ~IsAwaited(e, {"stop_end"}) /\ ~IsAwaited(e, {"interrupt"})
      /\ e.at = b.slotEnd
    BY <1>2 DEF IsAwaited
<1> HIDE DEF e
<1>9. Alone(d.heap, {"slot_end"}, e) /\ Clear(d.heap, {"stop_end"})
    BY <1>1, <1>2, <1>6, <1>8, AppendedEvent
<1>10. /\ Clear(c.heap, {"interrupt"}) => Clear(d.heap, {"interrupt"})
       /\ \A x : Alone(c.heap, {"interrupt"}, x) => Alone(d.heap, {"interrupt"}, x)
    BY <1>1, <1>2, <1>6, <1>8, AppendedEvent
<1>11. MayBeInterrupted(d.heap)
    BY <1>10, AloneIsThere DEF MayBeInterrupted
<1>12. e \in EventsOf(d.heap)
    BY <1>9, AloneIsThere
<1>13. SlotAwaited(d)
    BY <1>3, <1>7, <1>8, <1>9, <1>11, <1>12 DEF SlotAwaited, MayBeInterrupted
<1>14. QED
    BY <1>6, <1>7, <1>10, <1>13 DEF Going, WayOut

\* It may be interrupted.
LEMMA InterruptIsScheduled ==
    ASSUME NEW c, NEW work, Going(c, work), c.state = "producing",
           Clear(c.heap, {"interrupt"}), NEW delay \in Nat, NEW arg \in Interrupted,
           NEW d, d = ScheduleIn(c, delay, "interrupt", arg)
    PROVE  /\ Going(d, work)
           /\ d.state = "producing" /\ d.part = c.part /\ d.now = c.now
           /\ d.breakActive = c.breakActive
<1> DEFINE e == [at |-> c.now + delay, kind |-> "interrupt", arg |-> arg, current |-> TRUE]
<1>1. c \in Cells /\ c.heap \in Seq(Events) /\ Ready(c, work) /\ SlotAwaited(c)
    BY DEF Going, WayOut, Ready, Cells
<1>2. arg \in Causes
    BY DEF Interrupted, Causes
<1>3. /\ Ready(d, work) /\ e \in Events
      /\ d = [c EXCEPT !.heap = Append(c.heap, e)] /\ d.heap = Append(c.heap, e)
    BY <1>1, <1>2, Scheduled DEF OfAState
<1>4. /\ d.state = c.state /\ d.slotEnd = c.slotEnd /\ d.part = c.part /\ d.now = c.now
      /\ d.breakActive = c.breakActive
    BY <1>1, <1>3 DEF Cells
<1>5. /\ IsAwaited(e, {"interrupt"}) /\ ~IsAwaited(e, {"slot_end"}) /\ ~IsAwaited(e, {"stop_end"})
      /\ e.arg = arg
    BY DEF IsAwaited
<1> HIDE DEF e
<1>6. Alone(d.heap, {"interrupt"}, e) /\ e \in EventsOf(d.heap)
    BY <1>1, <1>3, <1>5, AppendedEvent, AloneIsThere
<1>7. Clear(d.heap, {"stop_end"})
    BY <1>1, <1>3, <1>5, AppendedEvent DEF SlotAwaited
<1>8. PICK s \in EventsOf(c.heap) : Alone(c.heap, {"slot_end"}, s) /\ s.at = c.slotEnd
    BY <1>1 DEF SlotAwaited
<1>9. Alone(d.heap, {"slot_end"}, s) /\ s \in EventsOf(d.heap)
  <2>1. Alone(c.heap, {"slot_end"}, s) => Alone(Append(c.heap, e), {"slot_end"}, s)
      BY <1>1, <1>3, <1>5, AppendedEvent
  <2>2. Alone(d.heap, {"slot_end"}, s)
      BY <1>3, <1>8, <2>1
  <2>3. QED
      BY <2>2, AloneIsThere
<1>10. SlotAwaited(d)
    BY <1>1, <1>4, <1>5, <1>6, <1>7, <1>8, <1>9 DEF SlotAwaited
<1>11. QED
    BY <1>3, <1>4, <1>10 DEF Going, WayOut

\* What production draws.
Drawn(draw) ==
    /\ draw.slot \in SlotLengths
    /\ draw.interrupt \in Interrupted \cup {None}
    /\ draw.interrupt # None => draw.delay \in Nat

\* What no change of state touches.
Kept(c, d) ==
    /\ d.now = c.now /\ d.breakActive = c.breakActive /\ d.window = c.window
    /\ d.nok = c.nok /\ d.wear = c.wear /\ d.next = c.next

\* A maintenance is under way.
Doing(c, kind) ==
    /\ c.state = "setup"
    /\ \E e \in EventsOf(c.heap) : Alone(c.heap, {"stop_end"}, e) /\ e.arg = kind

\* What is due stays due until it is done.
Minded(c, d) ==
    /\ c.capDue => d.capDue \/ Doing(d, "cap_change")
    /\ c.dressingDue => d.dressingDue \/ Doing(d, "dressing") \/ Doing(d, "cap_change")

\* Production goes on where it stopped, or begins a part.
LEMMA ProductionStarts ==
    ASSUME NEW c, NEW work, Ready(c, work), ~c.dressingDue, ~c.capDue, NEW draw, Drawn(draw),
           NEW d, d = StartProducing(c, draw)
    PROVE  Going(d, work) /\ Kept(c, d)
<1> DEFINE p == Enter(c, "producing")
           q == [p EXCEPT !.part = [active |-> TRUE, idx |-> 0, ok |-> TRUE, slot |-> draw.slot],
                          !.slotRemaining = draw.slot]
           b == IF c.part.active THEN p ELSE q
           s == ScheduleSlot(b)
<1>1. "producing" \in CellStates
    BY DEF CellStates
<1>2. /\ Halted(p, work) /\ p.state = "producing" /\ Kept(c, p) /\ p.part = c.part
      /\ ~p.dressingDue /\ ~p.capDue
    BY <1>1, EnterHalts DEF Kept
<1> HIDE DEF p
<1>3. p \in Cells /\ draw.slot \in Nat \ {0} /\ work \in Nat
    BY <1>2, PlcAssumption DEF Halted, Ready, Drawn
<1>4. ASSUME ~c.part.active
      PROVE  Halted(q, work) /\ q.state = "producing" /\ Kept(c, q) /\ q.part.active
  <2>1. /\ [active |-> TRUE, idx |-> 0, ok |-> TRUE, slot |-> draw.slot] \in Parts
        /\ 0 < PointsPerPart
      BY CellAssumption DEF Parts, Drawn
  <2>2. /\ q \in Cells /\ q.slotEnd = Never /\ q.heap = p.heap /\ q.state = p.state
        /\ q.now = p.now /\ q.breakActive = p.breakActive /\ q.window = p.window
        /\ q.nok = p.nok /\ q.wear = p.wear /\ q.next = p.next
        /\ q.dressingDue = p.dressingDue /\ q.capDue = p.capDue
        /\ q.part = [active |-> TRUE, idx |-> 0, ok |-> TRUE, slot |-> draw.slot]
        /\ q.slotRemaining = draw.slot
      BY <1>2, <1>3, <2>1 DEF Cells, Halted
  <2>3. q.part.active /\ q.part.idx = 0 /\ q.part.slot = draw.slot
      BY <2>2
  <2> HIDE DEF q
  <2>4. work = 0
      BY <1>2, <1>4 DEF Halted, Ready, SlotKept
  <2>5. Ahead(q)
      BY <1>2, <2>2 DEF Halted, Ready, Ahead
  <2>6. Beats(q) /\ Armed(q)
      BY <1>2, <2>2, WorldGoesOn DEF Halted, Ready
  <2>7. SlotKept(q, work)
      BY <1>2, <1>3, <2>1, <2>2, <2>3, <2>4 DEF SlotKept, Left
  <2>8. Halted(q, work)
      BY <1>2, <1>3, <2>2, <2>5, <2>6, <2>7 DEF Halted, Ready
  <2>9. Kept(c, q) /\ q.state = "producing"
      BY <1>2, <2>2 DEF Kept
  <2>10. QED
      BY <2>3, <2>8, <2>9
<1>5. Halted(b, work) /\ b.state = "producing" /\ Kept(c, b) /\ b.part.active
    BY <1>2, <1>4
<1> HIDE DEF b
<1>6. /\ Ready(b, work) /\ b.slotEnd = Never
      /\ Clear(b.heap, {"slot_end"}) /\ Clear(b.heap, {"stop_end"})
      /\ Clear(b.heap, {"interrupt"})
    BY <1>5, ClearOfFewer DEF Halted, OfAState
<1>7. /\ Going(s, work) /\ Clear(s.heap, {"interrupt"}) /\ s.state = "producing"
  <2>1. MayBeInterrupted(b.heap)
      BY <1>6 DEF MayBeInterrupted
  <2>2. QED
      BY <1>5, <1>6, <2>1, SlotIsScheduled
<1>8. Kept(c, s)
  <2>1. b \in Cells
      BY <1>6 DEF Ready
  <2>2. Kept(b, s)
      BY <2>1 DEF Kept, Cells, ScheduleSlot, ScheduleIn
  <2>3. QED
      BY <1>5, <2>2 DEF Kept
<1>9. s \in Cells
    BY <1>7 DEF Going, Ready
<1>10. d = IF draw.interrupt = None THEN s
           ELSE ScheduleIn(s, draw.delay, "interrupt", draw.interrupt)
    BY DEF StartProducing, p, q, b
<1> HIDE DEF s
<1>11. CASE draw.interrupt = None
    BY <1>7, <1>8, <1>10, <1>11
<1>12. CASE draw.interrupt # None
  <2>1. draw.interrupt \in Interrupted /\ draw.delay \in Nat
      BY <1>12 DEF Drawn
  <2>2. d = ScheduleIn(s, draw.delay, "interrupt", draw.interrupt)
      BY <1>10, <1>12
  <2>3. Going(d, work)
      BY <1>7, <2>1, <2>2, InterruptIsScheduled
  <2>4. Kept(s, d)
      BY <1>9, <2>2 DEF Kept, Cells, ScheduleIn
  <2>5. QED
      BY <1>8, <2>3, <2>4 DEF Kept
<1>13. QED
    BY <1>11, <1>12

\* A maintenance begins, between two parts.
LEMMA SetupStarts ==
    ASSUME NEW c, NEW work, Ready(c, work), ~c.part.active, NEW kind \in {"cap_change", "dressing"},
           kind = "dressing" => ~c.capDue,
           NEW d, d = StartSetup(c, kind)
    PROVE  Going(d, work) /\ Kept(c, d) /\ Doing(d, kind) /\ d.part = c.part
<1> DEFINE p == Enter(c, "setup")
           b == [p EXCEPT !.dressingDue = FALSE, !.capDue = @ /\ kind # "cap_change"]
<1>1. "setup" \in CellStates
    BY DEF CellStates
<1>2. /\ Halted(p, work) /\ p.state = "setup" /\ Kept(c, p) /\ p.part = c.part
    BY <1>1, EnterHalts DEF Kept
<1> HIDE DEF p
<1>3. p \in Cells
    BY <1>2 DEF Halted, Ready
<1>4. /\ b \in Cells /\ b.slotEnd = p.slotEnd /\ b.heap = p.heap /\ b.state = p.state
      /\ b.part = p.part /\ b.slotRemaining = p.slotRemaining
      /\ b.now = p.now /\ b.breakActive = p.breakActive /\ b.window = p.window
      /\ b.nok = p.nok /\ b.wear = p.wear /\ b.next = p.next
    BY <1>3 DEF Cells
<1> HIDE DEF b
<1>5. Ahead(b)
    BY <1>2, <1>4 DEF Halted, Ready, Ahead
<1>6. Beats(b) /\ Armed(b)
    BY <1>2, <1>4, WorldGoesOn DEF Halted, Ready
<1>7. SlotKept(b, work)
    BY <1>2, <1>4 DEF Halted, Ready, SlotKept, Left
<1>8. Halted(b, work)
    BY <1>2, <1>4, <1>5, <1>6, <1>7 DEF Halted, Ready
<1>9. d = ScheduleIn(b, SetupDuration, "stop_end", kind)
    BY DEF StartSetup, b, p
<1>10. SetupDuration \in Nat /\ kind \in StopArgs(b.state)
    BY <1>2, <1>4, CellAssumption DEF StopArgs
<1>11. b.state \notin {"producing", "planned"} /\ ~b.part.active
    BY <1>2, <1>4
<1>12. Going(d, work)
    BY <1>8, <1>9, <1>10, <1>11, StopIsScheduled
<1>13. Kept(b, d) /\ d.part = b.part /\ d.state = b.state
    BY <1>4, <1>9 DEF Kept, Cells, ScheduleIn
<1>14. Doing(d, kind)
  <2> DEFINE e == [at |-> b.now + SetupDuration, kind |-> "stop_end", arg |-> kind,
                   current |-> TRUE]
  <2>1. d.heap = Append(b.heap, e)
      BY <1>4, <1>9 DEF Cells, ScheduleIn
  <2>2. e \in Events /\ b.heap \in Seq(Events)
      BY <1>4, <1>10 DEF Events, Cells, Kinds, OfAState, Causes
  <2>3. IsAwaited(e, {"stop_end"}) /\ e.arg = kind
      BY DEF IsAwaited
  <2> HIDE DEF e
  <2>4. Clear(b.heap, {"stop_end"})
      BY <1>8, ClearOfFewer DEF Halted, OfAState
  <2>5. Alone(d.heap, {"stop_end"}, e)
      BY <2>1, <2>2, <2>3, <2>4, AppendedEvent
  <2>6. e \in EventsOf(d.heap)
      BY <2>5, AloneIsThere
  <2>7. QED
      BY <1>2, <1>4, <1>13, <2>3, <2>5, <2>6 DEF Doing
<1>15. QED
    BY <1>2, <1>4, <1>12, <1>13, <1>14 DEF Kept

\* In a break the cell is idle.
Outcome(c, d, work) ==
    /\ Going(d, work) /\ Kept(c, d) /\ Minded(c, d)
    /\ c.breakActive => d.state = "planned" /\ d.part = c.part

\* What comes after a stop: the break, a maintenance, or production.
LEMMA Resumes ==
    ASSUME NEW c, NEW work, Ready(c, work), NEW draw, Drawn(draw),
           NEW d, d = Resume(c, draw)
    PROVE  Outcome(c, d, work)
<1>1. {c.breakActive, c.capDue, c.dressingDue} \subseteq BOOLEAN /\ c \in Cells
    BY DEF Ready, Cells
<1>2. CASE c.breakActive
  <2> DEFINE p == Enter(c, "planned")
  <2>1. d = p
      BY <1>1, <1>2 DEF Resume
  <2>2. "planned" \in CellStates
      BY DEF CellStates
  <2>3. /\ p.state = "planned" /\ Kept(c, p) /\ p.part = c.part
        /\ p.dressingDue = c.dressingDue /\ p.capDue = c.capDue
      BY <2>2, EnterHalts DEF Kept
  <2>4. Going(p, work)
      BY <1>2, BreakIsTaken
  <2> HIDE DEF p
  <2>5. QED
      BY <2>1, <2>3, <2>4 DEF Outcome, Minded
<1>3. CASE ~c.breakActive /\ c.capDue
  <2> DEFINE p == StartSetup(c, "cap_change")
  <2>1. d = p
      BY <1>1, <1>3 DEF Resume
  <2>2. ~c.part.active
      BY <1>3 DEF Ready, SlotKept
  <2>3. Going(p, work) /\ Kept(c, p) /\ Doing(p, "cap_change")
      BY <2>2, SetupStarts
  <2> HIDE DEF p
  <2>4. QED
      BY <1>3, <2>1, <2>3 DEF Outcome, Minded
<1>4. CASE ~c.breakActive /\ ~c.capDue /\ c.dressingDue
  <2> DEFINE p == StartSetup(c, "dressing")
  <2>1. d = p
      BY <1>1, <1>4 DEF Resume
  <2>2. ~c.part.active
      BY <1>4 DEF Ready, SlotKept
  <2>3. Going(p, work) /\ Kept(c, p) /\ Doing(p, "dressing")
      BY <1>4, <2>2, SetupStarts
  <2> HIDE DEF p
  <2>4. QED
      BY <1>4, <2>1, <2>3 DEF Outcome, Minded
<1>5. CASE ~c.breakActive /\ ~c.capDue /\ ~c.dressingDue
  <2> DEFINE p == StartProducing(c, draw)
  <2>1. d = p
      BY <1>1, <1>5 DEF Resume
  <2>2. Going(p, work) /\ Kept(c, p)
      BY <1>5, ProductionStarts
  <2> HIDE DEF p
  <2>3. QED
      BY <1>5, <2>1, <2>2 DEF Outcome, Minded
<1>6. QED
    BY <1>1, <1>2, <1>3, <1>4, <1>5

\* A fault, a starvation or a manual recovery.
LEMMA StopsKeep ==
    ASSUME NEW c, NEW work, Ready(c, work), NEW state \in {"fault", "starved", "manual"},
           NEW delay \in Nat,
           NEW d, d = ScheduleIn(Enter(c, state), delay, "stop_end", state)
    PROVE  Going(d, work) /\ Kept(c, d) /\ Minded(c, d) /\ d.part = c.part /\ d.state = state
<1> DEFINE p == Enter(c, state)
<1>1. state \in CellStates /\ state \in StopArgs(state)
    BY DEF CellStates, StopArgs
<1>2. Going(d, work)
    BY <1>1, Stops
<1>3. /\ Halted(p, work) /\ p.state = state /\ Kept(c, p) /\ p.part = c.part
      /\ p.dressingDue = c.dressingDue /\ p.capDue = c.capDue
    BY <1>1, EnterHalts DEF Kept
<1> HIDE DEF p
<1>4. d = ScheduleIn(p, delay, "stop_end", state)
    BY DEF p
<1>5. p \in Cells
    BY <1>3 DEF Halted, Ready
<1>6. /\ Kept(p, d) /\ d.part = p.part /\ d.state = p.state
      /\ d.dressingDue = p.dressingDue /\ d.capDue = p.capDue
    BY <1>4, <1>5 DEF Kept, Cells, ScheduleIn
<1>7. QED
    BY <1>2, <1>3, <1>6 DEF Kept, Minded

-----------------------------------------------------------------------------

(* The breaks.                                                             *)

\* The first break that has not ended: it ends after the instant given, within
\* the length of a shift.
LEMMA NextWindowIs ==
    ASSUME NEW after \in Int
    PROVE  \E k \in Int : /\ NextWindow(after) = Break(k)
                          /\ Break(k).end > after /\ Break(k).end - ShiftLength <= after
<1> DEFINE a == after - BreakOffset - BreakLength
           q == a \div ShiftLength
<1>1. a \in Int /\ ShiftLength \in Nat \ {0} /\ {BreakOffset, BreakLength} \subseteq Nat
    BY CellAssumption
<1>2. NextWindow(after) = Break(q + 1)
    BY DEF NextWindow
<1>3. Break(q + 1).end = (q + 1) * ShiftLength + BreakOffset + BreakLength
    BY DEF Break
<1> HIDE DEF a
<1>4. q \in Int /\ q * ShiftLength <= a /\ a < (q + 1) * ShiftLength
    BY <1>1
<1> HIDE DEF q
<1>5. (q + 1) * ShiftLength = q * ShiftLength + ShiftLength /\ q * ShiftLength \in Int
    BY <1>1, <1>4
<1>6. Break(q + 1).end > after /\ Break(q + 1).end - ShiftLength <= after
    BY <1>1, <1>3, <1>4, <1>5 DEF a
<1>7. QED
    BY <1>2, <1>4, <1>6

\* The end of one break is followed by the next break of the calendar.
LEMMA WindowAfter ==
    ASSUME NEW k \in Int
    PROVE  /\ NextWindow(Break(k).end + 1) = Break(k + 1)
           /\ Break(k).start + ShiftLength = Break(k + 1).start
           /\ Break(k).end + ShiftLength = Break(k + 1).end
           /\ Break(k).end = Break(k).start + BreakLength
           /\ Break(k).end < Break(k + 1).start
           /\ Break(k) \in [start : Int, end : Int]
<1>1. /\ ShiftLength \in Nat /\ BreakLength \in Nat \ {0} /\ BreakLength < ShiftLength
      /\ BreakOffset \in Nat
    BY CellAssumption
<1>2. (Break(k).end + 1) - BreakOffset - BreakLength = k * ShiftLength + 1
    BY <1>1 DEF Break
<1>3. (k * ShiftLength + 1) \div ShiftLength = k
    BY <1>1
<1>4. NextWindow(Break(k).end + 1) = Break(k + 1)
    BY <1>2, <1>3 DEF NextWindow
<1>5. (k + 1) * ShiftLength = k * ShiftLength + ShiftLength /\ k * ShiftLength \in Int
    BY <1>1
<1>6. QED
    BY <1>1, <1>4, <1>5 DEF Break

\* By the calendar alone: between the end of one break and the end of the next
\* it is break time exactly from the start of that one.
LEMMA InBreakIs ==
    ASSUME NEW k \in Int, NEW ts \in Int,
           Break(k).end - ShiftLength <= ts, ts < Break(k).end
    PROVE  InBreak(ts) <=> Break(k).start <= ts
<1>1. /\ ShiftLength \in Nat \ {0} /\ BreakLength \in Nat \ {0} /\ BreakLength < ShiftLength
      /\ BreakOffset \in Nat
    BY CellAssumption
<1> DEFINE start == k * ShiftLength + BreakOffset
<1>2. Break(k).start = start /\ Break(k).end = start + BreakLength /\ start \in Int
    BY <1>1 DEF Break
<1>3. CASE start <= ts
  <2> DEFINE r == ts - start
  <2>1. r \in 0..(ShiftLength - 1) /\ r < BreakLength
      BY <1>1, <1>2, <1>3
  <2>2. (k * ShiftLength + r) % ShiftLength = r
    <3> HIDE DEF r
    <3>1. QED
        BY <1>1, <2>1
  <2>3. k * ShiftLength + r = ts - BreakOffset
      BY <1>1
  <2>4. QED
      BY <1>2, <1>3, <2>1, <2>2, <2>3 DEF InBreak
<1>4. CASE ~(start <= ts)
  <2> DEFINE r == ts - start + ShiftLength
  <2>1. r \in 0..(ShiftLength - 1) /\ ~(r < BreakLength)
      BY <1>1, <1>2, <1>4
  <2>2. ((k - 1) * ShiftLength + r) % ShiftLength = r
    <3> HIDE DEF r
    <3>1. QED
        BY <1>1, <2>1
  <2>3. (k - 1) * ShiftLength + r = ts - BreakOffset
      BY <1>1
  <2>4. QED
      BY <1>2, <1>4, <2>1, <2>2, <2>3 DEF InBreak
<1>5. QED
    BY <1>3, <1>4

\* No break is awaited, and the next one after an instant has not ended.
Unarmed(c, after, k) ==
    /\ c \in Cells /\ Ahead(c) /\ Beats(c) /\ ~c.breakActive /\ Clear(c.heap, BreakKinds)
    /\ k \in Int /\ NextWindow(after) = Break(k)
    /\ Break(k).end > c.now /\ Break(k).end - ShiftLength <= c.now

\* It is awaited now.
Rearmed(c, d, k) ==
    /\ d \in Cells /\ Ahead(d) /\ Beats(d) /\ Armed(d)
    /\ d.breakActive <=> Break(k).start <= c.now
    /\ \E e \in Events : e.kind \in BreakKinds /\ d.heap = Append(c.heap, e)
    /\ d.state = c.state /\ d.now = c.now /\ d.part = c.part
    /\ d.slotEnd = c.slotEnd /\ d.slotRemaining = c.slotRemaining
    /\ d.dressingDue = c.dressingDue /\ d.capDue = c.capDue
    /\ d.nok = c.nok /\ d.wear = c.wear /\ d.next = c.next

LEMMA ArmBreakArms ==
    ASSUME NEW c, NEW after, NEW k, Unarmed(c, after, k), NEW d, d = ArmBreak(c, after)
    PROVE  Rearmed(c, d, k)
<1> DEFINE w == Break(k)
           active == w.start <= c.now
           b == [c EXCEPT !.window = w, !.breakActive = active]
           kind == IF active THEN "break_end" ELSE "break_start"
           delay == IF active THEN w.end - c.now ELSE w.start - c.now
           e == [at |-> b.now + delay, kind |-> kind, arg |-> None, current |-> TRUE]
<1>1. /\ c \in Cells /\ Ahead(c) /\ Beats(c) /\ ~c.breakActive /\ Clear(c.heap, BreakKinds)
      /\ k \in Int /\ NextWindow(after) = Break(k)
      /\ Break(k).end > c.now /\ Break(k).end - ShiftLength <= c.now
    BY DEF Unarmed
<1>2. /\ c.heap \in Seq(Events) /\ c.now \in Nat /\ c.breakActive = FALSE
    BY <1>1 DEF Cells
<1>3. w \in [start : Int, end : Int]
    BY <1>1, WindowAfter
<1> HIDE DEF w
<1>4. delay \in Nat /\ active \in BOOLEAN
    BY <1>1, <1>2, <1>3 DEF w
<1>5. /\ b \in Cells /\ b.breakActive = active /\ b.window = w /\ b.heap = c.heap
      /\ b.state = c.state /\ b.now = c.now /\ b.part = c.part
      /\ b.slotEnd = c.slotEnd /\ b.slotRemaining = c.slotRemaining
      /\ b.dressingDue = c.dressingDue /\ b.capDue = c.capDue
      /\ b.nok = c.nok /\ b.wear = c.wear /\ b.next = c.next
    BY <1>1, <1>3, <1>4 DEF Cells
<1>6. d = ScheduleIn(b, delay, kind, None)
  <2>1. CASE active
    <3>1. b = [[c EXCEPT !.window = w] EXCEPT !.breakActive = TRUE]
        BY <1>1, <1>2, <2>1 DEF Cells
    <3>2. QED
        BY <1>1, <2>1, <3>1 DEF ArmBreak, w
  <2>2. CASE ~active
    <3>1. b = [c EXCEPT !.window = w]
      <4>1. active = c.breakActive
          BY <1>2, <1>4, <2>2
      <4> HIDE DEF active
      <4>2. QED
          BY <1>1, <4>1 DEF Cells
    <3>2. QED
        BY <1>1, <2>2, <3>1 DEF ArmBreak, w
  <2>3. QED
      BY <2>1, <2>2
<1>7. kind \in BreakKinds /\ kind \in Kinds /\ None \in Causes
    BY DEF BreakKinds, Kinds, Causes
<1>8. e.at = (IF active THEN w.end ELSE w.start) /\ e.kind = kind /\ e.current = TRUE
    BY <1>2, <1>3, <1>5
<1>9. Ahead(b)
    BY <1>1, <1>5 DEF Ahead
<1>10. e = [at |-> b.now + delay, kind |-> kind, arg |-> None, current |-> TRUE]
    OBVIOUS
<1> HIDE DEF b, e, delay
<1>11. /\ d \in Cells /\ Ahead(d) /\ e \in Events
       /\ d = [b EXCEPT !.heap = Append(b.heap, e)] /\ d.heap = Append(c.heap, e)
  <2> HIDE DEF kind
  <2>1. QED
      BY <1>4, <1>5, <1>6, <1>7, <1>9, <1>10, ScheduledEvent
<1>12. /\ d.breakActive = active /\ d.window = w
       /\ d.state = c.state /\ d.now = c.now /\ d.part = c.part
       /\ d.slotEnd = c.slotEnd /\ d.slotRemaining = c.slotRemaining
       /\ d.dressingDue = c.dressingDue /\ d.capDue = c.capDue
       /\ d.nok = c.nok /\ d.wear = c.wear /\ d.next = c.next
    BY <1>5, <1>11 DEF Cells
<1>13. IsAwaited(e, BreakKinds) /\ ~IsAwaited(e, {"heartbeat"})
    BY <1>7, <1>8 DEF IsAwaited, BreakKinds
<1>14. Beats(d)
  <2>1. PICK x \in EventsOf(c.heap) : /\ Alone(c.heap, {"heartbeat"}, x)
                                      /\ x.at <= c.now + HeartbeatPeriod
      BY <1>1 DEF Beats
  <2>2. Alone(Append(c.heap, e), {"heartbeat"}, x)
      BY <1>2, <1>11, <1>13, <2>1, AppendedEvent
  <2>3. Alone(d.heap, {"heartbeat"}, x)
      BY <1>11, <2>2
  <2>4. x \in EventsOf(d.heap)
      BY <2>3, AloneIsThere
  <2>5. QED
      BY <1>12, <2>1, <2>3, <2>4 DEF Beats
<1>15. Armed(d)
  <2>1. Alone(Append(c.heap, e), BreakKinds, e)
      BY <1>1, <1>2, <1>11, <1>13, AppendedEvent
  <2>2. Alone(d.heap, BreakKinds, e)
      BY <1>11, <2>1
  <2>3. e \in EventsOf(d.heap)
      BY <2>2, AloneIsThere
  <2>4. IsBreak(d.window)
      BY <1>1, <1>12 DEF IsBreak, w
  <2>5. IF d.breakActive
        THEN e.kind = "break_end" /\ e.at = d.window.end /\ d.window.start <= d.now
        ELSE /\ e.kind = "break_start" /\ e.at = d.window.start
             /\ d.window.end - ShiftLength <= d.now
      BY <1>1, <1>8, <1>12 DEF w
  <2>6. QED
      BY <2>2, <2>3, <2>4, <2>5 DEF Armed
<1>16. d.breakActive <=> Break(k).start <= c.now
    BY <1>12 DEF w
<1>17. \E z \in Events : z.kind \in BreakKinds /\ d.heap = Append(c.heap, z)
    BY <1>7, <1>8, <1>11
<1>18. QED
    BY <1>11, <1>12, <1>14, <1>15, <1>16, <1>17 DEF Rearmed

\* What is awaited for the state is not touched.
LEMMA WayOutKept ==
    ASSUME NEW c, NEW d, WayOut(c),
           d.state = c.state, d.part = c.part, d.slotEnd = c.slotEnd,
           c.state = "planned" => d.breakActive,
           \A kinds \in SUBSET OfAState :
               /\ Clear(c.heap, kinds) => Clear(d.heap, kinds)
               /\ \A x : Alone(c.heap, kinds, x) => Alone(d.heap, kinds, x)
    PROVE  WayOut(d) /\ \A kind : Doing(c, kind) => Doing(d, kind)
<1>1. /\ {"slot_end"} \in SUBSET OfAState /\ {"stop_end"} \in SUBSET OfAState
      /\ {"interrupt"} \in SUBSET OfAState /\ {"slot_end", "interrupt"} \in SUBSET OfAState
      /\ OfAState \in SUBSET OfAState
    BY DEF OfAState
<1>2. ASSUME NEW kinds \in SUBSET OfAState, NEW x, Alone(c.heap, kinds, x)
      PROVE  Alone(d.heap, kinds, x) /\ x \in EventsOf(d.heap)
    BY <1>2, AloneIsThere
<1>3. ASSUME c.state = "producing"
      PROVE  SlotAwaited(d)
    BY <1>1, <1>2, <1>3 DEF WayOut, SlotAwaited
<1>4. ASSUME c.state = "planned"
      PROVE  BreakAwaited(d)
    BY <1>1, <1>4 DEF WayOut, BreakAwaited
<1>5. ASSUME c.state \notin {"producing", "planned"}
      PROVE  StopAwaited(d)
    BY <1>1, <1>2, <1>5 DEF WayOut, StopAwaited
<1>6. ASSUME NEW kind, Doing(c, kind)
      PROVE  Doing(d, kind)
    BY <1>1, <1>2, <1>6 DEF Doing
<1>7. QED
    BY <1>3, <1>4, <1>5, <1>6 DEF WayOut

-----------------------------------------------------------------------------

(* The steps of the cell.                                                  *)

\* Time passes, up to the next event at most.
Passed(c, work, at) == IF c.state = "producing" THEN work + at - c.now ELSE work

LEMMA TimePasses ==
    ASSUME NEW c, NEW work, Going(c, work), NEW at \in Nat, c.now <= at,
           \A i \in DOMAIN c.heap : at <= c.heap[i].at,
           NEW d, d = [c EXCEPT !.now = at]
    PROVE  /\ Going(d, Passed(c, work, at))
           /\ d.now = at /\ d.heap = c.heap /\ d.state = c.state /\ d.part = c.part
           /\ d.slotEnd = c.slotEnd /\ d.slotRemaining = c.slotRemaining
           /\ d.breakActive = c.breakActive /\ d.window = c.window
           /\ d.dressingDue = c.dressingDue /\ d.capDue = c.capDue
           /\ d.nok = c.nok /\ d.wear = c.wear /\ d.next = c.next
<1> DEFINE w == Passed(c, work, at)
<1>1. /\ c \in Cells /\ work \in Nat /\ c.now \in Nat /\ c.slotEnd \in Nat \cup {Never}
      /\ c.heap \in Seq(Events) /\ c.slotRemaining \in Nat
    BY DEF Going, Ready, Cells
<1>2. /\ d \in Cells
      /\ d.now = at /\ d.heap = c.heap /\ d.state = c.state /\ d.part = c.part
      /\ d.slotEnd = c.slotEnd /\ d.slotRemaining = c.slotRemaining
      /\ d.breakActive = c.breakActive /\ d.window = c.window
      /\ d.dressingDue = c.dressingDue /\ d.capDue = c.capDue
      /\ d.nok = c.nok /\ d.wear = c.wear /\ d.next = c.next
    BY <1>1 DEF Cells
<1>3. w \in Nat
    BY <1>1 DEF Passed
<1>4. Ahead(d)
    BY <1>2 DEF Ahead
<1>5. Beats(d)
  <2>1. PICK e \in EventsOf(c.heap) : /\ Alone(c.heap, {"heartbeat"}, e)
                                      /\ e.at <= c.now + HeartbeatPeriod
      BY DEF Going, Ready, Beats
  <2>2. e.at \in Nat
    <3>1. e \in Events
        BY <1>1, <2>1 DEF EventsOf
    <3>2. QED
        BY <3>1 DEF Events
  <2>3. e.at <= d.now + HeartbeatPeriod
      BY <1>1, <1>2, <2>1, <2>2, CellAssumption, SMTT(20)
  <2>4. QED
      BY <1>2, <2>1, <2>3 DEF Beats
<1>6. Armed(d)
  <2>1. PICK e \in EventsOf(c.heap) :
           /\ Alone(c.heap, BreakKinds, e)
           /\ IF c.breakActive
              THEN e.kind = "break_end" /\ e.at = c.window.end /\ c.window.start <= c.now
              ELSE /\ e.kind = "break_start" /\ e.at = c.window.start
                   /\ c.window.end - ShiftLength <= c.now
      BY DEF Going, Ready, Armed
  <2>2. c.window.start \in Int /\ c.window.end \in Int /\ ShiftLength \in Nat
      BY <1>1, CellAssumption DEF Cells
  <2>3. IF d.breakActive
        THEN e.kind = "break_end" /\ e.at = d.window.end /\ d.window.start <= d.now
        ELSE /\ e.kind = "break_start" /\ e.at = d.window.start
             /\ d.window.end - ShiftLength <= d.now
      BY <1>1, <1>2, <2>1, <2>2
  <2>4. IsBreak(d.window)
      BY <1>2 DEF Going, Ready, Armed
  <2>5. QED
      BY <1>2, <2>1, <2>3, <2>4 DEF Armed
<1>7. c.slotEnd # Never <=> c.state = "producing"
    BY DEF Going, WayOut, SlotAwaited, BreakAwaited, StopAwaited
<1>8. c.slotEnd # Never => at <= c.slotEnd
  <2>1. SUFFICES ASSUME c.slotEnd # Never
                 PROVE  at <= c.slotEnd
      OBVIOUS
  <2>2. PICK e \in EventsOf(c.heap) : e.at = c.slotEnd
      BY <1>7, <2>1 DEF Going, WayOut, SlotAwaited
  <2>3. QED
      BY <2>2 DEF EventsOf
<1>9. SlotKept(d, w)
  <2>1. CASE c.state = "producing"
    <3>1. c.part.active /\ c.slotEnd # Never /\ c.slotEnd \in Nat
        BY <1>1, <1>7, <2>1 DEF Going, WayOut, SlotAwaited
    <3>2. /\ c.part.idx < PointsPerPart /\ work + (c.slotEnd - c.now) = c.part.slot
          /\ ~c.dressingDue /\ ~c.capDue
        BY <3>1 DEF Going, Ready, SlotKept, Left
    <3>3. w + (c.slotEnd - at) = c.part.slot
        BY <1>1, <2>1, <3>1, <3>2 DEF Passed
    <3>4. QED
        BY <1>2, <1>8, <3>1, <3>2, <3>3 DEF SlotKept, Left
  <2>2. CASE c.state # "producing"
    <3>1. w = work /\ c.slotEnd = Never
        BY <1>7, <2>2 DEF Passed
    <3>2. QED
        BY <1>2, <3>1 DEF Going, Ready, SlotKept, Left
  <2>3. QED
      BY <2>1, <2>2
<1>10. WayOut(d)
    BY <1>2, WayOutKept DEF Going, WayOut, BreakAwaited
<1>11. QED
    BY <1>2, <1>3, <1>4, <1>5, <1>6, <1>9, <1>10 DEF Going, Ready

\* An event is taken from the heap.
LEMMA EventIsTaken ==
    ASSUME NEW c, NEW work, Going(c, work), NEW i \in 1..Len(c.heap),
           NEW e, e = c.heap[i],
           NEW t, t = [c EXCEPT !.heap = RemoveAt(c.heap, i)]
    PROVE  /\ t \in Cells /\ work \in Nat /\ Ahead(t) /\ SlotKept(t, work)
           /\ ~IsAwaited(e, {"heartbeat"}) => Beats(t)
           /\ ~IsAwaited(e, BreakKinds) => Armed(t)
           /\ t.now = c.now /\ t.heap = RemoveAt(c.heap, i) /\ t.state = c.state
           /\ t.part = c.part /\ t.slotEnd = c.slotEnd /\ t.slotRemaining = c.slotRemaining
           /\ t.breakActive = c.breakActive /\ t.window = c.window
           /\ t.dressingDue = c.dressingDue /\ t.capDue = c.capDue
           /\ t.nok = c.nok /\ t.wear = c.wear /\ t.next = c.next
<1>1. c \in Cells /\ work \in Nat /\ c.heap \in Seq(Events)
    BY DEF Going, Ready, Cells
<1>2. RemoveAt(c.heap, i) \in Seq(Events) /\ EventsOf(RemoveAt(c.heap, i)) \subseteq EventsOf(c.heap)
    BY <1>1, RemovedEvent
<1>3. /\ t \in Cells
      /\ t.now = c.now /\ t.heap = RemoveAt(c.heap, i) /\ t.state = c.state
      /\ t.part = c.part /\ t.slotEnd = c.slotEnd /\ t.slotRemaining = c.slotRemaining
      /\ t.breakActive = c.breakActive /\ t.window = c.window
      /\ t.dressingDue = c.dressingDue /\ t.capDue = c.capDue
      /\ t.nok = c.nok /\ t.wear = c.wear /\ t.next = c.next
    BY <1>1, <1>2 DEF Cells
<1>4. Ahead(t)
  <2>1. \A x \in EventsOf(c.heap) : x.at >= c.now
      BY DEF Going, Ready, Ahead, EventsOf
  <2>2. \A j \in DOMAIN t.heap : t.heap[j] \in EventsOf(c.heap)
      BY <1>2, <1>3 DEF EventsOf
  <2>3. QED
      BY <1>3, <2>1, <2>2 DEF Ahead
<1>5. SlotKept(t, work)
    BY <1>3 DEF Going, Ready, SlotKept, Left
<1>6. ASSUME ~IsAwaited(e, {"heartbeat"})
      PROVE  Beats(t)
  <2>1. PICK x \in EventsOf(c.heap) : /\ Alone(c.heap, {"heartbeat"}, x)
                                      /\ x.at <= c.now + HeartbeatPeriod
      BY DEF Going, Ready, Beats
  <2>2. Alone(RemoveAt(c.heap, i), {"heartbeat"}, x)
      BY <1>1, <1>6, <2>1, RemovedEvent
  <2>3. Alone(t.heap, {"heartbeat"}, x)
      BY <1>3, <2>2
  <2>4. x \in EventsOf(t.heap)
      BY <2>3, AloneIsThere
  <2>5. QED
      BY <1>3, <2>1, <2>3, <2>4 DEF Beats
<1>7. ASSUME ~IsAwaited(e, BreakKinds)
      PROVE  Armed(t)
  <2>1. PICK x \in EventsOf(c.heap) :
           /\ Alone(c.heap, BreakKinds, x)
           /\ IF c.breakActive
              THEN x.kind = "break_end" /\ x.at = c.window.end /\ c.window.start <= c.now
              ELSE /\ x.kind = "break_start" /\ x.at = c.window.start
                   /\ c.window.end - ShiftLength <= c.now
      BY DEF Going, Ready, Armed
  <2>2. Alone(RemoveAt(c.heap, i), BreakKinds, x)
      BY <1>1, <1>7, <2>1, RemovedEvent
  <2>3. Alone(t.heap, BreakKinds, x)
      BY <1>3, <2>2
  <2>4. x \in EventsOf(t.heap)
      BY <2>3, AloneIsThere
  <2>5. IsBreak(t.window)
      BY <1>3 DEF Going, Ready, Armed
  <2>6. IF t.breakActive
        THEN x.kind = "break_end" /\ x.at = t.window.end /\ t.window.start <= t.now
        ELSE /\ x.kind = "break_start" /\ x.at = t.window.start
             /\ t.window.end - ShiftLength <= t.now
      BY <1>3, <2>1
  <2>7. QED
      BY <2>3, <2>4, <2>5, <2>6 DEF Armed
<1>8. QED
    BY <1>1, <1>3, <1>4, <1>5, <1>6, <1>7

\* What begins in a break: nothing.
BreakStep(c, d) ==
    c.breakActive /\ d.breakActive =>
        /\ <<c.state, d.state>> \in
              {<<s, s>> : s \in CellStates} \cup (CellStates \X {"planned"})
                \cup ({"producing"} \X Interrupted) \cup {<<"producing", "fault">>, <<"fault", "manual">>}
        /\ d.part.active => c.part.active /\ d.part.idx >= c.part.idx

\* How far the electrodes are worn.  A threshold is passed by one part at most,
\* and by one more for each restart, which forgets what was due.
CapLate(c) == c.capDue \/ Doing(c, "cap_change")
DressingLate(c) == CapLate(c) \/ c.dressingDue \/ Doing(c, "dressing")

Below(worn, limit, nok) == worn <= limit /\ (worn = limit => nok = 0)

Worn(c, restarts) ==
    /\ c.wear.cap <= c.next.cap + 1 + restarts
    /\ c.wear.dressing <= c.next.dressing + 1 + restarts
    /\ ~CapLate(c) => Below(c.wear.cap, c.next.cap + restarts, c.nok)
    /\ ~DressingLate(c) => Below(c.wear.dressing, c.next.dressing + restarts, c.nok)

LEMMA WornKept ==
    ASSUME NEW c, NEW d, NEW restarts, Worn(c, restarts),
           d.wear = c.wear, d.next = c.next, d.nok = c.nok,
           CapLate(c) => CapLate(d), DressingLate(c) => DressingLate(d)
    PROVE  Worn(d, restarts)
BY DEF Worn

\* What a handler does to a cell from which the event was taken.
Handled(c, d, work) ==
    /\ Going(d, work) /\ d.now = c.now /\ BreakStep(c, d)
    /\ ConsecutiveNok > 1 => \A restarts \in Nat : Worn(c, restarts) => Worn(d, restarts)

\* A change of state that minds what is due.
LEMMA HandledByChange ==
    ASSUME NEW c, NEW d, NEW work, Going(d, work), Kept(c, d), Minded(c, d),
           \A kind : ~Doing(c, kind), BreakStep(c, d)
    PROVE  Handled(c, d, work)
<1>1. d.now = c.now /\ d.wear = c.wear /\ d.next = c.next /\ d.nok = c.nok
    BY DEF Kept
<1>2. /\ CapLate(c) => CapLate(d)
      /\ DressingLate(c) => DressingLate(d)
    BY DEF Minded, CapLate, DressingLate
<1>3. \A restarts \in Nat : Worn(c, restarts) => Worn(d, restarts)
    BY <1>1, <1>2, WornKept
<1>4. QED
    BY <1>1, <1>3 DEF Handled

\* What a stop that is over leaves.
LEMMA HandledByResuming ==
    ASSUME NEW c, NEW work, Ready(c, work), NEW draw, Drawn(draw), \A kind : ~Doing(c, kind),
           NEW d, d = Resume(c, draw)
    PROVE  Handled(c, d, work)
<1>1. Going(d, work) /\ Kept(c, d) /\ Minded(c, d)
      /\ (c.breakActive => d.state = "planned" /\ d.part = c.part)
    BY Resumes DEF Outcome
<1>2. c.state \in CellStates /\ c.part.idx \in Nat
    BY CellAssumption DEF Ready, Cells, Parts
<1>3. BreakStep(c, d)
    BY <1>1, <1>2 DEF BreakStep
<1>4. QED
    BY <1>1, <1>3, HandledByChange

LEMMA HandledByStopping ==
    ASSUME NEW c, NEW work, Ready(c, work), \A kind : ~Doing(c, kind),
           NEW state \in {"fault", "starved", "manual"},
           c.state = "producing" \/ (c.state = "fault" /\ state = "manual"),
           c.state = "producing" => state # "manual",
           NEW delay \in Nat,
           NEW d, d = ScheduleIn(Enter(c, state), delay, "stop_end", state)
    PROVE  Handled(c, d, work)
<1>1. Going(d, work) /\ Kept(c, d) /\ Minded(c, d) /\ d.part = c.part /\ d.state = state
    BY StopsKeep
<1>2. c.part.idx \in Nat
    BY CellAssumption DEF Ready, Cells, Parts
<1>3. BreakStep(c, d)
    BY <1>1, <1>2 DEF BreakStep, Interrupted, CellStates
<1>4. QED
    BY <1>1, <1>3, HandledByChange

\* The draws that a handler makes.
DrawnFor(kind, draw) ==
    /\ kind \in {"slot_end", "stop_end", "break_start", "break_end"} => Drawn(draw)
    /\ kind \in {"slot_end", "stop_end", "interrupt"} => draw.duration \in Nat
    /\ kind = "slot_end" => draw.ok \in BOOLEAN
    /\ kind = "stop_end" => draw.next \in Thresholds /\ draw.manual \in BOOLEAN

LEMMA DrawsAreDrawn ==
    ASSUME NEW kind, NEW draw \in DrawsFor(kind)
    PROVE  DrawnFor(kind, draw)
<1> DEFINE among(kinds, set) == IF kind \in kinds THEN set ELSE {CHOOSE x \in set : TRUE}
<1>1. PICK production \in among({"slot_end", "stop_end", "break_start", "break_end"}, ProductionDraws),
           duration   \in among({"slot_end", "stop_end", "interrupt"}, Durations),
           ok         \in among({"slot_end"}, BOOLEAN),
           manual     \in among({"stop_end"}, BOOLEAN),
           next       \in among({"stop_end"}, Thresholds) :
              draw = Draw(production, duration, ok, manual, next)
    BY DEF DrawsFor
<1>2. /\ draw.slot = production.slot /\ draw.interrupt = production.interrupt
      /\ draw.delay = production.delay /\ draw.duration = duration /\ draw.ok = ok
      /\ draw.manual = manual /\ draw.next = next
    BY <1>1 DEF Draw
<1>3. \A p \in ProductionDraws : Drawn(p)
    BY PlcAssumption DEF ProductionDraws, Drawn
<1>4. kind \in {"slot_end", "stop_end", "break_start", "break_end"} => Drawn(draw)
  <2>1. SUFFICES ASSUME kind \in {"slot_end", "stop_end", "break_start", "break_end"}
                 PROVE  Drawn(draw)
      OBVIOUS
  <2>2. production \in ProductionDraws
      BY <2>1
  <2>3. Drawn(production)
      BY <1>3, <2>2
  <2>4. QED
      BY <1>2, <2>3 DEF Drawn
<1>5. kind \in {"slot_end", "stop_end", "interrupt"} => draw.duration \in Nat
    BY <1>1, <1>2, PlcAssumption
<1>6. kind = "slot_end" => draw.ok \in BOOLEAN
    BY <1>1, <1>2
<1>7. kind = "stop_end" => draw.next \in Thresholds /\ draw.manual \in BOOLEAN
    BY <1>1, <1>2
<1>8. QED
    BY <1>4, <1>5, <1>6, <1>7 DEF DrawnFor

\* A cell that produces does no maintenance.
LEMMA NothingDone ==
    ASSUME NEW c, c.state # "setup"
    PROVE  \A kind : ~Doing(c, kind)
BY DEF Doing

\* A part is complete: a fault after too many bad ones, or what comes next.
LEMMA PartIsCompleted ==
    ASSUME NEW c, c \in Cells, Ahead(c), Beats(c), Armed(c), c.state = "producing",
           c.slotEnd = Never, c.part.active, ~c.capDue, ~c.dressingDue,
           NEW draw, Drawn(draw), draw.duration \in Nat,
           NEW d, d = CompletePart(c, draw)
    PROVE  Handled(c, d, 0)
<1> DEFINE nok == IF c.part.ok THEN 0 ELSE c.nok + 1
           wear == [cap |-> c.wear.cap + 1, dressing |-> c.wear.dressing + 1]
           done == [c EXCEPT !.part.active = FALSE, !.wear = wear, !.nok = nok]
           capDue == wear.cap >= c.next.cap
           part == [c.part EXCEPT !.active = FALSE]
           f == [done EXCEPT !.nok = 0, !.dressingDue = TRUE]
           g == [done EXCEPT !.capDue = @ \/ capDue,
                             !.dressingDue = @ \/ (~capDue /\ wear.dressing >= c.next.dressing)]
<1>1. /\ c.wear \in [cap : Nat, dressing : Nat] /\ c.part \in Parts
      /\ c.nok \in 0..(ConsecutiveNok - 1) /\ c.next \in Thresholds
      /\ c.capDue = FALSE /\ c.dressingDue = FALSE
      /\ ConsecutiveNok \in Nat \ {0} /\ c.now \in Nat
    BY CellAssumption DEF Cells
<1>2. c.next.cap \in Nat /\ c.next.dressing \in Nat
    BY <1>1, CellAssumption DEF Thresholds
<1>3. /\ part \in Parts /\ part.active = FALSE /\ part.idx = c.part.idx
      /\ wear \in [cap : Nat, dressing : Nat]
      /\ wear.cap = c.wear.cap + 1 /\ wear.dressing = c.wear.dressing + 1
      /\ nok \in Nat
  <2>1. part \in Parts /\ part.active = FALSE /\ part.idx = c.part.idx
      BY <1>1 DEF Parts
  <2>2. wear \in [cap : Nat, dressing : Nat]
      BY <1>1
  <2>3. wear.cap = c.wear.cap + 1 /\ wear.dressing = c.wear.dressing + 1
      OBVIOUS
  <2>4. c.nok \in Nat
      BY <1>1
  <2>5. nok \in Nat
      BY <2>4
  <2>6. QED
      BY <2>1, <2>2, <2>3, <2>5
<1>4. d = IF nok >= ConsecutiveNok THEN EnterFault(f, draw) ELSE Resume(g, draw)
    BY DEF CompletePart
<1>5. done = [c EXCEPT !.part = part, !.wear = wear, !.nok = nok]
    BY <1>1 DEF Cells
<1>6. capDue = (wear.cap >= c.next.cap)
    OBVIOUS
<1> HIDE DEF part, nok, wear, capDue
<1>7. /\ done.now = c.now /\ done.heap = c.heap /\ done.state = c.state /\ done.part = part
       /\ done.slotEnd = c.slotEnd /\ done.breakActive = c.breakActive
       /\ done.window = c.window /\ done.capDue = FALSE /\ done.dressingDue = FALSE
       /\ done.nok = nok /\ done.wear = wear /\ done.next = c.next
       /\ \A n \in 0..(ConsecutiveNok - 1), cap \in BOOLEAN, dressing \in BOOLEAN :
             [done EXCEPT !.nok = n, !.capDue = cap, !.dressingDue = dressing] \in Cells
  <2>1. part \in Parts /\ wear \in [cap : Nat, dressing : Nat]
      BY <1>3
  <2>2. QED
      BY <1>1, <1>5, <2>1 DEF Cells
<1>8. CASE nok >= ConsecutiveNok
  <2>1. /\ f \in Cells /\ f.now = c.now /\ f.heap = c.heap /\ f.state = c.state /\ f.part = part
        /\ f.slotEnd = c.slotEnd /\ f.breakActive = c.breakActive /\ f.window = c.window
        /\ f.capDue = FALSE /\ f.dressingDue = TRUE
        /\ f.nok = 0 /\ f.wear = wear /\ f.next = c.next
    <3>1. 0 \in 0..(ConsecutiveNok - 1) /\ FALSE \in BOOLEAN /\ TRUE \in BOOLEAN
        BY <1>1
    <3>2. [done EXCEPT !.nok = 0, !.capDue = FALSE, !.dressingDue = TRUE] \in Cells
        BY <1>7, <3>1
    <3>3. done = [c EXCEPT !.part = part, !.wear = wear, !.nok = nok] /\ c \in Cells
        BY <1>5
    <3>4. f = [done EXCEPT !.nok = 0, !.capDue = FALSE, !.dressingDue = TRUE]
        BY <1>1, <3>3 DEF Cells
    <3>5. f \in Cells
        BY <3>2, <3>4
    <3>6. QED
        BY <1>1, <3>3, <3>5 DEF Cells
  <2> HIDE DEF f, done, g
  <2>2. Ahead(f)
      BY <2>1 DEF Ahead
  <2>3. Beats(f) /\ Armed(f)
      BY <2>1, WorldGoesOn
  <2>4. SlotKept(f, 0)
      BY <1>3, <2>1 DEF SlotKept
  <2>5. Ready(f, 0)
      BY <2>1, <2>2, <2>3, <2>4 DEF Ready
  <2>6. d = ScheduleIn(Enter(f, "fault"), draw.duration, "stop_end", "fault")
      BY <1>4, <1>8 DEF EnterFault
  <2>7. Handled(f, d, 0)
      BY <2>1, <2>5, <2>6, NothingDone, HandledByStopping
  <2>8. BreakStep(c, d)
      BY <1>3, <2>1, <2>7 DEF Handled, BreakStep
  <2>9. ASSUME ConsecutiveNok > 1, NEW restarts \in Nat, Worn(c, restarts)
        PROVE  Worn(f, restarts)
    <3>1. ~CapLate(c) /\ ~DressingLate(c) /\ ~CapLate(f)
        BY <1>1, <2>1, NothingDone DEF CapLate, DressingLate
    <3>2. DressingLate(f)
        BY <2>1 DEF DressingLate
    <3>3. c.nok # 0
        BY <1>1, <1>8, <2>9 DEF nok
    <3>4. /\ c.wear.cap <= c.next.cap + restarts /\ c.wear.cap # c.next.cap + restarts
          /\ c.wear.dressing <= c.next.dressing + restarts
        BY <2>9, <3>1, <3>3 DEF Worn, Below
    <3>5. f.wear.cap = c.wear.cap + 1 /\ f.wear.dressing = c.wear.dressing + 1
        BY <1>3, <2>1
    <3>6. Below(f.wear.cap, f.next.cap + restarts, f.nok)
        BY <1>1, <1>2, <2>1, <3>4, <3>5 DEF Below
    <3>7. f.wear.cap <= f.next.cap + 1 + restarts /\ f.wear.dressing <= f.next.dressing + 1 + restarts
        BY <1>1, <1>2, <2>1, <3>4, <3>5
    <3>8. QED
        BY <3>2, <3>6, <3>7 DEF Worn
  <2>10. QED
      BY <2>1, <2>7, <2>8, <2>9 DEF Handled
<1>9. CASE ~(nok >= ConsecutiveNok)
  <2>1. capDue \in BOOLEAN /\ (wear.dressing >= c.next.dressing) \in BOOLEAN
        /\ nok \in 0..(ConsecutiveNok - 1)
      BY <1>1, <1>2, <1>3, <1>6, <1>9
  <2>2. /\ g \in Cells /\ g.now = c.now /\ g.heap = c.heap /\ g.state = c.state /\ g.part = part
        /\ g.slotEnd = c.slotEnd /\ g.breakActive = c.breakActive /\ g.window = c.window
        /\ g.capDue = capDue
        /\ g.dressingDue = (~capDue /\ wear.dressing >= c.next.dressing)
        /\ g.nok = nok /\ g.wear = wear /\ g.next = c.next
    <3> DEFINE dressingDue == ~capDue /\ wear.dressing >= c.next.dressing
    <3>1. dressingDue \in BOOLEAN
        BY <2>1
    <3>2. done = [c EXCEPT !.part = part, !.wear = wear, !.nok = nok] /\ c \in Cells
        BY <1>5
    <3>3. g = [done EXCEPT !.capDue = @ \/ capDue, !.dressingDue = @ \/ dressingDue]
        OBVIOUS
    <3> HIDE DEF dressingDue, done, g
    <3>4. g = [done EXCEPT !.nok = nok, !.capDue = capDue, !.dressingDue = dressingDue]
        BY <1>1, <2>1, <3>1, <3>2, <3>3 DEF Cells
    <3>5. g \in Cells
        BY <1>7, <2>1, <3>1, <3>4
    <3>6. /\ g.now = c.now /\ g.heap = c.heap /\ g.state = c.state /\ g.part = part
          /\ g.slotEnd = c.slotEnd /\ g.breakActive = c.breakActive /\ g.window = c.window
          /\ g.capDue = capDue /\ g.dressingDue = dressingDue
          /\ g.nok = nok /\ g.wear = wear /\ g.next = c.next
        BY <3>2, <3>4 DEF Cells
    <3>7. QED
        BY <3>5, <3>6 DEF dressingDue
  <2> HIDE DEF f, done, g
  <2>3. Ahead(g)
      BY <2>2 DEF Ahead
  <2>4. Beats(g) /\ Armed(g)
      BY <2>2, WorldGoesOn
  <2>5. SlotKept(g, 0)
      BY <1>3, <2>2 DEF SlotKept
  <2>6. Ready(g, 0)
      BY <2>2, <2>3, <2>4, <2>5 DEF Ready
  <2>7. d = Resume(g, draw)
      BY <1>4, <1>9
  <2>8. Handled(g, d, 0)
      BY <2>2, <2>6, <2>7, NothingDone, HandledByResuming
  <2>9. BreakStep(c, d)
      BY <1>3, <2>2, <2>8 DEF Handled, BreakStep
  <2>10. ASSUME ConsecutiveNok > 1, NEW restarts \in Nat, Worn(c, restarts)
         PROVE  Worn(g, restarts)
    <3>1. ~CapLate(c) /\ ~DressingLate(c)
        BY <1>1, NothingDone DEF CapLate, DressingLate
    <3>2. /\ c.wear.cap <= c.next.cap + restarts /\ c.wear.dressing <= c.next.dressing + restarts
        BY <2>10, <3>1 DEF Worn, Below
    <3>3. g.wear.cap = c.wear.cap + 1 /\ g.wear.dressing = c.wear.dressing + 1
        BY <1>3, <2>2
    <3>4. g.wear.cap <= g.next.cap + 1 + restarts /\ g.wear.dressing <= g.next.dressing + 1 + restarts
        BY <1>1, <1>2, <2>2, <3>2, <3>3
    <3>5. ~CapLate(g) => g.wear.cap < g.next.cap
      <4>1. ~CapLate(g) => ~(wear.cap >= c.next.cap)
          BY <1>6, <2>2 DEF CapLate
      <4>2. wear.cap \in Nat
          BY <1>3
      <4>3. QED
          BY <1>2, <2>2, <4>1, <4>2
    <3>6. ~DressingLate(g) => g.wear.dressing < g.next.dressing
      <4>1. ~DressingLate(g) => ~(wear.dressing >= c.next.dressing)
          BY <2>2 DEF CapLate, DressingLate
      <4>2. wear.dressing \in Nat
          BY <1>3
      <4>3. QED
          BY <1>2, <2>2, <4>1, <4>2
    <3>7. ~CapLate(g) => Below(g.wear.cap, g.next.cap + restarts, g.nok)
        BY <1>1, <1>2, <2>2, <3>3, <3>5 DEF Below
    <3>8. ~DressingLate(g) => Below(g.wear.dressing, g.next.dressing + restarts, g.nok)
        BY <1>1, <1>2, <2>2, <3>3, <3>6 DEF Below
    <3>9. QED
        BY <3>4, <3>7, <3>8 DEF Worn
  <2>11. QED
      BY <2>2, <2>8, <2>9, <2>10 DEF Handled
<1>10. QED
    BY <1>8, <1>9

\* An event that is heeded is the one that the present state waits for.
LEMMA AwaitedEvent ==
    ASSUME NEW c, NEW work, Going(c, work), NEW i \in 1..Len(c.heap),
           NEW e, e = c.heap[i], e.current,
           NEW rest, rest = RemoveAt(c.heap, i)
    PROVE  /\ e \in Events
           /\ e.kind = "slot_end" =>
                 /\ c.state = "producing" /\ c.part.active /\ c.slotEnd = e.at
                 /\ Clear(rest, {"slot_end"}) /\ Clear(rest, {"stop_end"}) /\ MayBeInterrupted(rest)
           /\ e.kind = "interrupt" => c.state = "producing" /\ e.arg \in Interrupted
           /\ e.kind = "stop_end" =>
                 /\ c.state \notin {"producing", "planned"} /\ e.arg \in StopArgs(c.state)
                 /\ c.state = "setup" => ~c.part.active
                 /\ Clear(rest, {"stop_end"})
                 /\ \A kind : Doing(c, kind) => kind = e.arg
           /\ e.kind \in BreakKinds =>
                 /\ Clear(rest, BreakKinds)
                 /\ c.breakActive <=> e.kind = "break_end"
                 /\ e.at = IF c.breakActive THEN c.window.end ELSE c.window.start
           /\ e.kind = "heartbeat" => Clear(rest, {"heartbeat"})
<1>1. /\ c \in Cells /\ c.heap \in Seq(Events) /\ c.state \in CellStates
      /\ DOMAIN c.heap = 1..Len(c.heap) /\ e \in Events
    BY DEF Going, Ready, Cells
<1>2. ASSUME NEW kinds, e.kind \in kinds
      PROVE  /\ ~Clear(c.heap, kinds)
             /\ \A x : Alone(c.heap, kinds, x) => x = e /\ Clear(rest, kinds)
  <2>1. IsAwaited(e, kinds)
      BY <1>2 DEF IsAwaited
  <2>2. ~Clear(c.heap, kinds)
      BY <1>1, <2>1 DEF Clear
  <2>3. \A x : Alone(c.heap, kinds, x) =>
               IF IsAwaited(c.heap[i], kinds)
               THEN x = c.heap[i] /\ Clear(RemoveAt(c.heap, i), kinds)
               ELSE Alone(RemoveAt(c.heap, i), kinds, x)
      BY <1>1, RemovedEvent
  <2>4. QED
      BY <2>1, <2>2, <2>3
<1>3. /\ c.state = "producing" => SlotAwaited(c)
      /\ c.state = "planned" => BreakAwaited(c)
      /\ c.state \notin {"producing", "planned"} => StopAwaited(c)
    BY DEF Going, WayOut
<1>4. ASSUME e.kind = "slot_end"
      PROVE  /\ c.state = "producing" /\ c.part.active /\ c.slotEnd = e.at
             /\ Clear(rest, {"slot_end"}) /\ Clear(rest, {"stop_end"}) /\ MayBeInterrupted(rest)
  <2>1. e.kind \in {"slot_end"} /\ e.kind \in {"slot_end", "interrupt"} /\ e.kind \in OfAState
      BY <1>4 DEF OfAState
  <2>2. c.state = "producing"
      BY <1>2, <1>3, <2>1 DEF BreakAwaited, StopAwaited
  <2>3. SlotAwaited(c)
      BY <1>3, <2>2
  <2>4. PICK x \in EventsOf(c.heap) : Alone(c.heap, {"slot_end"}, x) /\ x.at = c.slotEnd
      BY <2>3 DEF SlotAwaited
  <2>5. x = e /\ Clear(rest, {"slot_end"})
      BY <1>2, <2>1, <2>4
  <2>6. Clear(rest, {"stop_end"})
      BY <1>1, <2>3, RemovedEvent DEF SlotAwaited
  <2>7. MayBeInterrupted(rest)
    <3>1. ~IsAwaited(c.heap[i], {"interrupt"})
        BY <1>4 DEF IsAwaited
    <3>2. Clear(c.heap, {"interrupt"}) => Clear(rest, {"interrupt"})
        BY <1>1, RemovedEvent
    <3>3. \A y : Alone(c.heap, {"interrupt"}, y) => Alone(rest, {"interrupt"}, y)
        BY <1>1, <3>1, RemovedEvent
    <3>4. QED
        BY <2>3, <3>2, <3>3, AloneIsThere DEF SlotAwaited, MayBeInterrupted
  <2>8. QED
      BY <2>2, <2>3, <2>4, <2>5, <2>6, <2>7 DEF SlotAwaited
<1>5. ASSUME e.kind = "interrupt"
      PROVE  c.state = "producing" /\ e.arg \in Interrupted
  <2>1. e.kind \in {"interrupt"} /\ e.kind \in {"slot_end", "interrupt"} /\ e.kind \in OfAState
      BY <1>5 DEF OfAState
  <2>2. c.state = "producing"
      BY <1>2, <1>3, <2>1 DEF BreakAwaited, StopAwaited
  <2>3. PICK x \in EventsOf(c.heap) : Alone(c.heap, {"interrupt"}, x) /\ x.arg \in Interrupted
      BY <1>2, <1>3, <2>1, <2>2 DEF SlotAwaited
  <2>4. x = e
      BY <1>2, <2>1, <2>3
  <2>5. QED
      BY <2>2, <2>3, <2>4
<1>6. ASSUME e.kind = "stop_end"
      PROVE  /\ c.state \notin {"producing", "planned"} /\ e.arg \in StopArgs(c.state)
             /\ c.state = "setup" => ~c.part.active
             /\ Clear(rest, {"stop_end"})
             /\ \A kind : Doing(c, kind) => kind = e.arg
  <2>1. e.kind \in {"stop_end"} /\ e.kind \in OfAState
      BY <1>6 DEF OfAState
  <2>2. c.state \notin {"producing", "planned"}
      BY <1>2, <1>3, <2>1 DEF BreakAwaited, SlotAwaited
  <2>3. StopAwaited(c)
      BY <1>3, <2>2
  <2>4. PICK x \in EventsOf(c.heap) : Alone(c.heap, {"stop_end"}, x) /\ x.arg \in StopArgs(c.state)
      BY <2>3 DEF StopAwaited
  <2>5. x = e /\ Clear(rest, {"stop_end"})
      BY <1>2, <2>1, <2>4
  <2>6. \A kind : Doing(c, kind) => kind = e.arg
      BY <1>2, <2>1 DEF Doing
  <2>7. QED
      BY <2>2, <2>3, <2>4, <2>5, <2>6 DEF StopAwaited
<1>7. ASSUME e.kind \in BreakKinds
      PROVE  /\ Clear(rest, BreakKinds)
             /\ c.breakActive <=> e.kind = "break_end"
             /\ e.at = IF c.breakActive THEN c.window.end ELSE c.window.start
  <2>1. PICK x \in EventsOf(c.heap) :
           /\ Alone(c.heap, BreakKinds, x)
           /\ IF c.breakActive
              THEN x.kind = "break_end" /\ x.at = c.window.end /\ c.window.start <= c.now
              ELSE /\ x.kind = "break_start" /\ x.at = c.window.start
                   /\ c.window.end - ShiftLength <= c.now
      BY DEF Going, Ready, Armed
  <2>2. x = e /\ Clear(rest, BreakKinds)
      BY <1>2, <1>7, <2>1
  <2>3. QED
      BY <2>1, <2>2
<1>8. ASSUME e.kind = "heartbeat"
      PROVE  Clear(rest, {"heartbeat"})
  <2>1. PICK x \in EventsOf(c.heap) : Alone(c.heap, {"heartbeat"}, x)
      BY DEF Going, Ready, Beats
  <2>2. QED
      BY <1>2, <1>8, <2>1
<1>9. QED
    BY <1>1, <1>4, <1>5, <1>6, <1>7, <1>8

\* The next event of a cell that goes on, taken at its time.
Taken(c, work, i, e, t) ==
    /\ Going(c, work) /\ i \in 1..Len(c.heap)
    /\ e = c.heap[i] /\ e.current /\ e.at = c.now
    /\ t = [c EXCEPT !.heap = RemoveAt(c.heap, i)]

\* What an event of a state leaves.
LEMMA StateEvent ==
    ASSUME NEW c, NEW work, NEW i, NEW e, NEW t, Taken(c, work, i, e, t), e.kind \in OfAState
    PROVE  /\ Ready(t, work) /\ t.heap = RemoveAt(c.heap, i)
           /\ t.now = c.now /\ t.state = c.state /\ t.part = c.part /\ t.slotEnd = c.slotEnd
           /\ t.breakActive = c.breakActive /\ t.capDue = c.capDue /\ t.dressingDue = c.dressingDue
           /\ t.nok = c.nok /\ t.wear = c.wear /\ t.next = c.next
           /\ t.slotRemaining = c.slotRemaining
<1>1. ~IsAwaited(e, {"heartbeat"}) /\ ~IsAwaited(e, BreakKinds)
    BY DEF IsAwaited, OfAState, BreakKinds
<1>2. QED
    BY <1>1, EventIsTaken DEF Taken, Ready

\* What was handled may be read off the cell before the event was taken.
LEMMA HandledFromBefore ==
    ASSUME NEW c, NEW t, NEW d, NEW work, Handled(t, d, work),
           t.now = c.now, t.breakActive = c.breakActive, t.state = c.state,
           t.part.active = c.part.active, t.part.idx = c.part.idx,
           ConsecutiveNok > 1 => \A restarts \in Nat : Worn(c, restarts) => Worn(t, restarts)
    PROVE  Handled(c, d, work)
<1>1. BreakStep(c, d)
    BY DEF Handled, BreakStep
<1>2. QED
    BY <1>1 DEF Handled

\* A weld point ends: the next one of the part, or what comes after the part.
LEMMA SlotEnds ==
    ASSUME NEW c, NEW work, NEW i, NEW e, NEW t, Taken(c, work, i, e, t), e.kind = "slot_end",
           NEW draw, DrawnFor("slot_end", draw),
           NEW d, d = OnSlotEnd(t, draw)
    PROVE  Handled(c, d, 0)
<1> DEFINE part == [t.part EXCEPT !.ok = @ /\ draw.ok, !.idx = @ + 1]
           x == [t EXCEPT !.slotEnd = Never, !.part = part]
           y == [x EXCEPT !.slotRemaining = t.part.slot]
<1>1. /\ Ready(t, work) /\ t.heap = RemoveAt(c.heap, i)
      /\ t.now = c.now /\ t.state = c.state /\ t.part = c.part /\ t.slotEnd = c.slotEnd
      /\ t.breakActive = c.breakActive /\ t.capDue = c.capDue /\ t.dressingDue = c.dressingDue
      /\ t.nok = c.nok /\ t.wear = c.wear /\ t.next = c.next
    BY StateEvent DEF OfAState
<1>2. /\ c.state = "producing" /\ c.part.active /\ c.slotEnd = e.at
      /\ Clear(t.heap, {"slot_end"}) /\ Clear(t.heap, {"stop_end"}) /\ MayBeInterrupted(t.heap)
    BY <1>1, AwaitedEvent DEF Taken
<1>3. /\ t \in Cells /\ t.part \in Parts /\ t.part.idx < PointsPerPart /\ t.part.idx \in Nat
      /\ t.part.slot \in Nat /\ t.part.ok \in BOOLEAN /\ PointsPerPart \in Nat
      /\ t.capDue = FALSE /\ t.dressingDue = FALSE
  <2>1. t \in Cells /\ SlotKept(t, work)
      BY <1>1 DEF Ready
  <2>2. t.part \in Parts /\ {t.capDue, t.dressingDue} \subseteq BOOLEAN
      BY <2>1 DEF Cells
  <2>3. t.part.idx < PointsPerPart /\ ~t.capDue /\ ~t.dressingDue
      BY <1>1, <1>2, <2>1 DEF SlotKept
  <2>4. t.part.slot \in Nat
      BY <2>2, PlcAssumption DEF Parts
  <2>5. t.part.idx \in Nat /\ PointsPerPart \in Nat
      BY <2>2, CellAssumption DEF Parts
  <2>6. t.part.ok \in BOOLEAN
      BY <2>2 DEF Parts
  <2>7. QED
      BY <2>1, <2>2, <2>3, <2>4, <2>5, <2>6
<1>4. draw.ok \in BOOLEAN /\ draw.duration \in Nat /\ Drawn(draw)
    BY DEF DrawnFor
<1>5. /\ part \in Parts /\ part.active = t.part.active /\ part.idx = t.part.idx + 1
      /\ part.slot = t.part.slot
  <2>1. t.part.idx + 1 \in 0..PointsPerPart /\ (t.part.ok /\ draw.ok) \in BOOLEAN
      BY <1>3, <1>4
  <2>2. QED
      BY <1>3, <2>1 DEF Parts
<1>6. /\ x \in Cells /\ x.now = t.now /\ x.heap = t.heap /\ x.state = t.state /\ x.part = part
      /\ x.slotEnd = Never /\ x.breakActive = t.breakActive /\ x.window = t.window
      /\ x.capDue = t.capDue /\ x.dressingDue = t.dressingDue
      /\ x.nok = t.nok /\ x.wear = t.wear /\ x.next = t.next
    BY <1>3, <1>5 DEF Cells
<1>7. d = IF x.part.idx < PointsPerPart THEN ScheduleSlot(y) ELSE CompletePart(x, draw)
    BY DEF OnSlotEnd
<1> HIDE DEF x, part
<1>8. Ahead(x)
    BY <1>1, <1>6 DEF Ready, Ahead
<1>9. Beats(x) /\ Armed(x)
    BY <1>1, <1>6, WorldGoesOn DEF Ready
<1>10. /\ ~CapLate(c) /\ ~DressingLate(c)
    BY <1>1, <1>2, <1>3, NothingDone DEF CapLate, DressingLate
<1>11. \A restarts \in Nat : Worn(c, restarts) => Worn(x, restarts)
    BY <1>1, <1>6, <1>10, WornKept
<1>12. CASE x.part.idx < PointsPerPart
  <2>1. /\ y \in Cells /\ y.now = x.now /\ y.heap = x.heap /\ y.state = x.state /\ y.part = x.part
        /\ y.slotEnd = Never /\ y.breakActive = x.breakActive /\ y.window = x.window
        /\ y.capDue = x.capDue /\ y.dressingDue = x.dressingDue
        /\ y.nok = x.nok /\ y.wear = x.wear /\ y.next = x.next
        /\ y.slotRemaining = t.part.slot
      BY <1>3, <1>6 DEF Cells
  <2> HIDE DEF y
  <2>2. Ahead(y)
      BY <1>8, <2>1 DEF Ahead
  <2>3. Beats(y) /\ Armed(y)
      BY <1>9, <2>1, WorldGoesOn
  <2>4. SlotKept(y, 0)
      BY <1>1, <1>2, <1>3, <1>5, <1>6, <1>12, <2>1 DEF SlotKept, Left
  <2>5. Ready(y, 0)
      BY <2>1, <2>2, <2>3, <2>4 DEF Ready
  <2>6. d = ScheduleSlot(y)
      BY <1>7, <1>12
  <2>7. y.state = "producing" /\ y.part.active
      BY <1>1, <1>2, <1>5, <1>6, <2>1
  <2>8. Clear(y.heap, {"slot_end"}) /\ Clear(y.heap, {"stop_end"}) /\ MayBeInterrupted(y.heap)
      BY <1>2, <1>6, <2>1
  <2>9. /\ Going(d, 0) /\ d.state = "producing" /\ d.part = y.part /\ d.now = y.now
        /\ d.breakActive = y.breakActive
      BY <2>1, <2>5, <2>6, <2>7, <2>8, SlotIsScheduled
  <2>10. d.wear = y.wear /\ d.next = y.next /\ d.nok = y.nok
      BY <2>1, <2>6 DEF Cells, ScheduleSlot, ScheduleIn
  <2>11. d.now = c.now /\ d.wear = c.wear /\ d.next = c.next /\ d.nok = c.nok
      BY <1>1, <1>6, <2>1, <2>9, <2>10
  <2>12. \A restarts \in Nat : Worn(c, restarts) => Worn(d, restarts)
      BY <1>10, <2>11, WornKept
  <2>13. BreakStep(c, d)
    <3>1. d.part.idx = c.part.idx + 1 /\ d.state = c.state
        BY <1>1, <1>2, <1>5, <1>6, <2>1, <2>9
    <3>2. c.state \in CellStates
        BY <1>2 DEF CellStates
    <3>3. c.part.idx \in Nat
        BY <1>1, <1>3
    <3>4. QED
        BY <1>2, <3>1, <3>2, <3>3 DEF BreakStep
  <2>14. QED
      BY <2>9, <2>11, <2>12, <2>13 DEF Handled
<1>13. CASE ~(x.part.idx < PointsPerPart)
  <2>1. d = CompletePart(x, draw)
      BY <1>7, <1>13
  <2>2. x.state = "producing" /\ x.part.active /\ ~x.capDue /\ ~x.dressingDue
      BY <1>1, <1>2, <1>3, <1>5, <1>6
  <2>3. Handled(x, d, 0)
      BY <1>4, <1>6, <1>8, <1>9, <2>1, <2>2, PartIsCompleted
  <2>4. BreakStep(c, d)
    <3>1. /\ x.part.active = c.part.active /\ x.part.idx = c.part.idx + 1 /\ x.state = c.state
          /\ x.breakActive = c.breakActive
        BY <1>1, <1>5, <1>6
    <3>2. c.part.idx \in Nat /\ d.part.idx \in Int
      <4>1. d.part \in Parts
          BY <2>3 DEF Handled, Going, Ready, Cells
      <4>2. QED
          BY <1>1, <1>3, <4>1 DEF Parts
    <3>3. d.part.idx >= x.part.idx => d.part.idx >= c.part.idx
        BY <3>1, <3>2
    <3>4. QED
        BY <2>3, <3>1, <3>3 DEF Handled, BreakStep
  <2>5. d.now = c.now
      BY <1>1, <1>6, <2>3 DEF Handled
  <2>6. QED
      BY <1>11, <2>3, <2>4, <2>5 DEF Handled
<1>14. QED
    BY <1>12, <1>13

\* A fault or a starvation interrupts production.
LEMMA Interrupts ==
    ASSUME NEW c, NEW work, NEW i, NEW e, NEW t, Taken(c, work, i, e, t), e.kind = "interrupt",
           NEW draw, DrawnFor("interrupt", draw),
           NEW d, d = OnInterrupt(t, e.arg, draw)
    PROVE  Handled(c, d, work)
<1>1. /\ Ready(t, work)
      /\ t.now = c.now /\ t.state = c.state /\ t.part = c.part
      /\ t.breakActive = c.breakActive /\ t.capDue = c.capDue /\ t.dressingDue = c.dressingDue
      /\ t.nok = c.nok /\ t.wear = c.wear /\ t.next = c.next
    BY StateEvent DEF OfAState
<1>2. c.state = "producing" /\ e.arg \in Interrupted
    BY AwaitedEvent DEF Taken
<1>3. \A kind : ~Doing(t, kind) /\ ~Doing(c, kind)
    BY <1>1, <1>2, NothingDone
<1>4. draw.duration \in Nat
    BY DEF DrawnFor
<1>5. d = ScheduleIn(Enter(t, e.arg), draw.duration, "stop_end", e.arg)
    BY <1>2 DEF OnInterrupt, EnterFault, Interrupted
<1>6. e.arg \in {"fault", "starved", "manual"} /\ e.arg # "manual"
    BY <1>2 DEF Interrupted
<1>7. Handled(t, d, work)
    BY <1>1, <1>2, <1>3, <1>4, <1>5, <1>6, HandledByStopping
<1>8. \A restarts \in Nat : Worn(c, restarts) => Worn(t, restarts)
    BY <1>1, <1>3, WornKept DEF CapLate, DressingLate
<1>9. QED
    BY <1>1, <1>7, <1>8, HandledFromBefore

\* A setup is done: the electrodes are as good as new.
LEMMA SetupIsFinished ==
    ASSUME NEW c, NEW work, NEW i, NEW e, NEW t, Taken(c, work, i, e, t),
           e.kind = "stop_end", e.arg \in {"cap_change", "dressing"},
           NEW draw, DrawnFor("stop_end", draw),
           NEW f, f = FinishSetup(t, e.arg, draw)
    PROVE  /\ Ready(f, work)
           /\ f.now = c.now /\ f.state = c.state /\ f.part = c.part /\ f.heap = t.heap
           /\ f.breakActive = c.breakActive
           /\ \A restarts \in Nat : Worn(c, restarts) => Worn(f, restarts)
<1>1. /\ Ready(t, work)
      /\ t.now = c.now /\ t.state = c.state /\ t.part = c.part /\ t.slotEnd = c.slotEnd
      /\ t.breakActive = c.breakActive /\ t.capDue = c.capDue /\ t.dressingDue = c.dressingDue
      /\ t.nok = c.nok /\ t.wear = c.wear /\ t.next = c.next
      /\ t.slotRemaining = c.slotRemaining
    BY StateEvent DEF OfAState
<1>2. /\ t \in Cells /\ t.wear \in [cap : Nat, dressing : Nat] /\ t.next \in Thresholds
      /\ draw.next \in Thresholds
      /\ c.next.cap \in Nat \ {0} /\ c.next.dressing \in Nat \ {0}
      /\ draw.next.cap \in Nat \ {0} /\ draw.next.dressing \in Nat \ {0}
  <2>1. t \in Cells /\ draw.next \in Thresholds
      BY <1>1 DEF Ready, DrawnFor
  <2>2. t.wear \in [cap : Nat, dressing : Nat] /\ t.next \in Thresholds
      BY <2>1 DEF Cells
  <2>3. \A next \in Thresholds : next.cap \in Nat \ {0} /\ next.dressing \in Nat \ {0}
      BY CellAssumption DEF Thresholds
  <2>4. QED
      BY <1>1, <2>1, <2>2, <2>3
<1>3. /\ f \in Cells
      /\ f.now = t.now /\ f.state = t.state /\ f.part = t.part /\ f.slotEnd = t.slotEnd
      /\ f.breakActive = t.breakActive /\ f.capDue = t.capDue /\ f.dressingDue = t.dressingDue
      /\ f.nok = t.nok /\ f.heap = t.heap /\ f.window = t.window
      /\ f.slotRemaining = t.slotRemaining
      /\ f.wear.dressing = 0 /\ f.next.dressing = draw.next.dressing
      /\ e.arg = "cap_change" => f.wear.cap = 0 /\ f.next.cap = draw.next.cap
      /\ e.arg = "dressing" => f.wear.cap = t.wear.cap /\ f.next.cap = t.next.cap
  <2>1. CASE e.arg = "cap_change"
    <3> DEFINE wear == [cap |-> 0, dressing |-> 0]
    <3>1. f = [t EXCEPT !.wear = wear, !.next = draw.next]
        BY <2>1 DEF FinishSetup
    <3>2. wear \in [cap : Nat, dressing : Nat] /\ wear.cap = 0 /\ wear.dressing = 0
        OBVIOUS
    <3> HIDE DEF wear
    <3>3. QED
        BY <1>2, <2>1, <3>1, <3>2 DEF Cells
  <2>2. CASE e.arg = "dressing"
    <3> DEFINE wear == [t.wear EXCEPT !.dressing = 0]
               next == [t.next EXCEPT !.dressing = draw.next.dressing]
    <3>1. f = [t EXCEPT !.wear = wear, !.next = next]
        BY <1>2, <2>2 DEF FinishSetup, Cells
    <3>2. /\ wear \in [cap : Nat, dressing : Nat] /\ wear.dressing = 0
          /\ wear.cap = t.wear.cap
        BY <1>2
    <3>3. /\ next \in Thresholds /\ next.dressing = draw.next.dressing
          /\ next.cap = t.next.cap
        BY <1>2 DEF Thresholds
    <3> HIDE DEF wear, next
    <3>4. QED
        BY <1>2, <2>2, <3>1, <3>2, <3>3, ZenonT(40) DEF Cells
  <2>3. QED
      BY <2>1, <2>2
<1>4. Ready(f, work)
  <2>1. Ahead(f)
      BY <1>1, <1>3 DEF Ready, Ahead
  <2>2. Beats(f) /\ Armed(f)
      BY <1>1, <1>3, WorldGoesOn DEF Ready
  <2>3. SlotKept(f, work)
      BY <1>1, <1>3 DEF Ready, SlotKept, Left
  <2>4. QED
      BY <1>1, <1>3, <2>1, <2>2, <2>3 DEF Ready
<1>5. ASSUME NEW restarts \in Nat, Worn(c, restarts)
      PROVE  Worn(f, restarts)
  <2>1. Below(f.wear.dressing, f.next.dressing + restarts, f.nok)
        /\ f.wear.dressing <= f.next.dressing + 1 + restarts
      BY <1>2, <1>3 DEF Below
  <2>2. CASE e.arg = "cap_change"
    <3>1. /\ Below(f.wear.cap, f.next.cap + restarts, f.nok)
          /\ f.wear.cap <= f.next.cap + 1 + restarts
        BY <1>2, <1>3, <2>2 DEF Below
    <3>2. QED
        BY <2>1, <3>1 DEF Worn
  <2>3. CASE e.arg = "dressing"
    <3>1. ~Doing(c, "cap_change")
        BY <2>3, AwaitedEvent DEF Taken
    <3>2. CapLate(c) => CapLate(f)
        BY <1>1, <1>3, <3>1 DEF CapLate
    <3>3. f.wear.cap = c.wear.cap /\ f.next.cap = c.next.cap /\ f.nok = c.nok
        BY <1>1, <1>3, <2>3
    <3>4. QED
        BY <1>5, <2>1, <3>2, <3>3 DEF Worn
  <2>4. QED
      BY <2>2, <2>3
<1>6. QED
    BY <1>1, <1>3, <1>4, <1>5

\* A stop ends, whichever it is.
LEMMA StopEnds ==
    ASSUME NEW c, NEW work, NEW i, NEW e, NEW t, Taken(c, work, i, e, t), e.kind = "stop_end",
           NEW draw, DrawnFor("stop_end", draw),
           NEW d, d = OnStopEnd(t, e.arg, draw)
    PROVE  Handled(c, d, work)
<1>1. /\ Ready(t, work) /\ t.heap = RemoveAt(c.heap, i)
      /\ t.now = c.now /\ t.state = c.state /\ t.part = c.part
      /\ t.breakActive = c.breakActive /\ t.capDue = c.capDue /\ t.dressingDue = c.dressingDue
      /\ t.nok = c.nok /\ t.wear = c.wear /\ t.next = c.next
    BY StateEvent DEF OfAState
<1>2. /\ c.state \notin {"producing", "planned"} /\ e.arg \in StopArgs(c.state)
      /\ Clear(t.heap, {"stop_end"})
      /\ \A kind : Doing(c, kind) => kind = e.arg
    BY <1>1, AwaitedEvent DEF Taken
<1>3. \A x : Alone(t.heap, {"stop_end"}, x) => FALSE
    BY <1>2 DEF Alone, Clear
<1>4. Drawn(draw) /\ draw.duration \in Nat /\ draw.manual \in BOOLEAN
    BY DEF DrawnFor
<1>5. CASE e.arg \in {"cap_change", "dressing"}
  <2> DEFINE f == FinishSetup(t, e.arg, draw)
  <2>1. /\ Ready(f, work)
        /\ f.now = c.now /\ f.state = c.state /\ f.part = c.part /\ f.heap = t.heap
        /\ f.breakActive = c.breakActive
        /\ \A restarts \in Nat : Worn(c, restarts) => Worn(f, restarts)
      BY <1>5, SetupIsFinished
  <2>2. d = Resume(f, draw)
      BY <1>5 DEF OnStopEnd
  <2> HIDE DEF f
  <2>3. \A kind : ~Doing(f, kind)
      BY <1>3, <2>1 DEF Doing
  <2>4. Handled(f, d, work)
      BY <1>4, <2>1, <2>2, <2>3, HandledByResuming
  <2>5. QED
      BY <2>1, <2>4, HandledFromBefore
<1>6. CASE e.arg \notin {"cap_change", "dressing"}
  <2>1. c.state # "setup" /\ e.arg = c.state
      BY <1>2, <1>6 DEF StopArgs
  <2>2. \A kind : ~Doing(c, kind) /\ ~Doing(t, kind)
      BY <1>1, <2>1, NothingDone
  <2>3. \A restarts \in Nat : Worn(c, restarts) => Worn(t, restarts)
      BY <1>1, <2>2, WornKept DEF CapLate, DressingLate
  <2>4. Handled(t, d, work)
    <3>1. CASE e.arg = "fault" /\ draw.manual
      <4>1. d = ScheduleIn(Enter(t, "manual"), draw.duration, "stop_end", "manual")
          BY <3>1 DEF OnStopEnd
      <4>2. t.state = "fault"
          BY <1>1, <2>1, <3>1
      <4>3. QED
          BY <1>1, <1>4, <2>2, <4>1, <4>2, HandledByStopping
    <3>2. CASE ~(e.arg = "fault" /\ draw.manual)
      <4>1. d = Resume(t, draw)
          BY <1>6, <3>2 DEF OnStopEnd
      <4>2. QED
          BY <1>1, <1>4, <2>2, <4>1, HandledByResuming
    <3>3. QED
        BY <3>1, <3>2
  <2>5. QED
      BY <1>1, <2>3, <2>4, HandledFromBefore
<1>7. QED
    BY <1>5, <1>6

\* An event of no state is taken, and the next of its kind awaited.
LEMMA OtherEvent ==
    ASSUME NEW c, NEW work, NEW i, NEW e, NEW t, Taken(c, work, i, e, t), e.kind \notin OfAState
    PROVE  /\ t \in Cells /\ work \in Nat /\ Ahead(t) /\ SlotKept(t, work)
           /\ e.kind # "heartbeat" => Beats(t)
           /\ e.kind \notin BreakKinds => Armed(t)
           /\ t.heap \in Seq(Events) /\ t.heap = RemoveAt(c.heap, i)
           /\ t.now = c.now /\ t.state = c.state /\ t.part = c.part /\ t.slotEnd = c.slotEnd
           /\ t.slotRemaining = c.slotRemaining
           /\ t.breakActive = c.breakActive /\ t.window = c.window
           /\ t.capDue = c.capDue /\ t.dressingDue = c.dressingDue
           /\ t.nok = c.nok /\ t.wear = c.wear /\ t.next = c.next
           /\ \A z \in Events : z.kind \notin OfAState =>
                 \A kinds \in SUBSET OfAState :
                    /\ Clear(c.heap, kinds) => Clear(Append(t.heap, z), kinds)
                    /\ \A x : Alone(c.heap, kinds, x) => Alone(Append(t.heap, z), kinds, x)
<1>1. /\ t \in Cells /\ work \in Nat /\ Ahead(t) /\ SlotKept(t, work)
      /\ ~IsAwaited(e, {"heartbeat"}) => Beats(t)
      /\ ~IsAwaited(e, BreakKinds) => Armed(t)
      /\ t.now = c.now /\ t.heap = RemoveAt(c.heap, i) /\ t.state = c.state
      /\ t.part = c.part /\ t.slotEnd = c.slotEnd /\ t.slotRemaining = c.slotRemaining
      /\ t.breakActive = c.breakActive /\ t.window = c.window
      /\ t.dressingDue = c.dressingDue /\ t.capDue = c.capDue
      /\ t.nok = c.nok /\ t.wear = c.wear /\ t.next = c.next
    BY EventIsTaken DEF Taken
<1>2. c.heap \in Seq(Events) /\ i \in 1..Len(c.heap) /\ e = c.heap[i]
    BY DEF Taken, Going, Ready, Cells
<1>3. t.heap \in Seq(Events)
    BY <1>1 DEF Cells
<1>4. ASSUME NEW z \in Events, z.kind \notin OfAState, NEW kinds \in SUBSET OfAState
      PROVE  /\ Clear(c.heap, kinds) => Clear(Append(t.heap, z), kinds)
             /\ \A x : Alone(c.heap, kinds, x) => Alone(Append(t.heap, z), kinds, x)
  <2>1. ~IsAwaited(e, kinds) /\ ~IsAwaited(z, kinds)
      BY <1>4 DEF IsAwaited
  <2>2. /\ Clear(c.heap, kinds) => Clear(t.heap, kinds)
        /\ \A x : Alone(c.heap, kinds, x) => Alone(t.heap, kinds, x)
      BY <1>1, <1>2, <2>1, RemovedEvent
  <2>3. /\ Clear(t.heap, kinds) => Clear(Append(t.heap, z), kinds)
        /\ \A x : Alone(t.heap, kinds, x) => Alone(Append(t.heap, z), kinds, x)
      BY <1>3, <2>1, AppendedEvent
  <2>4. QED
      BY <2>2, <2>3
<1>5. e.kind # "heartbeat" => ~IsAwaited(e, {"heartbeat"})
    BY DEF IsAwaited
<1>6. e.kind \notin BreakKinds => ~IsAwaited(e, BreakKinds)
    BY DEF IsAwaited
<1>7. QED
    BY <1>1, <1>3, <1>4, <1>5, <1>6

\* What is worn is late by what is due or under way.
LEMMA WornWhileDoing ==
    ASSUME NEW c, NEW d, d.wear = c.wear, d.next = c.next, d.nok = c.nok,
           d.capDue = c.capDue, d.dressingDue = c.dressingDue,
           \A kind : Doing(c, kind) => Doing(d, kind)
    PROVE  \A restarts \in Nat : Worn(c, restarts) => Worn(d, restarts)
BY WornKept DEF CapLate, DressingLate

\* A heartbeat is followed by the next one.
LEMMA HeartbeatGoesOn ==
    ASSUME NEW c, NEW work, NEW i, NEW e, NEW t, Taken(c, work, i, e, t), e.kind = "heartbeat",
           NEW d, d = OnHeartbeat(t)
    PROVE  Handled(c, d, work)
<1> DEFINE y == [at |-> t.now + HeartbeatPeriod, kind |-> "heartbeat", arg |-> None,
                 current |-> TRUE]
<1>1. e.kind \notin OfAState /\ e.kind \notin BreakKinds
    BY DEF OfAState, BreakKinds
<1>2. /\ t \in Cells /\ work \in Nat /\ Ahead(t) /\ SlotKept(t, work) /\ Armed(t)
      /\ t.heap \in Seq(Events) /\ t.heap = RemoveAt(c.heap, i)
      /\ t.now = c.now /\ t.state = c.state /\ t.part = c.part /\ t.slotEnd = c.slotEnd
      /\ t.breakActive = c.breakActive
      /\ t.capDue = c.capDue /\ t.dressingDue = c.dressingDue
      /\ t.nok = c.nok /\ t.wear = c.wear /\ t.next = c.next
    BY <1>1, OtherEvent
<1>3. \A z \in Events : z.kind \notin OfAState =>
          \A kinds \in SUBSET OfAState :
             /\ Clear(c.heap, kinds) => Clear(Append(t.heap, z), kinds)
             /\ \A x : Alone(c.heap, kinds, x) => Alone(Append(t.heap, z), kinds, x)
    BY <1>1, OtherEvent
<1>4. HeartbeatPeriod \in Nat /\ "heartbeat" \in Kinds /\ None \in Causes
    BY CellAssumption DEF Kinds, Causes
<1>5. d = ScheduleIn(t, HeartbeatPeriod, "heartbeat", None)
    BY DEF OnHeartbeat
<1>6. y.kind = "heartbeat" /\ y.current = TRUE /\ y.at = t.now + HeartbeatPeriod
    OBVIOUS
<1>7. y = [at |-> t.now + HeartbeatPeriod, kind |-> "heartbeat", arg |-> None, current |-> TRUE]
    OBVIOUS
<1> HIDE DEF y
<1>8. /\ d \in Cells /\ Ahead(d) /\ y \in Events
      /\ d = [t EXCEPT !.heap = Append(t.heap, y)] /\ d.heap = Append(t.heap, y)
    BY <1>2, <1>4, <1>5, <1>7, ScheduledEvent
<1>9. /\ d.now = t.now /\ d.state = t.state /\ d.part = t.part /\ d.slotEnd = t.slotEnd
      /\ d.slotRemaining = t.slotRemaining
      /\ d.breakActive = t.breakActive /\ d.window = t.window
      /\ d.capDue = t.capDue /\ d.dressingDue = t.dressingDue
      /\ d.nok = t.nok /\ d.wear = t.wear /\ d.next = t.next
    BY <1>2, <1>8 DEF Cells
<1>10. IsAwaited(y, {"heartbeat"}) /\ ~IsAwaited(y, BreakKinds) /\ y.kind \notin OfAState
    BY <1>6 DEF IsAwaited, BreakKinds, OfAState
<1>11. Beats(d)
  <2>1. Clear(t.heap, {"heartbeat"})
      BY <1>2, AwaitedEvent DEF Taken
  <2>2. Alone(d.heap, {"heartbeat"}, y)
      BY <1>2, <1>8, <1>10, <2>1, AppendedEvent
  <2>3. y \in EventsOf(d.heap)
      BY <2>2, AloneIsThere
  <2>4. y.at <= d.now + HeartbeatPeriod
    <3>1. t.now \in Nat
        BY <1>2 DEF Cells
    <3>2. QED
        BY <1>4, <1>6, <1>9, <3>1
  <2>5. QED
      BY <2>2, <2>3, <2>4 DEF Beats
<1>12. Armed(d)
  <2>1. PICK x \in EventsOf(t.heap) :
           /\ Alone(t.heap, BreakKinds, x)
           /\ IF t.breakActive
              THEN x.kind = "break_end" /\ x.at = t.window.end /\ t.window.start <= t.now
              ELSE /\ x.kind = "break_start" /\ x.at = t.window.start
                   /\ t.window.end - ShiftLength <= t.now
      BY <1>2 DEF Armed
  <2>2. Alone(d.heap, BreakKinds, x)
    <3>1. Alone(Append(t.heap, y), BreakKinds, x)
        BY <1>2, <1>8, <1>10, <2>1, AppendedEvent
    <3>2. QED
        BY <1>8, <3>1
  <2>3. x \in EventsOf(d.heap)
      BY <2>2, AloneIsThere
  <2>4. IsBreak(d.window)
      BY <1>2, <1>9 DEF Armed
  <2>5. QED
      BY <1>9, <2>1, <2>2, <2>3, <2>4 DEF Armed
<1>13. SlotKept(d, work)
    BY <1>2, <1>9 DEF SlotKept, Left
<1>14. Ready(d, work)
    BY <1>2, <1>8, <1>11, <1>12, <1>13 DEF Ready
<1>15. WayOut(d) /\ \A kind : Doing(c, kind) => Doing(d, kind)
  <2>1. WayOut(c) /\ (c.state = "planned" => c.breakActive)
      BY DEF Taken, Going, WayOut, BreakAwaited
  <2>2. \A kinds \in SUBSET OfAState :
           /\ Clear(c.heap, kinds) => Clear(d.heap, kinds)
           /\ \A x : Alone(c.heap, kinds, x) => Alone(d.heap, kinds, x)
      BY <1>8, <1>10, <1>3
  <2>3. QED
      BY <1>2, <1>9, <2>1, <2>2, WayOutKept
<1>16. \A restarts \in Nat : Worn(c, restarts) => Worn(d, restarts)
    BY <1>2, <1>9, <1>15, WornWhileDoing
<1>17. BreakStep(c, d)
  <2>1. c.state \in CellStates /\ c.part.idx \in Nat
    <3>1. c \in Cells
        BY DEF Taken, Going, Ready
    <3>2. QED
        BY <3>1, CellAssumption DEF Cells, Parts
  <2>2. d.state = c.state /\ d.part = c.part
      BY <1>2, <1>9
  <2>3. QED
      BY <2>1, <2>2 DEF BreakStep
<1>18. QED
    BY <1>2, <1>9, <1>14, <1>15, <1>16, <1>17 DEF Handled, Going

\* An event of a state that was left does nothing.
LEMMA VoidEvent ==
    ASSUME NEW c, NEW work, Going(c, work), NEW i \in 1..Len(c.heap), NEW e, e = c.heap[i],
           ~e.current,
           NEW d, d = [c EXCEPT !.heap = RemoveAt(c.heap, i)]
    PROVE  Handled(c, d, work)
<1>1. \A kinds : ~IsAwaited(e, kinds)
    BY DEF IsAwaited
<1>2. /\ d \in Cells /\ work \in Nat /\ Ahead(d) /\ SlotKept(d, work) /\ Beats(d) /\ Armed(d)
      /\ d.now = c.now /\ d.heap = RemoveAt(c.heap, i) /\ d.state = c.state
      /\ d.part = c.part /\ d.slotEnd = c.slotEnd /\ d.slotRemaining = c.slotRemaining
      /\ d.breakActive = c.breakActive /\ d.window = c.window
      /\ d.dressingDue = c.dressingDue /\ d.capDue = c.capDue
      /\ d.nok = c.nok /\ d.wear = c.wear /\ d.next = c.next
    BY <1>1, EventIsTaken
<1>3. c.heap \in Seq(Events) /\ c.state \in CellStates /\ c.part.idx \in Nat
    BY CellAssumption DEF Going, Ready, Cells, Parts
<1>4. \A kinds :
         /\ Clear(c.heap, kinds) => Clear(d.heap, kinds)
         /\ \A x : Alone(c.heap, kinds, x) => Alone(d.heap, kinds, x)
    BY <1>1, <1>2, <1>3, RemovedEvent
<1>5. WayOut(d) /\ \A kind : Doing(c, kind) => Doing(d, kind)
  <2>1. WayOut(c) /\ (c.state = "planned" => c.breakActive)
      BY DEF Going, WayOut, BreakAwaited
  <2>2. QED
      BY <1>2, <1>4, <2>1, WayOutKept
<1>6. \A restarts \in Nat : Worn(c, restarts) => Worn(d, restarts)
    BY <1>2, <1>5, WornWhileDoing
<1>7. BreakStep(c, d)
    BY <1>2, <1>3 DEF BreakStep
<1>8. QED
    BY <1>2, <1>5, <1>6, <1>7 DEF Handled, Going, Ready

\* A break begins: an idle cell takes it at once.
LEMMA BreakStarts ==
    ASSUME NEW c, NEW work, NEW i, NEW e, NEW t, Taken(c, work, i, e, t), e.kind = "break_start",
           NEW draw, Drawn(draw),
           NEW d, d = OnBreakStart(t, draw)
    PROVE  Handled(c, d, work)
<1> DEFINE b == [t EXCEPT !.breakActive = TRUE]
           delay == t.window.end - t.now
           y == [at |-> b.now + delay, kind |-> "break_end", arg |-> None, current |-> TRUE]
           begun == ScheduleIn(b, delay, "break_end", None)
<1>1. e.kind \notin OfAState /\ e.kind \in BreakKinds /\ e.kind # "heartbeat"
    BY DEF OfAState, BreakKinds
<1>2. /\ t \in Cells /\ work \in Nat /\ Ahead(t) /\ SlotKept(t, work) /\ Beats(t)
      /\ t.heap \in Seq(Events) /\ t.heap = RemoveAt(c.heap, i)
      /\ t.now = c.now /\ t.state = c.state /\ t.part = c.part /\ t.slotEnd = c.slotEnd
      /\ t.breakActive = c.breakActive /\ t.window = c.window
      /\ t.capDue = c.capDue /\ t.dressingDue = c.dressingDue
      /\ t.nok = c.nok /\ t.wear = c.wear /\ t.next = c.next
    BY <1>1, OtherEvent
<1>3. \A z \in Events : z.kind \notin OfAState =>
          \A kinds \in SUBSET OfAState :
             /\ Clear(c.heap, kinds) => Clear(Append(t.heap, z), kinds)
             /\ \A x : Alone(c.heap, kinds, x) => Alone(Append(t.heap, z), kinds, x)
    BY <1>1, OtherEvent
<1>4. Clear(t.heap, BreakKinds) /\ ~c.breakActive /\ e.at = c.window.start
    BY <1>1, <1>2, AwaitedEvent DEF Taken
<1>5. PICK k \in Int : c.window = Break(k)
    BY DEF Taken, Going, Ready, Armed, IsBreak
<1>6. /\ t.window.start = t.now /\ t.window.end = t.now + BreakLength
      /\ t.now \in Nat /\ BreakLength \in Nat
  <2>1. t.window.start = t.now
      BY <1>2, <1>4 DEF Taken
  <2>2. t.window.end = t.window.start + BreakLength
      BY <1>2, <1>5, WindowAfter
  <2>3. t.now \in Nat /\ BreakLength \in Nat
      BY <1>2, CellAssumption DEF Cells
  <2>4. QED
      BY <2>1, <2>2, <2>3
<1>7. delay \in Nat
    BY <1>6
<1>8. /\ b \in Cells /\ b.breakActive = TRUE /\ b.window = t.window /\ b.heap = t.heap
      /\ b.state = t.state /\ b.now = t.now /\ b.part = t.part
      /\ b.slotEnd = t.slotEnd /\ b.slotRemaining = t.slotRemaining
      /\ b.dressingDue = t.dressingDue /\ b.capDue = t.capDue
      /\ b.nok = t.nok /\ b.wear = t.wear /\ b.next = t.next
    BY <1>2 DEF Cells
<1>9. d = IF t.state = "starved" THEN Resume(begun, draw) ELSE begun
    BY DEF OnBreakStart
<1>10. y.kind = "break_end" /\ y.current = TRUE /\ y.at = t.window.end
    BY <1>6, <1>8
<1>11. y = [at |-> b.now + delay, kind |-> "break_end", arg |-> None, current |-> TRUE]
       /\ begun = ScheduleIn(b, delay, "break_end", None)
    OBVIOUS
<1> HIDE DEF b, y, begun, delay
<1>12. "break_end" \in Kinds /\ None \in Causes
    BY DEF Kinds, BreakKinds, Causes
<1>13. Ahead(b)
    BY <1>2, <1>8 DEF Ahead
<1>14. /\ begun \in Cells /\ Ahead(begun) /\ y \in Events
       /\ begun = [b EXCEPT !.heap = Append(b.heap, y)] /\ begun.heap = Append(b.heap, y)
    BY <1>7, <1>8, <1>11, <1>12, <1>13, ScheduledEvent
<1>15. /\ begun.now = t.now /\ begun.state = t.state /\ begun.part = t.part
       /\ begun.slotEnd = t.slotEnd /\ begun.slotRemaining = t.slotRemaining
       /\ begun.breakActive = TRUE /\ begun.window = t.window
       /\ begun.capDue = t.capDue /\ begun.dressingDue = t.dressingDue
       /\ begun.nok = t.nok /\ begun.wear = t.wear /\ begun.next = t.next
       /\ begun.heap = Append(t.heap, y)
    BY <1>8, <1>14 DEF Cells
<1>16. IsAwaited(y, BreakKinds) /\ ~IsAwaited(y, {"heartbeat"}) /\ y.kind \notin OfAState
    BY <1>10 DEF IsAwaited, BreakKinds, OfAState
<1>17. Beats(begun)
  <2>1. PICK x \in EventsOf(t.heap) : /\ Alone(t.heap, {"heartbeat"}, x)
                                      /\ x.at <= t.now + HeartbeatPeriod
      BY <1>2 DEF Beats
  <2>2. Alone(Append(t.heap, y), {"heartbeat"}, x)
      BY <1>2, <1>14, <1>16, <2>1, AppendedEvent
  <2>3. Alone(begun.heap, {"heartbeat"}, x)
      BY <1>15, <2>2
  <2>4. x \in EventsOf(begun.heap)
      BY <2>3, AloneIsThere
  <2>5. QED
      BY <1>15, <2>1, <2>3, <2>4 DEF Beats
<1>18. Armed(begun)
  <2>1. Alone(Append(t.heap, y), BreakKinds, y)
      BY <1>2, <1>4, <1>14, <1>16, AppendedEvent
  <2>2. Alone(begun.heap, BreakKinds, y)
      BY <1>15, <2>1
  <2>3. y \in EventsOf(begun.heap)
      BY <2>2, AloneIsThere
  <2>4. IsBreak(begun.window)
      BY <1>2, <1>5, <1>15 DEF IsBreak
  <2>5. y.kind = "break_end" /\ y.at = begun.window.end /\ begun.window.start <= begun.now
      BY <1>6, <1>10, <1>15
  <2>6. QED
      BY <1>15, <2>2, <2>3, <2>4, <2>5 DEF Armed
<1>19. SlotKept(begun, work)
    BY <1>2, <1>15 DEF SlotKept, Left
<1>20. Ready(begun, work)
    BY <1>2, <1>14, <1>17, <1>18, <1>19 DEF Ready
<1>21. WayOut(begun) /\ \A kind : Doing(c, kind) => Doing(begun, kind)
  <2>1. WayOut(c)
      BY DEF Taken, Going
  <2>2. \A kinds \in SUBSET OfAState :
           /\ Clear(c.heap, kinds) => Clear(begun.heap, kinds)
           /\ \A x : Alone(c.heap, kinds, x) => Alone(begun.heap, kinds, x)
      BY <1>3, <1>14, <1>15, <1>16
  <2>3. QED
      BY <1>2, <1>15, <2>1, <2>2, WayOutKept
<1>22. \A restarts \in Nat : Worn(c, restarts) => Worn(begun, restarts)
    BY <1>2, <1>15, <1>21, WornWhileDoing
<1>23. Handled(begun, d, work)
  <2>1. CASE t.state = "starved"
    <3>1. d = Resume(begun, draw)
        BY <1>9, <2>1
    <3>2. \A kind : ~Doing(begun, kind)
        BY <1>15, <2>1, NothingDone
    <3>3. QED
        BY <1>20, <3>1, <3>2, HandledByResuming
  <2>2. CASE t.state # "starved"
    <3>1. d = begun
        BY <1>9, <2>2
    <3>2. begun.state \in CellStates /\ begun.part.idx \in Nat
      <4>1. begun.part \in Parts /\ begun.state \in CellStates
          BY <1>14 DEF Cells
      <4>2. QED
          BY <4>1, CellAssumption DEF Parts
    <3>3. BreakStep(begun, begun)
        BY <3>2 DEF BreakStep
    <3>4. QED
        BY <1>20, <1>21, <3>1, <3>3 DEF Handled, Going
  <2>3. QED
      BY <2>1, <2>2
<1>24. BreakStep(c, d)
    BY <1>4 DEF BreakStep
<1>25. QED
    BY <1>2, <1>15, <1>22, <1>23, <1>24 DEF Handled

\* A break ends, and the cell that took it goes on.
LEMMA BreakEnds ==
    ASSUME NEW c, NEW work, NEW i, NEW e, NEW t, Taken(c, work, i, e, t), e.kind = "break_end",
           NEW draw, Drawn(draw),
           NEW d, d = OnBreakEnd(t, draw)
    PROVE  Handled(c, d, work)
<1> DEFINE b == [t EXCEPT !.breakActive = FALSE]
           after == (IF t.now > t.window.end THEN t.now ELSE t.window.end) + 1
           over == ArmBreak(b, after)
<1>1. e.kind \notin OfAState /\ e.kind \in BreakKinds /\ e.kind # "heartbeat"
    BY DEF OfAState, BreakKinds
<1>2. /\ t \in Cells /\ work \in Nat /\ Ahead(t) /\ SlotKept(t, work) /\ Beats(t)
      /\ t.heap \in Seq(Events) /\ t.heap = RemoveAt(c.heap, i)
      /\ t.now = c.now /\ t.state = c.state /\ t.part = c.part /\ t.slotEnd = c.slotEnd
      /\ t.breakActive = c.breakActive /\ t.window = c.window
      /\ t.capDue = c.capDue /\ t.dressingDue = c.dressingDue
      /\ t.nok = c.nok /\ t.wear = c.wear /\ t.next = c.next
    BY <1>1, OtherEvent
<1>3. \A z \in Events : z.kind \notin OfAState =>
          \A kinds \in SUBSET OfAState :
             /\ Clear(c.heap, kinds) => Clear(Append(t.heap, z), kinds)
             /\ \A x : Alone(c.heap, kinds, x) => Alone(Append(t.heap, z), kinds, x)
    BY <1>1, OtherEvent
<1>4. Clear(t.heap, BreakKinds) /\ c.breakActive /\ e.at = c.window.end
    BY <1>1, <1>2, AwaitedEvent DEF Taken
<1>5. PICK k \in Int : c.window = Break(k)
    BY DEF Taken, Going, Ready, Armed, IsBreak
<1>6. t.now = Break(k).end /\ t.window.end = t.now /\ t.now \in Nat /\ ShiftLength \in Nat \ {0}
  <2>1. t.now = Break(k).end /\ t.window.end = t.now
      BY <1>2, <1>4, <1>5 DEF Taken
  <2>2. t.now \in Nat /\ ShiftLength \in Nat \ {0}
      BY <1>2, CellAssumption, SMTT(20) DEF Cells
  <2>3. QED
      BY <2>1, <2>2
<1>7. after = Break(k).end + 1 /\ after \in Int
    BY <1>6
<1>8. /\ NextWindow(after) = Break(k + 1) /\ k + 1 \in Int
      /\ Break(k + 1).end = Break(k).end + ShiftLength
      /\ Break(k).end < Break(k + 1).start /\ Break(k + 1).start \in Int
  <2>1. Break(k + 1) \in [start : Int, end : Int]
      BY WindowAfter
  <2>2. QED
      BY <1>7, <2>1, WindowAfter
<1>9. /\ b \in Cells /\ b.breakActive = FALSE /\ b.window = t.window /\ b.heap = t.heap
      /\ b.state = t.state /\ b.now = t.now /\ b.part = t.part
      /\ b.slotEnd = t.slotEnd /\ b.slotRemaining = t.slotRemaining
      /\ b.dressingDue = t.dressingDue /\ b.capDue = t.capDue
      /\ b.nok = t.nok /\ b.wear = t.wear /\ b.next = t.next
    BY <1>2 DEF Cells
<1>10. d = IF t.state = "planned" THEN Resume(over, draw) ELSE over
    BY DEF OnBreakEnd
<1>11. over = ArmBreak(b, after)
    OBVIOUS
<1> HIDE DEF b, after, over
<1>12. Ahead(b)
    BY <1>2, <1>9 DEF Ahead
<1>13. Beats(b)
    BY <1>2, <1>9 DEF Beats
<1>14. Break(k + 1).end > b.now /\ Break(k + 1).end - ShiftLength <= b.now
    BY <1>6, <1>8, <1>9
<1>15. /\ over \in Cells /\ Ahead(over) /\ Beats(over) /\ Armed(over)
       /\ over.breakActive <=> Break(k + 1).start <= b.now
       /\ \E z \in Events : z.kind \in BreakKinds /\ over.heap = Append(b.heap, z)
       /\ over.state = b.state /\ over.now = b.now /\ over.part = b.part
       /\ over.slotEnd = b.slotEnd /\ over.slotRemaining = b.slotRemaining
       /\ over.dressingDue = b.dressingDue /\ over.capDue = b.capDue
       /\ over.nok = b.nok /\ over.wear = b.wear /\ over.next = b.next
  <2>1. Unarmed(b, after, k + 1)
      BY <1>4, <1>8, <1>9, <1>12, <1>13, <1>14 DEF Unarmed
  <2>2. Rearmed(b, over, k + 1)
      BY <1>11, <2>1, ArmBreakArms
  <2>3. QED
      BY <2>2 DEF Rearmed
<1>16. ~over.breakActive
  <2>1. ~(Break(k + 1).start <= b.now)
      BY <1>6, <1>8, <1>9
  <2>2. QED
      BY <1>15, <2>1
<1>17. SlotKept(over, work)
    BY <1>2, <1>9, <1>15 DEF SlotKept, Left
<1>18. Ready(over, work)
    BY <1>2, <1>15, <1>17 DEF Ready
<1>19. PICK y \in Events : y.kind \in BreakKinds /\ over.heap = Append(t.heap, y)
    BY <1>9, <1>15
<1>20. y.kind \notin OfAState
    BY <1>19 DEF BreakKinds, OfAState
<1>21. \A kinds \in SUBSET OfAState :
          /\ Clear(c.heap, kinds) => Clear(over.heap, kinds)
          /\ \A x : Alone(c.heap, kinds, x) => Alone(over.heap, kinds, x)
    BY <1>3, <1>19, <1>20
<1>22. \A kind : Doing(c, kind) => Doing(over, kind)
  <2>1. {"stop_end"} \in SUBSET OfAState
      BY DEF OfAState
  <2>2. \A x : Alone(c.heap, {"stop_end"}, x) =>
               Alone(over.heap, {"stop_end"}, x) /\ x \in EventsOf(over.heap)
      BY <1>21, <2>1, AloneIsThere
  <2>3. over.state = c.state
      BY <1>2, <1>9, <1>15
  <2>4. QED
      BY <2>2, <2>3 DEF Doing
<1>23. \A restarts \in Nat : Worn(c, restarts) => Worn(over, restarts)
    BY <1>2, <1>9, <1>15, <1>22, WornWhileDoing
<1>24. Handled(over, d, work)
  <2>1. CASE t.state = "planned"
    <3>1. d = Resume(over, draw)
        BY <1>10, <2>1
    <3>2. \A kind : ~Doing(over, kind)
        BY <1>9, <1>15, <2>1, NothingDone
    <3>3. QED
        BY <1>18, <3>1, <3>2, HandledByResuming
  <2>2. CASE t.state # "planned"
    <3>1. d = over
        BY <1>10, <2>2
    <3>2. WayOut(c) /\ c.state # "planned"
        BY <1>2, <2>2 DEF Taken, Going
    <3>3. over.state = c.state /\ over.part = c.part /\ over.slotEnd = c.slotEnd
        BY <1>2, <1>9, <1>15
    <3>4. WayOut(over)
        BY <1>21, <3>2, <3>3, WayOutKept
    <3>5. BreakStep(over, over)
        BY <1>16 DEF BreakStep
    <3>6. QED
        BY <1>18, <3>1, <3>4, <3>5 DEF Handled, Going
  <2>3. QED
      BY <2>1, <2>2
<1>25. BreakStep(c, d)
  <2>1. ~d.breakActive
    <3>1. CASE t.state = "planned"
      <4>1. d = Resume(over, draw)
          BY <1>10, <3>1
      <4>2. Kept(over, d)
          BY <1>18, <4>1, Resumes DEF Outcome
      <4>3. QED
          BY <1>16, <4>2 DEF Kept
    <3>2. CASE t.state # "planned"
        BY <1>10, <1>16, <3>2
    <3>3. QED
        BY <3>1, <3>2
  <2>2. QED
      BY <2>1 DEF BreakStep
<1>26. QED
    BY <1>2, <1>9, <1>15, <1>23, <1>24, <1>25 DEF Handled

\* There always is a next event, and it is not in the past.
LEMMA NextEventIsThere ==
    ASSUME NEW c, NEW work, Going(c, work), NEW e, e = c.heap[NextEvent(c)]
    PROVE  /\ NextEvent(c) \in 1..Len(c.heap) /\ e \in Events
           /\ c.now <= e.at /\ e.at <= c.now + HeartbeatPeriod
           /\ \A j \in DOMAIN c.heap : e.at <= c.heap[j].at
<1>1. c.heap \in Seq(Events) /\ c.now \in Nat
    BY DEF Going, Ready, Cells
<1>2. PICK x \in EventsOf(c.heap) : x.at <= c.now + HeartbeatPeriod
    BY DEF Going, Ready, Beats
<1>3. c.heap # <<>>
    BY <1>2 DEF EventsOf
<1>4. /\ NextEvent(c) \in 1..Len(c.heap) /\ e \in Events
      /\ \A j \in 1..Len(c.heap) : e.at <= c.heap[j].at
    BY <1>1, <1>3, NextEventIsFirst
<1>5. DOMAIN c.heap = 1..Len(c.heap)
    BY <1>1
<1>6. c.now <= e.at
    BY <1>4, <1>5 DEF Going, Ready, Ahead
<1>7. e.at <= c.now + HeartbeatPeriod
  <2>1. e.at <= x.at
      BY <1>2, <1>4, <1>5 DEF EventsOf
  <2>2. x.at \in Nat /\ e.at \in Nat /\ HeartbeatPeriod \in Nat
    <3>1. x \in Events
        BY <1>1, <1>2 DEF EventsOf
    <3>2. QED
        BY <1>4, <3>1, CellAssumption DEF Events
  <2>3. QED
      BY <1>1, <1>2, <2>1, <2>2
<1>8. QED
    BY <1>4, <1>5, <1>6, <1>7

\* What a step of the cell keeps.
Goes(c, d, work) ==
    /\ Going(d, work) /\ BreakStep(c, d)
    /\ ConsecutiveNok > 1 => \A restarts \in Nat : Worn(c, restarts) => Worn(d, restarts)

\* The next event comes, and its handler runs.
LEMMA StepGoes ==
    ASSUME NEW c, NEW work, Going(c, work), NEW e, e = c.heap[NextEvent(c)],
           NEW draw \in DrawsFor(e.kind),
           NEW d, d = StepCell(c, draw),
           NEW w, w = IF e.kind = "slot_end" /\ e.current THEN 0 ELSE Passed(c, work, e.at)
    PROVE  Goes(c, d, w) /\ d.now = e.at
<1> DEFINE i == NextEvent(c)
           b == [c EXCEPT !.now = e.at]
           p == Passed(c, work, e.at)
           t == [c EXCEPT !.now = e.at, !.heap = RemoveAt(c.heap, i)]
<1>1. /\ i \in 1..Len(c.heap) /\ e \in Events /\ c.now <= e.at
      /\ \A j \in DOMAIN c.heap : e.at <= c.heap[j].at
    BY NextEventIsThere
<1>2. e.at \in Nat /\ e.kind \in Kinds /\ e.current \in BOOLEAN
    BY <1>1 DEF Events
<1>3. /\ Going(b, p)
      /\ b.now = e.at /\ b.heap = c.heap /\ b.state = c.state /\ b.part = c.part
      /\ b.breakActive = c.breakActive
      /\ b.dressingDue = c.dressingDue /\ b.capDue = c.capDue
      /\ b.nok = c.nok /\ b.wear = c.wear /\ b.next = c.next
    BY <1>1, <1>2, TimePasses
<1>4. c \in Cells /\ t = [b EXCEPT !.heap = RemoveAt(b.heap, i)]
    BY DEF Going, Ready, Cells
<1>5. DrawnFor(e.kind, draw)
    BY DrawsAreDrawn
<1>6. d = CASE ~e.current -> t
            [] e.current /\ e.kind = "slot_end"    -> OnSlotEnd(t, draw)
            [] e.current /\ e.kind = "interrupt"   -> OnInterrupt(t, e.arg, draw)
            [] e.current /\ e.kind = "stop_end"    -> OnStopEnd(t, e.arg, draw)
            [] e.current /\ e.kind = "break_start" -> OnBreakStart(t, draw)
            [] e.current /\ e.kind = "break_end"   -> OnBreakEnd(t, draw)
            [] e.current /\ e.kind = "heartbeat"   -> OnHeartbeat(t)
    BY DEF StepCell, Heeded
<1> HIDE DEF i, b, p, t
<1>7. Handled(b, d, w)
  <2>1. CASE ~e.current
    <3>1. d = t /\ w = p
        BY <1>6, <2>1 DEF p
    <3>2. QED
        BY <1>1, <1>3, <1>4, <2>1, <3>1, VoidEvent DEF i
  <2>2. ASSUME e.current
        PROVE  Taken(b, p, i, e, t)
      BY <1>1, <1>3, <1>4, <2>2 DEF Taken, i
  <2>3. CASE e.current /\ e.kind = "slot_end"
    <3>1. d = OnSlotEnd(t, draw) /\ w = 0
        BY <1>6, <2>3
    <3>2. QED
        BY <1>5, <2>2, <2>3, <3>1, SlotEnds
  <2>4. CASE e.current /\ e.kind = "interrupt"
    <3>1. d = OnInterrupt(t, e.arg, draw) /\ w = p
        BY <1>6, <2>4 DEF p
    <3>2. QED
        BY <1>5, <2>2, <2>4, <3>1, Interrupts
  <2>5. CASE e.current /\ e.kind = "stop_end"
    <3>1. d = OnStopEnd(t, e.arg, draw) /\ w = p
        BY <1>6, <2>5 DEF p
    <3>2. QED
        BY <1>5, <2>2, <2>5, <3>1, StopEnds
  <2>6. CASE e.current /\ e.kind = "break_start"
    <3>1. d = OnBreakStart(t, draw) /\ w = p /\ Drawn(draw)
        BY <1>5, <1>6, <2>6 DEF p, DrawnFor
    <3>2. QED
        BY <2>2, <2>6, <3>1, BreakStarts
  <2>7. CASE e.current /\ e.kind = "break_end"
    <3>1. d = OnBreakEnd(t, draw) /\ w = p /\ Drawn(draw)
        BY <1>5, <1>6, <2>7 DEF p, DrawnFor
    <3>2. QED
        BY <2>2, <2>7, <3>1, BreakEnds
  <2>8. CASE e.current /\ e.kind = "heartbeat"
    <3>1. d = OnHeartbeat(t) /\ w = p
        BY <1>6, <2>8 DEF p
    <3>2. QED
        BY <2>2, <2>8, <3>1, HeartbeatGoesOn
  <2>9. QED
      BY <1>2, <2>1, <2>3, <2>4, <2>5, <2>6, <2>7, <2>8 DEF Kinds, OfAState, BreakKinds
<1>8. BreakStep(c, d)
    BY <1>3, <1>7 DEF Handled, BreakStep
<1>9. \A restarts \in Nat : Worn(c, restarts) => Worn(b, restarts)
    BY <1>3, WornWhileDoing DEF Doing
<1>10. QED
    BY <1>3, <1>7, <1>8, <1>9 DEF Handled, Goes

\* A fault is asked for, at an instant before which nothing is due.
LEMMA ForceGoes ==
    ASSUME NEW c, NEW work, Going(c, work), NEW at \in Nat, c.now <= at, MayForce(c, at),
           NEW draw, draw.duration \in Nat, draw.known \in BOOLEAN,
           NEW d, d = ForceFault(c, at, draw)
    PROVE  Goes(c, d, Passed(c, work, at)) /\ d.now = at
<1> DEFINE b == [c EXCEPT !.now = at]
           e == c.heap[NextEvent(c)]
           p == Passed(c, work, at)
<1>1. c \in Cells /\ c.now \in Nat /\ work \in Nat
    BY DEF Going, Ready, Cells
<1>2. e \in Events /\ \A j \in DOMAIN c.heap : e.at <= c.heap[j].at /\ c.heap[j].at \in Nat
  <2>1. e \in Events /\ \A j \in DOMAIN c.heap : e.at <= c.heap[j].at
      BY NextEventIsThere
  <2>2. c.heap \in Seq(Events)
      BY <1>1 DEF Cells
  <2>3. \A j \in DOMAIN c.heap : c.heap[j] \in Events
      BY <2>2
  <2>4. QED
      BY <2>1, <2>3 DEF Events
<1>3. e.at > at /\ e.at \in Nat
    BY <1>2 DEF MayForce, NextEventTime, Events
<1> HIDE DEF e
<1>4. \A j \in DOMAIN c.heap : at <= c.heap[j].at
    BY <1>2, <1>3
<1>5. /\ Going(b, p)
      /\ b.now = at /\ b.heap = c.heap /\ b.state = c.state /\ b.part = c.part
      /\ b.breakActive = c.breakActive
      /\ b.dressingDue = c.dressingDue /\ b.capDue = c.capDue
      /\ b.nok = c.nok /\ b.wear = c.wear /\ b.next = c.next
    BY <1>4, TimePasses
<1>6. d = IF c.state = "producing" /\ draw.known THEN EnterFault(b, draw) ELSE b
  <2>1. (IF at > c.now THEN at ELSE c.now) = at
      BY <1>1
  <2>2. QED
      BY <2>1 DEF ForceFault
<1> HIDE DEF b, p
<1>7. Handled(b, d, p)
  <2>1. CASE c.state = "producing" /\ draw.known
    <3>1. d = ScheduleIn(Enter(b, "fault"), draw.duration, "stop_end", "fault")
        BY <1>6, <2>1 DEF EnterFault
    <3>2. Ready(b, p) /\ b.state = "producing"
        BY <1>5, <2>1 DEF Going
    <3>3. QED
        BY <3>1, <3>2, NothingDone, HandledByStopping
  <2>2. CASE ~(c.state = "producing" /\ draw.known)
    <3>1. d = b
        BY <1>6, <2>2
    <3>2. b.state \in CellStates /\ b.part.idx \in Int
        BY <1>5 DEF Going, Ready, Cells, Parts
    <3>3. BreakStep(b, b)
        BY <3>2 DEF BreakStep
    <3>4. QED
        BY <1>5, <3>1, <3>3 DEF Handled
  <2>3. QED
      BY <2>1, <2>2
<1>8. d.now = at
    BY <1>5, <1>7 DEF Handled
<1>9. BreakStep(c, d)
    BY <1>5, <1>7 DEF Handled, BreakStep
<1>10. \A restarts \in Nat : Worn(c, restarts) => Worn(b, restarts)
    BY <1>5, WornWhileDoing DEF Doing
<1>11. QED
    BY <1>7, <1>8, <1>9, <1>10 DEF Handled, Goes, p

\* The heartbeat and the first break are scheduled when a cell starts.
LEMMA WorldStarts ==
    ASSUME NEW c, c \in Cells, Ahead(c), \A kinds : Clear(c.heap, kinds),
           ~c.breakActive, ~c.part.active, c.slotEnd = Never,
           NEW b, b = OnHeartbeat(c), NEW a, a = ArmBreak(b, c.now)
    PROVE  Ready(a, 0) /\ a.now = c.now /\ a.nok = c.nok /\ a.wear = c.wear /\ a.next = c.next
<1> DEFINE y == [at |-> c.now + HeartbeatPeriod, kind |-> "heartbeat", arg |-> None,
                 current |-> TRUE]
<1>1. HeartbeatPeriod \in Nat /\ "heartbeat" \in Kinds /\ None \in Causes /\ c.now \in Nat
    BY CellAssumption DEF Kinds, Causes, Cells
<1>2. /\ y.kind = "heartbeat" /\ y.current = TRUE /\ y.at = c.now + HeartbeatPeriod
      /\ y = [at |-> c.now + HeartbeatPeriod, kind |-> "heartbeat", arg |-> None,
              current |-> TRUE]
    OBVIOUS
<1> HIDE DEF y
<1>3. b = ScheduleIn(c, HeartbeatPeriod, "heartbeat", None)
    BY DEF OnHeartbeat
<1>4. /\ b \in Cells /\ Ahead(b) /\ y \in Events
      /\ b = [c EXCEPT !.heap = Append(c.heap, y)] /\ b.heap = Append(c.heap, y)
    BY <1>1, <1>2, <1>3, ScheduledEvent
<1>5. /\ b.now = c.now /\ ~b.breakActive
      /\ b.part = c.part /\ b.slotEnd = c.slotEnd /\ b.nok = c.nok
      /\ b.wear = c.wear /\ b.next = c.next
    BY <1>4 DEF Cells
<1>6. IsAwaited(y, {"heartbeat"}) /\ ~IsAwaited(y, BreakKinds)
    BY <1>2 DEF IsAwaited, BreakKinds
<1>7. c.heap \in Seq(Events)
    BY DEF Cells
<1>8. Alone(b.heap, {"heartbeat"}, y) /\ Clear(b.heap, BreakKinds)
    BY <1>4, <1>6, <1>7, AppendedEvent
<1>9. Beats(b)
  <2>1. y \in EventsOf(b.heap)
      BY <1>8, AloneIsThere
  <2>2. y.at <= b.now + HeartbeatPeriod
      BY <1>1, <1>2, <1>5
  <2>3. QED
      BY <1>8, <2>1, <2>2 DEF Beats
<1>10. PICK k \in Int : /\ NextWindow(c.now) = Break(k)
                        /\ Break(k).end > c.now /\ Break(k).end - ShiftLength <= c.now
    BY <1>1, NextWindowIs
<1>11. /\ a \in Cells /\ Ahead(a) /\ Beats(a) /\ Armed(a)
       /\ a.now = b.now /\ a.part = b.part /\ a.slotEnd = b.slotEnd
       /\ a.nok = b.nok /\ a.wear = b.wear /\ a.next = b.next
  <2>1. Unarmed(b, c.now, k)
      BY <1>4, <1>5, <1>8, <1>9, <1>10 DEF Unarmed
  <2>2. Rearmed(b, a, k)
      BY <2>1, ArmBreakArms
  <2>3. QED
      BY <2>2 DEF Rearmed
<1>12. SlotKept(a, 0)
    BY <1>5, <1>11 DEF SlotKept
<1>13. QED
    BY <1>5, <1>11, <1>12 DEF Ready

\* A cell starts from what was retained.
LEMMA StartGoes ==
    ASSUME NEW ts \in Nat, NEW wear \in [cap : Nat, dressing : Nat], NEW next \in Thresholds,
           NEW draw, Drawn(draw),
           NEW d, d = StartCell(ts, wear, next, draw)
    PROVE  /\ Going(d, 0) /\ d.now = ts /\ d.wear = wear /\ d.next = next
           /\ \A restarts \in Nat :
                 /\ wear.cap <= next.cap + restarts
                 /\ wear.dressing <= next.dressing + restarts
                 => Worn(d, restarts)
<1> DEFINE blank == [now |-> ts, heap |-> <<>>, state |-> "producing",
                     breakActive |-> FALSE, window |-> Break(0),
                     part |-> [active |-> FALSE, idx |-> 0, ok |-> TRUE, slot |-> 0],
                     slotRemaining |-> 0, slotEnd |-> Never,
                     dressingDue |-> FALSE, capDue |-> FALSE, nok |-> 0,
                     wear |-> wear, next |-> next]
           b == OnHeartbeat(blank)
           a == ArmBreak(b, ts)
<1>1. d = Resume(a, draw)
    BY DEF StartCell
<1>2. /\ blank \in Cells /\ blank.heap = <<>> /\ blank.now = ts /\ ~blank.breakActive
      /\ ~blank.part.active /\ blank.slotEnd = Never /\ blank.nok = 0
      /\ blank.wear = wear /\ blank.next = next
  <2>1. [active |-> FALSE, idx |-> 0, ok |-> TRUE, slot |-> 0] \in Parts
      BY CellAssumption DEF Parts
  <2>2. Break(0) \in [start : Int, end : Int]
      BY WindowAfter
  <2>3. 0 \in 0..(ConsecutiveNok - 1) /\ "producing" \in CellStates /\ <<>> \in Seq(Events)
      BY CellAssumption DEF CellStates
  <2>4. blank \in Cells
      BY <2>1, <2>2, <2>3 DEF Cells
  <2>5. QED
      BY <2>4
<1>3. a = ArmBreak(b, blank.now)
    BY <1>2
<1> HIDE DEF blank
<1>4. Ahead(blank) /\ \A kinds : Clear(blank.heap, kinds)
    BY <1>2 DEF Ahead, Clear
<1>5. Ready(a, 0) /\ a.now = ts /\ a.nok = 0 /\ a.wear = wear /\ a.next = next
  <2>1. ASSUME NEW p, p = b, NEW q, q = a
        PROVE  /\ Ready(q, 0) /\ q.now = blank.now /\ q.nok = blank.nok
               /\ q.wear = blank.wear /\ q.next = blank.next
    <3>1. p = OnHeartbeat(blank)
        BY <2>1
    <3>2. q = ArmBreak(p, blank.now)
        BY <1>3, <2>1
    <3> HIDE DEF a, b
    <3>3. QED
        BY <1>2, <1>4, <3>1, <3>2, WorldStarts
  <2> HIDE DEF a, b
  <2>2. QED
      BY <1>2, <2>1
<1> HIDE DEF a, b
<1>6. Going(d, 0) /\ Kept(a, d)
    BY <1>1, <1>5, Resumes DEF Outcome
<1>7. d.now = ts /\ d.wear = wear /\ d.next = next /\ d.nok = 0
    BY <1>5, <1>6 DEF Kept
<1>8. ASSUME NEW restarts \in Nat, wear.cap <= next.cap + restarts,
             wear.dressing <= next.dressing + restarts
      PROVE  Worn(d, restarts)
  <2>1. next.cap \in Nat /\ next.dressing \in Nat
      BY CellAssumption DEF Thresholds
  <2>2. QED
      BY <1>7, <1>8, <2>1 DEF Worn, Below
<1>9. QED
    BY <1>6, <1>7, <1>8

-----------------------------------------------------------------------------

(* The PLC.                                                                *)

Files ==
    [clean : BOOLEAN, simTime : Nat, highWater : Nat,
     wear : [cap : Nat, dressing : Nat], next : [cap : Nat, dressing : Nat]]

\* The retentive data may be started from.
Retained(f) ==
    /\ f \in Files
    /\ StartTs <= f.simTime /\ f.simTime <= f.highWater
    /\ f # NoFile => f.next \in Thresholds

\* What is saved is worn no more than what wears the electrodes lets it be.
WornInv ==
    ConsecutiveNok > 1 =>
        /\ Worn(cell, starts)
        /\ file.wear.cap <= file.next.cap + 1 + starts
        /\ file.wear.dressing <= file.next.dressing + 1 + starts

\* The state that was saved is ahead of the clock by what may still pass until
\* the next save.
AheadOfClock ==
    saved => /\ ~file.clean
             /\ file.highWater = file.simTime + Lookahead
             /\ clock < file.simTime + HeartbeatPeriod + unsaved * Acceleration

PlcInv ==
    /\ Going(cell, worked)
    /\ StartTs <= cell.now /\ cell.now <= clock
    /\ clock \in Nat /\ unsaved \in 0..(SaveInterval + Jitter) /\ starts \in Nat
    /\ Retained(file)
    /\ WornInv
    /\ AheadOfClock

\* What production draws may be handled.
LEMMA ProductionIsDrawn ==
    ASSUME NEW production \in ProductionDraws
    PROVE  Drawn(production)
BY PlcAssumption DEF ProductionDraws, Drawn

\* The PLC starts from what was retained; a wear that was not seen to is seen
\* to one part later, at most.
LEMMA Restarted ==
    ASSUME NEW f, Retained(f), NEW restarts \in Nat,
           ConsecutiveNok > 1 =>
               /\ f.wear.cap <= f.next.cap + restarts
               /\ f.wear.dressing <= f.next.dressing + restarts,
           NEW production \in ProductionDraws, NEW next \in Thresholds,
           NEW c, c = StartCell(ResumeTs(f), f.wear, IF f = NoFile THEN next ELSE f.next, production)
    PROVE  /\ Going(c, 0) /\ c.now = ResumeTs(f)
           /\ ResumeTs(f) \in Nat /\ StartTs <= ResumeTs(f)
           /\ ConsecutiveNok > 1 => Worn(c, restarts)
<1> DEFINE ts == ResumeTs(f)
           limits == IF f = NoFile THEN next ELSE f.next
<1>1. /\ f.wear \in [cap : Nat, dressing : Nat] /\ ts \in Nat /\ StartTs <= ts
      /\ f.next \in [cap : Nat, dressing : Nat]
  <2>1. /\ f.wear \in [cap : Nat, dressing : Nat] /\ f.next \in [cap : Nat, dressing : Nat]
        /\ f.simTime \in Nat /\ f.highWater \in Nat /\ f.clean \in BOOLEAN
      BY DEF Retained, Files
  <2>2. StartTs <= f.simTime /\ f.simTime <= f.highWater /\ StartTs \in Nat
      BY PlcAssumption DEF Retained
  <2>3. QED
      BY <2>1, <2>2 DEF ResumeTs
<1>2. limits \in Thresholds
    BY DEF Retained
<1>3. limits.cap \in Nat /\ limits.dressing \in Nat
    BY <1>2, CellAssumption DEF Thresholds
<1>4. c = StartCell(ts, f.wear, limits, production)
    OBVIOUS
<1>5. Drawn(production)
    BY ProductionIsDrawn
<1>6. ASSUME ConsecutiveNok > 1
      PROVE  f.wear.cap <= limits.cap + restarts /\ f.wear.dressing <= limits.dressing + restarts
  <2>1. CASE f = NoFile
    <3>1. f.wear.cap = 0 /\ f.wear.dressing = 0
        BY <2>1 DEF NoFile
    <3>2. QED
        BY <1>3, <3>1
  <2>2. CASE f # NoFile
      BY <1>6, <2>2
  <2>3. QED
      BY <2>1, <2>2
<1> HIDE DEF ts, limits
<1>7. /\ Going(c, 0) /\ c.now = ts
      /\ \A r \in Nat : /\ f.wear.cap <= limits.cap + r
                        /\ f.wear.dressing <= limits.dressing + r
                        => Worn(c, r)
    BY <1>1, <1>2, <1>4, <1>5, StartGoes
<1>8. QED
    BY <1>1, <1>6, <1>7 DEF ts

\* The invariant holds initially.
LEMMA PlcStarts == Init => PlcInv
<1> SUFFICES ASSUME Init
             PROVE  PlcInv
    OBVIOUS
<1>1. PICK production \in ProductionDraws, next \in Thresholds :
         cell = StartCell(StartTs, NoFile.wear, next, production)
    BY DEF Init
<1>2. /\ file = NoFile /\ clock = StartTs /\ unsaved = 0 /\ starts = 0 /\ worked = 0 /\ ~saved
    BY DEF Init
<1>3. /\ NoFile.clean = TRUE /\ NoFile.simTime = StartTs /\ NoFile.highWater = StartTs
      /\ NoFile.wear = [cap |-> 0, dressing |-> 0] /\ NoFile.next = [cap |-> 0, dressing |-> 0]
      /\ NoFile.wear.cap = 0 /\ NoFile.wear.dressing = 0
      /\ NoFile.next.cap = 0 /\ NoFile.next.dressing = 0
    BY DEF NoFile
<1>4. StartTs \in Nat /\ SaveInterval \in Nat /\ Jitter \in Nat
    BY PlcAssumption
<1>5. Retained(NoFile)
  <2>1. NoFile \in Files
      BY <1>4 DEF NoFile, Files
  <2>2. QED
      BY <1>3, <1>4, <2>1 DEF Retained
<1>6. ResumeTs(NoFile) = StartTs
    BY <1>3 DEF ResumeTs
<1>7. cell = StartCell(ResumeTs(NoFile), NoFile.wear,
                       IF NoFile = NoFile THEN next ELSE NoFile.next, production)
    BY <1>1, <1>6
<1>8. /\ NoFile.wear.cap <= NoFile.next.cap + 0
      /\ NoFile.wear.dressing <= NoFile.next.dressing + 0
    BY <1>3
<1>9. Going(cell, 0) /\ cell.now = StartTs /\ (ConsecutiveNok > 1 => Worn(cell, 0))
    BY <1>5, <1>6, <1>7, <1>8, Restarted
<1>10. WornInv
    BY <1>2, <1>3, <1>9 DEF WornInv
<1>11. AheadOfClock
    BY <1>2 DEF AheadOfClock
<1>12. 0 \in 0..(SaveInterval + Jitter) /\ 0 \in Nat /\ StartTs <= StartTs
    BY <1>4
<1>13. QED
    BY <1>2, <1>4, <1>5, <1>9, <1>10, <1>11, <1>12 DEF PlcInv

\* The cell moves, and not past the clock.
LEMMA CellMoves ==
    ASSUME PlcInv, Release \/ Trigger
    PROVE  /\ Goes(cell, cell', worked')
           /\ cell.now <= cell'.now /\ cell'.now <= clock
           /\ UNCHANGED <<clock, unsaved, file, starts, saved>>
<1>1. Going(cell, worked) /\ cell.now <= clock /\ clock \in Nat
    BY DEF PlcInv
<1>2. cell.now \in Nat /\ worked \in Nat
    BY <1>1 DEF Going, Ready, Cells
<1>3. ASSUME Release
      PROVE  /\ Goes(cell, cell', worked')
             /\ cell.now <= cell'.now /\ cell'.now <= clock
             /\ UNCHANGED <<clock, unsaved, file, starts, saved>>
  <2> DEFINE e == cell.heap[NextEvent(cell)]
             slotDone == e.kind = "slot_end" /\ e.current
  <2>1. /\ e.at <= clock
        /\ \E draw \in DrawsFor(e.kind) : cell' = StepCell(cell, draw)
        /\ worked' = CASE slotDone -> 0
                       [] ~slotDone /\ cell.state = "producing" -> worked + e.at - cell.now
                       [] ~slotDone /\ cell.state # "producing" -> worked
        /\ UNCHANGED <<clock, unsaved, file, starts, saved>>
      BY <1>3 DEF Release
  <2>2. PICK draw \in DrawsFor(e.kind) : cell' = StepCell(cell, draw)
      BY <2>1
  <2>3. worked' = IF slotDone THEN 0 ELSE Passed(cell, worked, e.at)
    <3>1. CASE slotDone
        BY <2>1, <3>1
    <3>2. CASE ~slotDone /\ cell.state = "producing"
        BY <2>1, <3>2 DEF Passed
    <3>3. CASE ~slotDone /\ cell.state # "producing"
        BY <2>1, <3>3 DEF Passed
    <3>4. QED
        BY <3>1, <3>2, <3>3
  <2>4. cell.now <= e.at
      BY <1>1, NextEventIsThere
  <2>5. ASSUME NEW x, x = e
        PROVE  Goes(cell, cell', worked') /\ cell'.now = x.at
    <3>1. worked' = IF x.kind = "slot_end" /\ x.current THEN 0 ELSE Passed(cell, worked, x.at)
        BY <2>3, <2>5
    <3>2. draw \in DrawsFor(x.kind) /\ x = cell.heap[NextEvent(cell)]
        BY <2>5
    <3> HIDE DEF e
    <3>3. QED
        BY <1>1, <2>2, <3>1, <3>2, StepGoes
  <2>6. Goes(cell, cell', worked') /\ cell'.now = e.at
      BY <2>5
  <2>7. QED
      BY <2>1, <2>4, <2>6
<1>4. ASSUME Trigger
      PROVE  /\ Goes(cell, cell', worked')
             /\ cell.now <= cell'.now /\ cell'.now <= clock
             /\ UNCHANGED <<clock, unsaved, file, starts, saved>>
  <2>1. PICK duration \in Durations, known \in BOOLEAN :
            cell' = ForceFault(cell, clock, [duration |-> duration, known |-> known])
      BY <1>4 DEF Trigger
  <2>2. /\ MayForce(cell, clock)
        /\ worked' = IF cell.state = "producing" THEN worked + cell'.now - cell.now ELSE worked
        /\ UNCHANGED <<clock, unsaved, file, starts, saved>>
      BY <1>4 DEF Trigger
  <2>3. duration \in Nat
      BY PlcAssumption
  <2>4. Goes(cell, cell', Passed(cell, worked, clock)) /\ cell'.now = clock
    <3>1. ASSUME NEW draw, draw = [duration |-> duration, known |-> known]
          PROVE  Goes(cell, cell', Passed(cell, worked, clock)) /\ cell'.now = clock
      <4>1. /\ draw.duration \in Nat /\ draw.known \in BOOLEAN
            /\ cell' = ForceFault(cell, clock, draw)
          BY <2>1, <2>3, <3>1
      <4>2. QED
          BY <1>1, <2>2, <4>1, ForceGoes
    <3>2. QED
        BY <3>1
  <2>5. worked' = Passed(cell, worked, clock)
      BY <2>2, <2>4 DEF Passed
  <2>6. QED
      BY <1>1, <1>2, <2>2, <2>4, <2>5
<1>5. QED
    BY <1>3, <1>4

\* Wherever it starts again, the PLC starts from what was retained.
LEMMA Restarts ==
    ASSUME PlcInv, CleanRestart \/ Crash
    PROVE  /\ Retained(file') /\ Going(cell', 0) /\ cell'.now = ResumeTs(file')
           /\ clock' = ResumeTs(file') /\ ResumeTs(file') \in Nat /\ StartTs <= ResumeTs(file')
           /\ starts' = starts + 1 /\ unsaved' = 0 /\ ~saved' /\ worked' = 0
           /\ ConsecutiveNok > 1 =>
                 /\ Worn(cell', starts + 1)
                 /\ file'.wear.cap <= file'.next.cap + 1 + starts
                 /\ file'.wear.dressing <= file'.next.dressing + 1 + starts
           /\ file' = file \/ file' = Snapshot(TRUE)
<1>1. /\ Going(cell, worked) /\ StartTs <= cell.now /\ starts \in Nat
      /\ Retained(file) /\ WornInv
    BY DEF PlcInv
<1>2. /\ cell \in Cells /\ cell.now \in Nat /\ StartTs \in Nat
      /\ cell.wear \in [cap : Nat, dressing : Nat] /\ cell.next \in Thresholds
  <2>1. cell \in Cells
      BY <1>1 DEF Going, Ready
  <2>2. QED
      BY <2>1, PlcAssumption DEF Cells
<1>3. Thresholds \subseteq [cap : Nat, dressing : Nat]
    BY CellAssumption DEF Thresholds
<1>4. /\ StartFrom(file') /\ starts' = starts + 1
      /\ file' = file \/ file' = Snapshot(TRUE)
    BY DEF CleanRestart, Crash
<1>5. /\ Retained(file')
      /\ ConsecutiveNok > 1 =>
            /\ file'.wear.cap <= file'.next.cap + 1 + starts
            /\ file'.wear.dressing <= file'.next.dressing + 1 + starts
  <2>1. CASE file' = file
    <3>1. ASSUME NEW f, f = file, f = file'
          PROVE  /\ Retained(f)
                 /\ ConsecutiveNok > 1 =>
                       /\ f.wear.cap <= f.next.cap + 1 + starts
                       /\ f.wear.dressing <= f.next.dressing + 1 + starts
        BY <1>1, <3>1 DEF WornInv
    <3>2. QED
        BY <2>1, <3>1
  <2>2. CASE file' = Snapshot(TRUE)
    <3>1. file' = [clean |-> TRUE, simTime |-> cell.now, highWater |-> cell.now + 0,
                   wear |-> cell.wear, next |-> cell.next]
        BY <2>2 DEF Snapshot
    <3>2. /\ file' \in Files /\ file'.simTime = cell.now /\ file'.highWater = cell.now
          /\ file'.wear = cell.wear /\ file'.next = cell.next
        BY <1>2, <1>3, <3>1 DEF Files
    <3>3. Retained(file')
        BY <1>1, <1>2, <3>2 DEF Retained
    <3>4. QED
        BY <1>1, <3>2, <3>3 DEF WornInv, Worn
  <2>3. QED
      BY <1>4, <2>1, <2>2
<1>6. /\ file'.wear \in [cap : Nat, dressing : Nat]
      /\ file'.next \in [cap : Nat, dressing : Nat]
    BY <1>5 DEF Retained, Files
<1>7. ConsecutiveNok > 1 =>
          /\ file'.wear.cap <= file'.next.cap + (starts + 1)
          /\ file'.wear.dressing <= file'.next.dressing + (starts + 1)
  <2>1. \A a \in Nat : a + 1 + starts = a + (starts + 1)
      BY <1>1
  <2>2. file'.next.cap \in Nat /\ file'.next.dressing \in Nat
      BY <1>6
  <2>3. QED
      BY <1>5, <2>1, <2>2
<1>8. PICK production \in ProductionDraws, next \in Thresholds :
         cell' = StartCell(ResumeTs(file'), file'.wear,
                           IF file' = NoFile THEN next ELSE file'.next, production)
    BY <1>4 DEF StartFrom
<1>9. /\ Going(cell', 0) /\ cell'.now = ResumeTs(file')
      /\ ResumeTs(file') \in Nat /\ StartTs <= ResumeTs(file')
      /\ ConsecutiveNok > 1 => Worn(cell', starts + 1)
  <2>1. starts + 1 \in Nat
      BY <1>1
  <2>2. QED
      BY <1>5, <1>7, <1>8, <2>1, Restarted
<1>10. clock' = ResumeTs(file') /\ unsaved' = 0 /\ ~saved' /\ worked' = 0
    BY <1>4 DEF StartFrom
<1>11. QED
    BY <1>4, <1>5, <1>9, <1>10

\* The invariant is preserved.
LEMMA PlcGoesOn == PlcInv /\ [Next]_vars => PlcInv'
<1> SUFFICES ASSUME PlcInv, [Next]_vars
             PROVE  PlcInv'
    OBVIOUS
<1>1. /\ Going(cell, worked) /\ StartTs <= cell.now /\ cell.now <= clock
      /\ clock \in Nat /\ unsaved \in 0..(SaveInterval + Jitter) /\ starts \in Nat
      /\ Retained(file) /\ WornInv /\ AheadOfClock
    BY DEF PlcInv
<1>2. /\ cell \in Cells /\ cell.now \in Nat /\ StartTs \in Nat
      /\ cell.wear \in [cap : Nat, dressing : Nat] /\ cell.next \in Thresholds
  <2>1. cell \in Cells
      BY <1>1 DEF Going, Ready
  <2>2. QED
      BY <2>1, PlcAssumption DEF Cells
<1>3. {SaveInterval, Acceleration, Jitter, Margin, HeartbeatPeriod} \subseteq Nat
    BY PlcAssumption, CellAssumption
<1>4. ASSUME UNCHANGED vars
      PROVE  PlcInv'
    BY <1>1, <1>4 DEF vars, PlcInv, WornInv, AheadOfClock
<1>5. ASSUME Tick
      PROVE  PlcInv'
  <2>1. /\ clock' = clock + Acceleration /\ unsaved' = unsaved + 1
        /\ unsaved < SaveInterval + Jitter
        /\ UNCHANGED <<cell, file, starts, saved, worked>>
      BY <1>5 DEF Tick
  <2>2. /\ Going(cell', worked') /\ StartTs <= cell'.now /\ starts' \in Nat
        /\ Retained(file') /\ WornInv'
      BY <1>1, <2>1 DEF WornInv
  <2>3. clock' \in Nat /\ cell'.now <= clock' /\ unsaved' \in 0..(SaveInterval + Jitter)
      BY <1>1, <1>2, <1>3, <2>1
  <2>4. AheadOfClock'
    <3>1. SUFFICES ASSUME saved
                   PROVE  clock' < file'.simTime + HeartbeatPeriod + unsaved' * Acceleration
        BY <1>1, <2>1 DEF AheadOfClock
    <3>2. clock < file.simTime + HeartbeatPeriod + unsaved * Acceleration
        BY <1>1, <3>1 DEF AheadOfClock
    <3>3. file.simTime \in Nat
        BY <1>1 DEF Retained, Files
    <3>4. /\ (unsaved + 1) * Acceleration = unsaved * Acceleration + Acceleration
          /\ unsaved * Acceleration \in Nat
        BY <1>1, <1>3
    <3>5. clock + Acceleration
              < file.simTime + HeartbeatPeriod + (unsaved * Acceleration + Acceleration)
        BY <1>1, <1>3, <3>2, <3>3, <3>4
    <3>6. QED
        BY <2>1, <3>4, <3>5
  <2>5. QED
      BY <2>2, <2>3, <2>4 DEF PlcInv
<1>6. ASSUME Release \/ Trigger
      PROVE  PlcInv'
  <2>1. /\ Goes(cell, cell', worked')
        /\ cell.now <= cell'.now /\ cell'.now <= clock
        /\ UNCHANGED <<clock, unsaved, file, starts, saved>>
      BY <1>6, CellMoves
  <2>2. Going(cell', worked') /\ cell'.now \in Nat
      BY <2>1 DEF Goes, Going, Ready, Cells
  <2>3. WornInv'
      BY <1>1, <2>1 DEF Goes, WornInv
  <2>4. AheadOfClock'
      BY <1>1, <2>1 DEF AheadOfClock
  <2>5. StartTs <= cell'.now
      BY <1>1, <1>2, <2>1, <2>2
  <2>6. QED
      BY <1>1, <2>1, <2>2, <2>3, <2>4, <2>5 DEF PlcInv
<1>7. ASSUME Save
      PROVE  PlcInv'
  <2>1. /\ NextEventTime(cell) > clock
        /\ file' = Snapshot(FALSE) /\ unsaved' = 0 /\ saved'
        /\ UNCHANGED <<cell, clock, starts, worked>>
      BY <1>7 DEF Save
  <2>2. Lookahead \in Nat
    <3>1. 2 * SaveInterval * Acceleration \in Nat
        BY <1>3
    <3>2. QED
        BY <1>3, <3>1 DEF Lookahead
  <2>3. file' = [clean |-> FALSE, simTime |-> cell.now, highWater |-> cell.now + Lookahead,
                 wear |-> cell.wear, next |-> cell.next]
      BY <2>1 DEF Snapshot
  <2>4. Thresholds \subseteq [cap : Nat, dressing : Nat]
      BY CellAssumption DEF Thresholds
  <2>5. /\ file' \in Files /\ file'.clean = FALSE /\ file'.simTime = cell.now
        /\ file'.highWater = cell.now + Lookahead
        /\ file'.wear = cell.wear /\ file'.next = cell.next
      BY <1>2, <2>2, <2>3, <2>4 DEF Files
  <2>6. Retained(file')
      BY <1>1, <1>2, <2>2, <2>5 DEF Retained
  <2>7. WornInv'
      BY <1>1, <2>1, <2>5 DEF WornInv, Worn
  <2>8. AheadOfClock'
    <3>1. ASSUME NEW e, e = cell.heap[NextEvent(cell)]
          PROVE  clock < cell.now + HeartbeatPeriod
      <4>1. e \in Events /\ e.at <= cell.now + HeartbeatPeriod
          BY <1>1, <3>1, NextEventIsThere
      <4>2. e.at > clock /\ e.at \in Nat
          BY <2>1, <3>1, <4>1 DEF NextEventTime, Events
      <4>3. QED
          BY <1>1, <1>2, <1>3, <4>1, <4>2
    <3>2. clock < cell.now + HeartbeatPeriod + 0 * Acceleration
        BY <1>1, <1>2, <1>3, <3>1
    <3>3. QED
        BY <2>1, <2>5, <3>2 DEF AheadOfClock
  <2>9. 0 \in 0..(SaveInterval + Jitter)
      BY <1>3
  <2>10. QED
      BY <1>1, <2>1, <2>6, <2>7, <2>8, <2>9 DEF PlcInv
<1>8. ASSUME CleanRestart \/ Crash
      PROVE  PlcInv'
  <2>1. /\ Retained(file') /\ Going(cell', 0) /\ cell'.now = ResumeTs(file')
        /\ clock' = ResumeTs(file') /\ ResumeTs(file') \in Nat /\ StartTs <= ResumeTs(file')
        /\ starts' = starts + 1 /\ unsaved' = 0 /\ ~saved' /\ worked' = 0
        /\ ConsecutiveNok > 1 =>
              /\ Worn(cell', starts + 1)
              /\ file'.wear.cap <= file'.next.cap + 1 + starts
              /\ file'.wear.dressing <= file'.next.dressing + 1 + starts
      BY <1>8, Restarts
  <2>2. /\ file'.wear \in [cap : Nat, dressing : Nat]
        /\ file'.next \in [cap : Nat, dressing : Nat]
      BY <2>1 DEF Retained, Files
  <2>3. WornInv'
    <3>1. SUFFICES ASSUME ConsecutiveNok > 1
                   PROVE  /\ Worn(cell', starts')
                          /\ file'.wear.cap <= file'.next.cap + 1 + starts'
                          /\ file'.wear.dressing <= file'.next.dressing + 1 + starts'
        BY DEF WornInv
    <3>2. QED
        BY <1>1, <2>1, <2>2, <3>1
  <2>4. AheadOfClock'
      BY <2>1 DEF AheadOfClock
  <2>5. 0 \in 0..(SaveInterval + Jitter) /\ starts' \in Nat
      BY <1>1, <1>3, <2>1
  <2>6. QED
      BY <2>1, <2>3, <2>4, <2>5 DEF PlcInv
<1>9. QED
    BY <1>4, <1>5, <1>6, <1>7, <1>8 DEF Next

\* The inductive invariant of the PLC.
THEOREM PlcInvariant == Spec => []PlcInv
BY PlcStarts, PlcGoesOn, PTL DEF Spec

-----------------------------------------------------------------------------

(* What the invariant gives.                                               *)

\* The state of the PLC is well formed, and its clock is not behind the cell.
THEOREM StateIsWellFormed == Spec => []TypeOK
<1>1. PlcInv => TypeOK
  <2> SUFFICES ASSUME PlcInv
               PROVE  TypeOK
      OBVIOUS
  <2>1. cell \in Cells
      BY DEF PlcInv, Going, Ready
  <2>2. /\ cell.state \in CellStates
        /\ {cell.breakActive, cell.dressingDue, cell.capDue} \subseteq BOOLEAN
        /\ cell.slotEnd \in Nat \cup {Never} /\ cell.slotRemaining \in Nat
        /\ cell.nok \in 0..(ConsecutiveNok - 1)
        /\ cell.wear \in [cap : Nat, dressing : Nat] /\ cell.next \in Thresholds
        /\ cell.now \in Nat
      BY <2>1 DEF Cells
  <2>3. cell.part \in [active : BOOLEAN, idx : 0..PointsPerPart, ok : BOOLEAN,
                       slot : SlotLengths \cup {0}]
      BY <2>1 DEF Cells, Parts
  <2>4. cell.now >= StartTs /\ clock >= cell.now
      BY <2>2, PlcAssumption DEF PlcInv
  <2>5. unsaved \in 0..(SaveInterval + Jitter)
      BY DEF PlcInv
  <2>6. QED
      BY <2>2, <2>3, <2>4, <2>5 DEF TypeOK
<1>2. QED
    BY <1>1, PlcInvariant, PTL

\* The only event that is awaited is counted once.
LEMMA AloneIsOne ==
    ASSUME NEW kinds, NEW e, Alone(cell.heap, kinds, e)
    PROVE  /\ One(kinds) /\ Cardinality(Awaited(kinds)) = 1
           /\ Awaited(kinds) # {}
           /\ cell.heap[CHOOSE i \in Awaited(kinds) : TRUE] = e
<1>1. PICK i \in DOMAIN cell.heap :
         /\ cell.heap[i] = e
         /\ \A j \in DOMAIN cell.heap : IsAwaited(cell.heap[j], kinds) <=> j = i
    BY DEF Alone
<1>2. Awaited(kinds) = {i}
    BY <1>1 DEF Awaited, IsAwaited
<1>3. Cardinality(Awaited(kinds)) = 1
    BY <1>2, FS_Singleton
<1>4. (CHOOSE j \in Awaited(kinds) : TRUE) = i
    BY <1>2
<1>5. QED
    BY <1>1, <1>2, <1>3, <1>4 DEF One

LEMMA ClearIsNone ==
    ASSUME NEW kinds, Clear(cell.heap, kinds)
    PROVE  Awaited(kinds) = {} /\ Cardinality(Awaited(kinds)) = 0
<1>1. Awaited(kinds) = {}
    BY DEF Clear, Awaited, IsAwaited
<1>2. QED
    BY <1>1, FS_EmptySet

\* Whatever happened before, there is one way out of the present state.
THEOREM OneWayOutAlways == Spec => []OneWayOut
<1>1. PlcInv => OneWayOut
  <2> SUFFICES ASSUME PlcInv
               PROVE  OneWayOut
      OBVIOUS
  <2>1. Going(cell, worked)
      BY DEF PlcInv
  <2>2. cell \in Cells /\ cell.state \in CellStates /\ cell.breakActive \in BOOLEAN
      BY <2>1 DEF Going, Ready, Cells
  <2>3. One({"heartbeat"})
      BY <2>1, AloneIsOne DEF Going, Ready, Beats
  <2>4. One({"break_start", "break_end"}) /\ (cell.breakActive <=> Awaited({"break_end"}) # {})
    <3>1. PICK e \in EventsOf(cell.heap) :
             /\ Alone(cell.heap, BreakKinds, e)
             /\ IF cell.breakActive THEN e.kind = "break_end" ELSE e.kind = "break_start"
        BY <2>1 DEF Going, Ready, Armed
    <3>2. One({"break_start", "break_end"})
        BY <3>1, AloneIsOne DEF BreakKinds
    <3>3. PICK i \in DOMAIN cell.heap :
             /\ cell.heap[i] = e
             /\ \A j \in DOMAIN cell.heap : IsAwaited(cell.heap[j], BreakKinds) <=> j = i
        BY <3>1 DEF Alone
    <3>4. IsAwaited(e, BreakKinds)
        BY <3>3
    <3>5. cell.breakActive => i \in Awaited({"break_end"})
        BY <3>1, <3>3, <3>4 DEF Awaited, IsAwaited
    <3>6. ASSUME ~cell.breakActive
          PROVE  Awaited({"break_end"}) = {}
      <4>1. ASSUME NEW j \in Awaited({"break_end"})
            PROVE  FALSE
        <5>1. j \in DOMAIN cell.heap /\ IsAwaited(cell.heap[j], BreakKinds)
              /\ cell.heap[j].kind = "break_end"
            BY DEF Awaited, IsAwaited, BreakKinds
        <5>2. cell.heap[j] = e
            BY <3>3, <5>1
        <5>3. e.kind = "break_start"
            BY <3>1, <3>6
        <5>4. QED
            BY <5>1, <5>2, <5>3
      <4>2. QED
          BY <4>1
    <3>7. QED
        BY <3>2, <3>5, <3>6
  <2>5. ASSUME cell.state = "producing"
        PROVE  /\ One({"slot_end"}) /\ Awaited({"stop_end"}) = {}
               /\ Cardinality(Awaited({"interrupt"})) <= 1
               /\ cell.slotEnd = cell.heap[CHOOSE i \in Awaited({"slot_end"}) : TRUE].at
    <3>1. SlotAwaited(cell)
        BY <2>1, <2>5 DEF Going, WayOut
    <3>2. PICK e \in EventsOf(cell.heap) : Alone(cell.heap, {"slot_end"}, e) /\ e.at = cell.slotEnd
        BY <3>1 DEF SlotAwaited
    <3>3. /\ One({"slot_end"})
          /\ cell.heap[CHOOSE i \in Awaited({"slot_end"}) : TRUE] = e
        BY <3>2, AloneIsOne
    <3>4. Awaited({"stop_end"}) = {}
        BY <3>1, ClearIsNone DEF SlotAwaited
    <3>5. Cardinality(Awaited({"interrupt"})) \in {0, 1}
        BY <3>1, AloneIsOne, ClearIsNone DEF SlotAwaited
    <3>6. QED
        BY <3>2, <3>3, <3>4, <3>5
  <2>6. ASSUME cell.state = "planned"
        PROVE  Awaited(OfAState) = {} /\ cell.breakActive
    <3>1. BreakAwaited(cell)
        BY <2>1, <2>6 DEF Going, WayOut
    <3>2. QED
        BY <3>1, ClearIsNone DEF BreakAwaited
  <2>7. ASSUME cell.state \notin {"producing", "planned"}
        PROVE  One({"stop_end"}) /\ Awaited({"slot_end", "interrupt"}) = {}
    <3>1. StopAwaited(cell)
        BY <2>1, <2>7 DEF Going, WayOut
    <3>2. PICK e \in EventsOf(cell.heap) : Alone(cell.heap, {"stop_end"}, e)
        BY <3>1 DEF StopAwaited
    <3>3. One({"stop_end"})
        BY <3>2, AloneIsOne
    <3>4. Awaited({"slot_end", "interrupt"}) = {}
        BY <3>1, ClearIsNone DEF StopAwaited
    <3>5. QED
        BY <3>3, <3>4
  <2>8. QED
      BY <2>3, <2>4, <2>5, <2>6, <2>7 DEF OneWayOut
<1>2. QED
    BY <1>1, PlcInvariant, PTL

\* The cell knows when it is break time, over the breaks that it spent in a
\* fault and over restarts in the middle of one.
THEOREM BreaksAreOnSchedule == Spec => []BreakOnSchedule
<1>1. PlcInv => BreakOnSchedule
  <2> SUFFICES ASSUME PlcInv, NextEventTime(cell) > cell.now
               PROVE  cell.breakActive <=> InBreak(cell.now)
      BY DEF BreakOnSchedule
  <2>1. /\ Going(cell, worked) /\ cell \in Cells
        /\ cell.now \in Nat /\ cell.breakActive \in BOOLEAN /\ cell.heap \in Seq(Events)
      BY DEF PlcInv, Going, Ready, Cells
  <2>2. PICK k \in Int : cell.window = Break(k)
      BY <2>1 DEF Going, Ready, Armed, IsBreak
  <2>3. PICK e \in EventsOf(cell.heap) :
           IF cell.breakActive
           THEN e.at = cell.window.end /\ cell.window.start <= cell.now
           ELSE e.at = cell.window.start /\ cell.window.end - ShiftLength <= cell.now
      BY <2>1 DEF Going, Ready, Armed
  <2>4. e.at > cell.now
    <3>1. ASSUME NEW x, x = cell.heap[NextEvent(cell)]
          PROVE  x.at > cell.now /\ x.at <= e.at /\ x.at \in Nat /\ e.at \in Nat
      <4>1. x \in Events /\ \A j \in DOMAIN cell.heap : x.at <= cell.heap[j].at
          BY <2>1, <3>1, NextEventIsThere
      <4>2. x.at > cell.now
          BY <3>1 DEF NextEventTime
      <4>3. e \in Events
          BY <2>1 DEF EventsOf
      <4>4. x.at <= e.at
          BY <4>1 DEF EventsOf
      <4>5. QED
          BY <4>1, <4>2, <4>3, <4>4 DEF Events
    <3>2. QED
        BY <2>1, <3>1
  <2>5. /\ Break(k).start \in Int /\ Break(k).end = Break(k).start + BreakLength
        /\ BreakLength \in Nat \ {0} /\ ShiftLength \in Nat /\ BreakLength < ShiftLength
    <3>1. Break(k) \in [start : Int, end : Int]
        BY WindowAfter
    <3>2. QED
        BY <3>1, WindowAfter, CellAssumption
  <2>6. CASE cell.breakActive
    <3>1. Break(k).end > cell.now /\ Break(k).start <= cell.now
        BY <2>2, <2>3, <2>4, <2>6
    <3>2. Break(k).end - ShiftLength <= cell.now
        BY <2>1, <2>5, <3>1
    <3>3. QED
        BY <2>1, <2>6, <3>1, <3>2, InBreakIs
  <2>7. CASE ~cell.breakActive
    <3>1. Break(k).start > cell.now /\ Break(k).end - ShiftLength <= cell.now
        BY <2>2, <2>3, <2>4, <2>7
    <3>2. Break(k).end > cell.now /\ ~(Break(k).start <= cell.now)
        BY <2>1, <2>5, <3>1
    <3>3. QED
        BY <2>1, <2>7, <3>1, <3>2, InBreakIs
  <2>8. QED
      BY <2>6, <2>7
<1>2. QED
    BY <1>1, PlcInvariant, PTL

\* A weld point takes its time of production, whatever interrupts it.
THEOREM SlotsTakeTheirTime == Spec => []SlotTakesItsTime
<1>1. PlcInv => SlotTakesItsTime
  <2> SUFFICES ASSUME PlcInv, cell.part.active
               PROVE  worked + (IF cell.state = "producing" THEN cell.slotEnd - cell.now
                                ELSE cell.slotRemaining) = cell.part.slot
      BY DEF SlotTakesItsTime
  <2>1. worked + Left(cell) = cell.part.slot
      BY DEF PlcInv, Going, Ready, SlotKept
  <2>2. cell.slotEnd # Never <=> cell.state = "producing"
      BY DEF PlcInv, Going, WayOut, SlotAwaited, BreakAwaited, StopAwaited
  <2>3. QED
      BY <2>1, <2>2 DEF Left
<1>2. QED
    BY <1>1, PlcInvariant, PTL

\* Maintenance comes between two parts, and in time.
THEOREM MaintenanceIsAlwaysDone == Spec => []MaintenanceIsDone
<1>1. PlcInv => MaintenanceIsDone
  <2> SUFFICES ASSUME PlcInv
               PROVE  MaintenanceIsDone
      OBVIOUS
  <2>1. Going(cell, worked) /\ WornInv
      BY DEF PlcInv
  <2>2. cell.state = "producing" => ~cell.dressingDue /\ ~cell.capDue
      BY <2>1 DEF Going, Ready, SlotKept, WayOut, SlotAwaited
  <2>3. cell.state = "setup" => ~cell.part.active
      BY <2>1 DEF Going, WayOut, StopAwaited
  <2>4. ConsecutiveNok > 1 =>
            /\ cell.wear.cap <= cell.next.cap + 1 + starts
            /\ cell.wear.dressing <= cell.next.dressing + 1 + starts
      BY <2>1 DEF WornInv, Worn
  <2>5. QED
      BY <2>2, <2>3, <2>4 DEF MaintenanceIsDone
<1>2. QED
    BY <1>1, PlcInvariant, PTL

\* While a break lasts nothing begins.
THEOREM NothingBegins == Spec => NothingBeginsInABreak
<1>1. ASSUME PlcInv, [Next]_vars, cell.breakActive, cell'.breakActive, starts' = starts
      PROVE  BreakStep(cell, cell')
  <2>1. cell.state \in CellStates /\ cell.part.idx \in Nat /\ starts \in Nat
    <3>1. cell \in Cells /\ starts \in Nat
        BY <1>1 DEF PlcInv, Going, Ready
    <3>2. cell.part \in Parts /\ cell.state \in CellStates
        BY <3>1 DEF Cells
    <3>3. QED
        BY <3>1, <3>2, CellAssumption DEF Parts
  <2>2. CASE UNCHANGED cell
      BY <2>1, <2>2 DEF BreakStep
  <2>3. CASE Release \/ Trigger
      BY <1>1, <2>3, CellMoves DEF Goes
  <2>4. CASE CleanRestart \/ Crash
    <3>1. starts' = starts + 1
        BY <2>4 DEF CleanRestart, Crash
    <3>2. QED
        BY <1>1, <2>1, <3>1
  <2>5. QED
      BY <1>1, <2>2, <2>3, <2>4 DEF Next, Tick, Save, vars
<1>2. PlcInv /\ [Next]_vars =>
        [cell.breakActive /\ cell'.breakActive /\ starts' = starts =>
          /\ <<cell.state, cell'.state>> \in
                {<<s, s>> : s \in CellStates} \cup (CellStates \X {"planned"})
                  \cup ({"producing"} \X Interrupted) \cup {<<"producing", "fault">>, <<"fault", "manual">>}
          /\ cell'.part.active => cell.part.active /\ cell'.part.idx >= cell.part.idx]_vars
    BY <1>1 DEF BreakStep
<1>3. QED
    BY <1>2, PlcInvariant, PTL DEF Spec, NothingBeginsInABreak

\* Simulated time never goes back, not even over a crash, once the run that
\* crashes has saved.
THEOREM TimeOnlyAdvances == Spec => TimeNeverGoesBack
<1>1. ASSUME PlcInv, [Next]_vars
      PROVE  cell'.now >= cell.now \/ (starts' > starts /\ ~saved)
  <2>1. /\ cell \in Cells /\ cell.now \in Nat /\ starts \in Nat /\ cell.now <= clock
        /\ clock \in Nat /\ unsaved \in 0..(SaveInterval + Jitter)
        /\ Retained(file) /\ AheadOfClock
      BY <1>1 DEF PlcInv, Going, Ready, Cells
  <2>2. CASE UNCHANGED cell
      BY <2>1, <2>2
  <2>3. CASE Release \/ Trigger
    <3>1. cell.now <= cell'.now /\ Going(cell', worked')
        BY <1>1, <2>3, CellMoves DEF Goes
    <3>2. cell'.now \in Nat
        BY <3>1 DEF Going, Ready, Cells
    <3>3. QED
        BY <2>1, <3>1, <3>2
  <2>4. CASE CleanRestart
    <3>1. /\ file' = Snapshot(TRUE) /\ cell'.now = ResumeTs(file')
        BY <1>1, <2>4, Restarts DEF CleanRestart
    <3>2. ResumeTs(Snapshot(TRUE)) = cell.now
        BY DEF ResumeTs, Snapshot
    <3>3. cell'.now = cell.now
        BY <3>1, <3>2
    <3>4. QED
        BY <2>1, <3>3
  <2>5. CASE Crash
    <3>1. file' = file /\ cell'.now = ResumeTs(file') /\ starts' = starts + 1
        BY <1>1, <2>5, Restarts DEF Crash
    <3>2. CASE ~saved
        BY <2>1, <3>1, <3>2
    <3>3. CASE saved
      <4>1. /\ ~file.clean /\ file.highWater = file.simTime + Lookahead
            /\ clock < file.simTime + HeartbeatPeriod + unsaved * Acceleration
          BY <2>1, <3>3 DEF AheadOfClock
      <4>2. file.simTime \in Nat
          BY <2>1 DEF Retained, Files
      <4>3. cell'.now = file.simTime + Lookahead
          BY <3>1, <4>1 DEF ResumeTs
      <4>4. HeartbeatPeriod + unsaved * Acceleration <= Lookahead
        <5>1. {SaveInterval, Acceleration, Jitter, Margin, HeartbeatPeriod} \subseteq Nat
            BY PlcAssumption, CellAssumption
        <5>2. unsaved * Acceleration <= (SaveInterval + Jitter) * Acceleration
            BY <2>1, <5>1
        <5>3. (SaveInterval + Jitter) * Acceleration = SaveInterval * Acceleration + Jitter * Acceleration
            BY <5>1
        <5>4. 2 * SaveInterval * Acceleration = SaveInterval * Acceleration + SaveInterval * Acceleration
            BY <5>1
        <5>5. /\ unsaved * Acceleration \in Nat /\ SaveInterval * Acceleration \in Nat
              /\ Jitter * Acceleration \in Nat
            BY <2>1, <5>1
        <5>6. Jitter * Acceleration + HeartbeatPeriod <= SaveInterval * Acceleration + Margin
            BY LookaheadAssumption
        <5>7. QED
            BY <5>1, <5>2, <5>3, <5>4, <5>5, <5>6 DEF Lookahead
      <4>5. unsaved * Acceleration \in Nat /\ Lookahead \in Nat /\ HeartbeatPeriod \in Nat
        <5>1. {SaveInterval, Acceleration, Jitter, Margin, HeartbeatPeriod} \subseteq Nat
            BY PlcAssumption, CellAssumption
        <5>2. 2 * SaveInterval * Acceleration \in Nat /\ unsaved * Acceleration \in Nat
            BY <2>1, <5>1
        <5>3. QED
            BY <5>1, <5>2 DEF Lookahead
      <4>6. cell'.now >= cell.now
          BY <2>1, <4>1, <4>2, <4>3, <4>4, <4>5
      <4>7. QED
          BY <4>6
    <3>4. QED
        BY <3>2, <3>3
  <2>6. QED
      BY <1>1, <2>2, <2>3, <2>4, <2>5 DEF Next, Tick, Save, vars
<1>2. PlcInv /\ [Next]_vars => [cell'.now >= cell.now \/ (starts' > starts /\ ~saved)]_vars
    BY <1>1
<1>3. QED
    BY <1>2, PlcInvariant, PTL DEF Spec, TimeNeverGoesBack
=============================================================================
