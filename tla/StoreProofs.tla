----------------------------- MODULE StoreProofs -----------------------------
(***************************************************************************)
(* What the tracker's operations do to the database, for any scopes,       *)
(* series and tags, instants up to any N and values of any set V: the      *)
(* lemmas that the proofs of StopHistory, Collector and Deployment share.  *)
(***************************************************************************)
EXTENDS Store, Extremes, SequenceTheorems, FiniteSetTheorems

USE DEF Never

(* Tables, whose keys are instants.                                        *)

Tables(N, Rows) == UNION {[S -> Rows] : S \in SUBSET (1..N)}

\* What INSERT does with a key that is not there yet.
LEMMA Inserted ==
    ASSUME NEW N \in Nat, NEW Rows, NEW table \in Tables(N, Rows), NEW key \in 1..N, NEW row \in Rows,
           key \notin DOMAIN table
    PROVE  /\ Insert(table, key, row) \in Tables(N, Rows)
           /\ DOMAIN Insert(table, key, row) = DOMAIN table \cup {key}
           /\ Insert(table, key, row)[key] = row
           /\ \A k \in DOMAIN table : Insert(table, key, row)[k] = table[k]
<1>1. PICK S \in SUBSET (1..N) : table \in [S -> Rows]
    BY DEF Tables
<1>2. Insert(table, key, row) \in [S \cup {key} -> Rows]
    BY <1>1 DEF Insert
<1>3. S \cup {key} \in SUBSET (1..N)
    OBVIOUS
<1>4. QED
    BY <1>1, <1>2, <1>3 DEF Tables, Insert

\* ORDER BY ts DESC LIMIT 1.
LEMMA LastKey ==
    ASSUME NEW N \in Nat, NEW Rows, NEW table \in Tables(N, Rows), DOMAIN table # {}
    PROVE  /\ Max(DOMAIN table) \in DOMAIN table
           /\ Max(DOMAIN table) \in (1..N)
           /\ \A k \in DOMAIN table : k <= Max(DOMAIN table)
<1>1. DOMAIN table \in SUBSET (1..N)
    BY DEF Tables
<1>2. QED
    BY <1>1, MaxOfBounded

\* The new last key of a table is the one inserted behind the others.
LEMMA LastInserted ==
    ASSUME NEW N \in Nat, NEW Rows, NEW table \in Tables(N, Rows), NEW key \in 1..N, NEW row \in Rows,
           \A k \in DOMAIN table : k < key
    PROVE  Max(DOMAIN Insert(table, key, row)) = key
<1>1. key \notin DOMAIN table
    OBVIOUS
<1>2. Insert(table, key, row) \in Tables(N, Rows)
    BY <1>1, Inserted
<1>3. DOMAIN Insert(table, key, row) = DOMAIN table \cup {key}
    BY DEF Insert
<1>4. /\ Max(DOMAIN table \cup {key}) \in DOMAIN table \cup {key}
      /\ \A k \in DOMAIN table \cup {key} : k <= Max(DOMAIN table \cup {key})
      /\ Max(DOMAIN table \cup {key}) \in (1..N)
  <2>1. DOMAIN Insert(table, key, row) # {}
      BY <1>3
  <2>2. QED
      BY <1>2, <1>3, <2>1, LastKey
<1>5. QED
    BY <1>3, <1>4

\* The last event of a scope, or none.
LEMMA LastEventOf ==
    ASSUME NEW N \in Nat, NEW Rows, NEW events \in Tables(N, Rows)
    PROVE  /\ DOMAIN events = {} => LastEvent(events) = NoEvent
           /\ DOMAIN events # {} =>
                 /\ LastEvent(events).ts \in DOMAIN events
                 /\ LastEvent(events).ts \in (1..N)
                 /\ LastEvent(events).values = events[LastEvent(events).ts]
                 /\ LastEvent(events).values \in Rows
                 /\ LastEvent(events) # NoEvent
           /\ \A t \in DOMAIN events : t <= LastEvent(events).ts
           /\ LastEvent(events) = [ts |-> LastEvent(events).ts, values |-> LastEvent(events).values]
<1>1. CASE DOMAIN events = {}
    BY <1>1 DEF LastEvent, NoEvent
<1>2. CASE DOMAIN events # {}
  <2>1. /\ Max(DOMAIN events) \in DOMAIN events
        /\ Max(DOMAIN events) \in (1..N)
        /\ \A k \in DOMAIN events : k <= Max(DOMAIN events)
      BY <1>2, LastKey
  <2>2. events[Max(DOMAIN events)] \in Rows
      BY <2>1 DEF Tables
  <2>3. LastEvent(events) = [ts |-> Max(DOMAIN events), values |-> events[Max(DOMAIN events)]]
      BY <1>2 DEF LastEvent
  <2>4. QED
      BY <1>2, <2>1, <2>2, <2>3 DEF NoEvent
<1>3. QED
    BY <1>1, <1>2

-----------------------------------------------------------------------------

(* Sets of instants.                                                       *)

\* A set of instants is finite.
LEMMA FiniteInstants ==
    ASSUME NEW N \in Nat, NEW S \in SUBSET (1..N)
    PROVE  IsFiniteSet(S) /\ Cardinality(S) \in Nat
<1>1. IsFiniteSet(1..N)
    BY FS_Interval
<1>2. IsFiniteSet(S)
    BY <1>1, FS_Subset
<1>3. QED
    BY <1>2, FS_CardinalityType

\* A set of instants has as many as it counts: the i-th one exists.
LEMMA NthExists ==
    ASSUME NEW N \in Nat, NEW S \in SUBSET (1..N), NEW i \in 1..Cardinality(S)
    PROVE  Nth(S, i) \in S
<1> DEFINE before(t) == {u \in S : u < t}
           rank(t) == Cardinality(before(t))
           above == {t \in 1..(N + 1) : rank(t) > i - 1}
<1>1. IsFiniteSet(S) /\ Cardinality(S) \in Nat
    BY FiniteInstants
<1>2. ASSUME NEW t
      PROVE  IsFiniteSet(before(t)) /\ rank(t) \in Nat
  <2>1. before(t) \in SUBSET S
      OBVIOUS
  <2> HIDE DEF before
  <2>2. QED
    <3>1. IsFiniteSet(before(t))
        BY <1>1, <2>1, FS_Subset
    <3>2. QED
        BY <3>1, FS_CardinalityType
<1>index. i \in Nat /\ i > 0 /\ i <= Cardinality(S)
    BY <1>1
<1>3. rank(1) = 0
  <2>1. before(1) = {}
    <3>1. \A u \in S : u \in 1..N
        OBVIOUS
    <3>2. \A u \in S : ~(u < 1)
        BY <3>1
    <3>3. QED
        BY <3>2
  <2> HIDE DEF before
  <2>2. QED
      BY <2>1, FS_EmptySet
<1>4. N + 1 \in above
  <2>1. before(N + 1) = S
    <3>1. \A u \in S : u \in 1..N
        OBVIOUS
    <3>2. \A u \in S : u < N + 1
        BY <3>1
    <3>3. QED
        BY <3>2
  <2>2. rank(N + 1) > i - 1
    <3> HIDE DEF before
    <3>1. QED
        BY <1>1, <1>index, <2>1
  <2> HIDE DEF rank
  <2>3. QED
      BY <2>2
<1>5. PICK t \in above : \A u \in above : t <= u
  <2>1. above \in SUBSET Nat /\ above # {}
    <3> HIDE DEF rank, before
    <3>1. above \subseteq 1..(N + 1)
        OBVIOUS
    <3> HIDE DEF above
    <3>2. QED
        BY <1>4, <3>1
  <2> HIDE DEF above
  <2>2. QED
      BY <2>1, MinOfNaturals
<1> HIDE DEF rank, before
<1>6. t \in 1..(N + 1) /\ rank(t) > i - 1 /\ t # 1
  <2>1. t \in 1..(N + 1) /\ rank(t) > i - 1
      BY <1>5
  <2>2. ~(0 > i - 1)
      BY <1>index
  <2>3. QED
      BY <1>3, <2>1, <2>2
<1> DEFINE x == t - 1
<1>7. x \in 1..N /\ rank(x) <= i - 1
  <2>1. x \in 1..N /\ x \in 1..(N + 1) /\ ~(t <= x)
      BY <1>6
  <2>2. x \notin above
      BY <1>5, <2>1
  <2>3. QED
      BY <1>2, <2>1, <2>2
<1>8. before(t) = IF x \in S THEN before(x) \cup {x} ELSE before(x)
  <2>1. \A u \in S : u \in Int
      OBVIOUS
  <2>2. t \in Int /\ t = x + 1 /\ x \in Int
      BY <1>6
  <2> HIDE DEF x
  <2>3. \A u \in S : u < t <=> u < x \/ u = x
      BY <2>1, <2>2
  <2>4. QED
      BY <2>3 DEF before
<1>9. x \in S /\ rank(x) = i - 1
  <2>1. CASE x \notin S
    <3>1. rank(t) = rank(x)
        BY <1>8, <2>1 DEF rank
    <3>2. QED
        BY <1>2, <1>6, <1>7, <3>1
  <2>2. CASE x \in S
    <3>1. x \notin before(x)
        BY <1>7 DEF before
    <3>2. Cardinality(before(x) \cup {x}) = Cardinality(before(x)) + 1
        BY <1>2, <3>1, FS_AddElement
    <3>3. rank(t) = rank(x) + 1
        BY <1>8, <2>2, <3>2 DEF rank
    <3>4. QED
        BY <1>2, <1>6, <1>7, <2>2, <3>3
  <2>3. QED
      BY <2>1, <2>2
<1>10. \E u \in S : Cardinality({v \in S : v < u}) = i - 1
    BY <1>9 DEF rank, before
<1>11. QED
    BY <1>10 DEF Nth

-----------------------------------------------------------------------------

(* The stops of the cell's events.                                         *)

\* The open stop, if the stops follow the events, is the last event.
LEMMA OpenStop ==
    ASSUME NEW N \in Nat, NEW Rows, NEW events \in Tables(N, Rows), NEW stops, StopsFollow(events, stops)
    PROVE  OpenIn(stops) =
              IF DOMAIN events # {} /\ Stopped(LastEvent(events).values)
              THEN LastEvent(events).ts ELSE Never
<1> DEFINE open == {k \in DOMAIN stops : stops[k] = Never}
           last == LastEvent(events)
           later(t) == {u \in DOMAIN events : t < u}
<1>1. DOMAIN events \in SUBSET (1..N)
    BY DEF Tables
<1>2. ASSUME NEW k \in DOMAIN stops
      PROVE  stops[k] = Never <=> later(k) = {}
  <2>1. CASE later(k) = {}
      BY <2>1 DEF StopsFollow
  <2>2. CASE later(k) # {}
    <3>1. later(k) \in SUBSET Nat
        BY <1>1
    <3>2. Min(later(k)) \in later(k)
        BY <2>2, <3>1, MinOfNaturals
    <3>3. stops[k] = Min(later(k))
        BY <2>2 DEF StopsFollow
    <3>4. QED
        BY <1>1, <2>2, <3>2, <3>3
  <2>3. QED
      BY <2>1, <2>2
<1>3. CASE DOMAIN events = {}
  <2>1. open = {}
      BY <1>3 DEF StopsFollow
  <2>2. QED
      BY <1>3, <2>1 DEF OpenIn
<1>4. CASE DOMAIN events # {}
  <2>1. /\ last.ts \in DOMAIN events /\ last.values = events[last.ts]
        /\ \A t \in DOMAIN events : t <= last.ts
      BY <1>4, LastEventOf
  <2>2. \A k \in DOMAIN events : later(k) = {} <=> k = last.ts
      BY <1>1, <2>1
  <2>3. DOMAIN stops = {t \in DOMAIN events : Stopped(events[t])}
      BY DEF StopsFollow
  <2>4. open = IF Stopped(last.values) THEN {last.ts} ELSE {}
      BY <1>2, <2>1, <2>2, <2>3
  <2>5. CASE Stopped(last.values)
    <3>1. open \in SUBSET (1..N) /\ open # {}
        BY <1>1, <2>1, <2>4, <2>5
    <3>2. Max(open) \in open
        BY <3>1, MaxOfBounded
    <3>3. Max(open) = last.ts
        BY <2>4, <2>5, <3>2
    <3>4. QED
        BY <1>4, <2>5, <3>1, <3>3 DEF OpenIn
  <2>6. CASE ~Stopped(last.values)
      BY <2>4, <2>6 DEF OpenIn
  <2>7. QED
      BY <2>5, <2>6
<1>5. QED
    BY <1>3, <1>4

\* At most one interval is open: no two are.
LEMMA OneOpen ==
    ASSUME NEW N \in Nat, NEW table, DOMAIN table \subseteq 1..N
    PROVE  SingleOpen(table) <=>
              \A k, l \in DOMAIN table : table[k] = Never /\ table[l] = Never => k = l
<1> DEFINE open == {k \in DOMAIN table : table[k] = Never}
<1>1. open \in SUBSET (1..N)
    OBVIOUS
<1>2. IsFiniteSet(open) /\ Cardinality(open) \in Nat
  <2> HIDE DEF open
  <2>1. IsFiniteSet(1..N)
      BY FS_Interval
  <2>2. IsFiniteSet(open)
      BY <1>1, <2>1, FS_Subset
  <2>3. QED
      BY <2>2, FS_CardinalityType
<1>3. SingleOpen(table) <=> Cardinality(open) <= 1
    BY DEF SingleOpen
<1>4. ASSUME Cardinality(open) <= 1, NEW k \in open, NEW l \in open, k # l
      PROVE  FALSE
  <2> HIDE DEF open
  <2>1. IsFiniteSet({k}) /\ Cardinality({k}) = 1
      BY FS_Singleton
  <2>2. {k} \in SUBSET open
      BY <1>4
  <2>3. Cardinality({k}) <= Cardinality(open) /\ (Cardinality({k}) = Cardinality(open) => {k} = open)
      BY <1>2, <2>2, FS_Subset
  <2>4. {k} = open
      BY <1>2, <1>4, <2>1, <2>3
  <2>5. QED
      BY <1>4, <2>4
<1>5. ASSUME \A k, l \in open : k = l
      PROVE  Cardinality(open) <= 1
  <2> HIDE DEF open
  <2>1. CASE open = {}
      BY <2>1, FS_EmptySet
  <2>2. CASE open # {}
    <3>1. PICK k \in open : TRUE
        BY <2>2
    <3>2. open = {k}
        BY <1>5, <3>1
    <3>3. Cardinality(open) = 1
        BY <3>2, FS_Singleton
    <3>4. QED
        BY <3>3
  <2>3. QED
      BY <2>1, <2>2
<1>6. (\A k, l \in open : k = l) <=>
          \A k, l \in DOMAIN table : table[k] = Never /\ table[l] = Never => k = l
    OBVIOUS
<1> HIDE DEF open
<1>7. QED
    BY <1>3, <1>4, <1>5, <1>6

\* Stops that follow the events have at most one open: the schema admits them.
LEMMA StopsAreAdmitted ==
    ASSUME NEW N \in Nat, NEW Rows, NEW events \in Tables(N, Rows), NEW stops, StopsFollow(events, stops)
    PROVE  SingleOpen(stops)
<1> DEFINE later(t) == {u \in DOMAIN events : t < u}
<1>1. DOMAIN events \in SUBSET (1..N) /\ DOMAIN stops \subseteq DOMAIN events
    BY DEF Tables, StopsFollow
<1>2. ASSUME NEW k \in DOMAIN stops, stops[k] = Never
      PROVE  later(k) = {}
  <2>1. SUFFICES ASSUME later(k) # {}
                 PROVE  FALSE
      OBVIOUS
  <2>2. stops[k] = Min(later(k))
      BY <2>1 DEF StopsFollow
  <2>3. later(k) \in SUBSET Nat /\ later(k) \subseteq 1..N
      BY <1>1
  <2>4. Min(later(k)) \in later(k)
    <3> HIDE DEF later
    <3>1. QED
        BY <2>1, <2>3, MinOfNaturals
  <2>5. QED
      BY <1>2, <2>2, <2>3, <2>4
<1>3. ASSUME NEW k \in DOMAIN stops, NEW l \in DOMAIN stops, stops[k] = Never, stops[l] = Never
      PROVE  k = l
  <2>1. later(k) = {} /\ later(l) = {}
      BY <1>2, <1>3
  <2>2. k \in DOMAIN events /\ l \in DOMAIN events /\ k \in 1..N /\ l \in 1..N
      BY <1>1, <1>3
  <2>3. ~(k < l) /\ ~(l < k)
      BY <2>1, <2>2
  <2>4. QED
      BY <2>2, <2>3
<1>4. DOMAIN stops \subseteq 1..N
    BY <1>1
<1>5. QED
    BY <1>3, <1>4, OneOpen

\* What the operations of a cell event do to the stops.
StopsAfter(stops, t, image) ==
    LET closed == CloseInterval(stops, OpenIn(stops), t)
    IN  IF Stopped(image) THEN Insert(closed, t, Never) ELSE closed

\* A cell event that is newer than the others closes the open stop and opens
\* one unless the cell produces: the stops still follow the events.
LEMMA StopsStillFollow ==
    ASSUME NEW N \in Nat, NEW Rows, NEW events \in Tables(N, Rows), NEW stops, StopsFollow(events, stops),
           NEW t \in 1..N, NEW image \in Rows,
           \A u \in DOMAIN events : u < t
    PROVE  StopsFollow(Insert(events, t, image), StopsAfter(stops, t, image))
<1> DEFINE closed == CloseInterval(stops, OpenIn(stops), t)
           newEvents == Insert(events, t, image)
           newStops == StopsAfter(stops, t, image)
           later(u) == {v \in DOMAIN events : u < v}
           newLater(u) == {v \in DOMAIN newEvents : u < v}
<1>1. DOMAIN events \in SUBSET (1..N) /\ t \notin DOMAIN events
  <2>1. DOMAIN events \in SUBSET (1..N)
      BY DEF Tables
  <2>2. QED
      BY <2>1
<1>2. /\ DOMAIN newEvents = DOMAIN events \cup {t}
      /\ newEvents[t] = image
      /\ \A u \in DOMAIN events : newEvents[u] = events[u]
  <2>1. t \notin DOMAIN events
      BY <1>1
  <2> HIDE DEF closed, newStops, later, newLater
  <2>2. QED
      BY <2>1, Inserted
<1>3. DOMAIN stops = {u \in DOMAIN events : Stopped(events[u])}
    BY DEF StopsFollow
<1>4. t \notin DOMAIN stops
    BY <1>1, <1>3
<1>5. /\ DOMAIN closed = DOMAIN stops
      /\ \A u \in DOMAIN stops :
            closed[u] = IF u = OpenIn(stops) /\ stops[u] = Never /\ OpenIn(stops) < t
                        THEN t ELSE stops[u]
    BY DEF CloseInterval
<1>6. /\ DOMAIN newStops = IF Stopped(image) THEN DOMAIN stops \cup {t} ELSE DOMAIN stops
      /\ \A u \in DOMAIN stops : newStops[u] = closed[u]
      /\ Stopped(image) => newStops[t] = Never
    BY <1>4, <1>5 DEF StopsAfter, Insert
<1>7. DOMAIN newStops = {u \in DOMAIN newEvents : Stopped(newEvents[u])}
    BY <1>1, <1>2, <1>3, <1>6
<1> HIDE DEF closed, newEvents, newStops
<1>8. ASSUME NEW u \in DOMAIN newStops
      PROVE  newStops[u] = IF newLater(u) = {} THEN Never ELSE Min(newLater(u))
  <2>1. CASE u = t
    <3>1. newLater(u) = {}
        BY <1>1, <1>2, <2>1
    <3>2. Stopped(image)
        BY <1>2, <1>7, <2>1
    <3>3. QED
        BY <1>6, <2>1, <3>1, <3>2
  <2>2. CASE u # t
    <3>1. u \in DOMAIN stops /\ u \in DOMAIN events /\ u \in (1..N) /\ u < t
        BY <1>1, <1>3, <1>6, <2>2
    <3>2. newLater(u) = later(u) \cup {t}
        BY <1>2, <3>1
    <3>3. /\ Min(newLater(u)) \in newLater(u)
          /\ \A v \in newLater(u) : Min(newLater(u)) <= v
      <4>1. newLater(u) \in SUBSET Nat /\ newLater(u) # {}
          BY <1>1, <3>2
      <4> HIDE DEF newLater
      <4>2. QED
          BY <4>1, MinOfNaturals
    <3>4. CASE later(u) = {}
      <4>1. stops[u] = Never
          BY <3>1, <3>4 DEF StopsFollow
      <4>2. DOMAIN events # {}
          BY <3>1
      <4>3. LastEvent(events).ts \in DOMAIN events /\ u <= LastEvent(events).ts
            /\ LastEvent(events).values = events[LastEvent(events).ts]
          BY <3>1, <4>2, LastEventOf
      <4>4. u = LastEvent(events).ts
          BY <1>1, <3>1, <3>4, <4>3
      <4>5. OpenIn(stops) = u
          BY <1>3, <3>1, <4>2, <4>3, <4>4, OpenStop
      <4>6. newStops[u] = t
          BY <1>5, <1>6, <3>1, <4>1, <4>5
      <4>7. Min(newLater(u)) = t
          BY <3>2, <3>3, <3>4
      <4>8. QED
          BY <3>2, <4>6, <4>7
    <3>5. CASE later(u) # {}
      <4>1. later(u) \in SUBSET Nat
          BY <1>1
      <4>2. Min(later(u)) \in later(u) /\ \A v \in later(u) : Min(later(u)) <= v
        <5> HIDE DEF later
        <5>1. QED
            BY <3>5, <4>1, MinOfNaturals
      <4>3. stops[u] = Min(later(u))
          BY <3>1, <3>5 DEF StopsFollow
      <4>4. newStops[u] = Min(later(u))
          BY <1>1, <1>5, <1>6, <3>1, <4>2, <4>3
      <4>5. Min(newLater(u)) = Min(later(u))
        <5>1. Min(later(u)) \in newLater(u) /\ Min(later(u)) \in (1..N) /\ Min(later(u)) < t
            BY <1>1, <3>2, <4>2
        <5>2. Min(newLater(u)) <= Min(later(u)) /\ Min(newLater(u)) \in (1..N)
            BY <1>1, <3>2, <3>3, <5>1
        <5>3. Min(newLater(u)) # t
            BY <5>1, <5>2
        <5>4. Min(later(u)) <= Min(newLater(u))
            BY <3>2, <3>3, <4>2, <5>3
        <5>5. QED
            BY <5>1, <5>2, <5>4
      <4>6. QED
          BY <3>2, <4>4, <4>5
    <3>6. QED
        BY <3>4, <3>5
  <2>3. QED
      BY <2>1, <2>2
<1>9. QED
    BY <1>7, <1>8 DEF StopsFollow, newEvents, newStops
-----------------------------------------------------------------------------

(* One transaction: what it needs and what it leaves.                      *)

\* What the events of a scope and the samples of a series are made of, for
\* values V.
Images(V, s) == [TagsOf[s] -> V]
AnyImage(V) == UNION {Images(V, s) : s \in Scope \cup Series}

\* The operations that a tracker may issue up to an instant N.
OperationsIn(N, V) ==
    [ts      : 1..N,
     events  : UNION {[S -> AnyImage(V)] : S \in SUBSET Scope},
     closes  : (1..N) \cup {Never},
     opens   : BOOLEAN,
     samples : UNION {[S -> AnyImage(V)] : S \in SUBSET Series}]

\* A database of the right shape whose stops follow its cell events.
Consistent(N, V, d) ==
    /\ DOMAIN d = DOMAIN EmptyDb
    /\ d = [field \in DOMAIN d |-> d[field]]
    /\ d.events = [s \in Scope |-> d.events[s]]
    /\ d.samples = [s \in Series |-> d.samples[s]]
    /\ \A s \in Scope : d.events[s] \in Tables(N, Images(V, s))
    /\ \A s \in Series : d.samples[s] \in Tables(N, AnyImage(V))
    /\ d.stops \in Tables(N, (1..N) \cup {Never})
    /\ StopsFollow(d.events["CELL"], d.stops)

LastSample(table) == IF DOMAIN table = {} THEN Never ELSE Max(DOMAIN table)

\* Operations that a tracker with the memory of this database may issue: each
\* event is newer than the last of its scope and differs from it, and an event
\* of the cell closes the open stop.
Issued(V, d, ops) ==
    /\ \A s \in DOMAIN ops.events :
           /\ ops.events[s] \in Images(V, s)
           /\ ops.ts > LastEvent(d.events[s]).ts
           /\ ops.events[s] # LastEvent(d.events[s]).values
    /\ ops.closes = IF "CELL" \in DOMAIN ops.events THEN OpenIn(d.stops) ELSE Never
    /\ ops.opens = ("CELL" \in DOMAIN ops.events /\ Stopped(ops.events["CELL"]))
    /\ \A s \in DOMAIN ops.samples : ops.ts > LastSample(d.samples[s])

\* The tracker's memory is what the database says.
Remembers(t, d) ==
    /\ t = [latest |-> t.latest, last |-> t.last, openStop |-> t.openStop,
            lastSample |-> t.lastSample]
    /\ t.last = [s \in Scope |-> LastEvent(d.events[s])]
    /\ t.openStop = OpenIn(d.stops)
    /\ t.lastSample = [s \in Series |-> LastSample(d.samples[s])]

\* The operations of one group have their types.
LEMMA OperationTypes ==
    ASSUME NEW N \in Nat, NEW V, NEW ops \in OperationsIn(N, V)
    PROVE  /\ ops.ts \in (1..N)
           /\ DOMAIN ops.events \in SUBSET Scope
           /\ DOMAIN ops.samples \in SUBSET Series
           /\ \A s \in DOMAIN ops.samples : ops.samples[s] \in AnyImage(V)
BY DEF OperationsIn

\* The table of a scope after the transaction.
LEMMA EventsWritten ==
    ASSUME NEW N \in Nat, NEW V, NEW d, Consistent(N, V, d), NEW ops \in OperationsIn(N, V), Issued(V, d, ops), NEW s \in Scope
    PROVE  LET old == d.events[s]
               new == Write(d, ops).events[s]
           IN  /\ new \in Tables(N, Images(V, s))
               /\ s \notin DOMAIN ops.events => new = old
               /\ s \in DOMAIN ops.events =>
                     /\ \A t \in DOMAIN old : t < ops.ts
                     /\ DOMAIN new = DOMAIN old \cup {ops.ts}
                     /\ new[ops.ts] = ops.events[s]
                     /\ \A t \in DOMAIN old : new[t] = old[t]
                     /\ new = Insert(old, ops.ts, ops.events[s])
                     /\ LastEvent(new) = [ts |-> ops.ts, values |-> ops.events[s]]
<1> DEFINE old == d.events[s]
           new == Write(d, ops).events[s]
<1>1. old \in Tables(N, Images(V, s)) /\ ops.ts \in (1..N)
    BY OperationTypes DEF Consistent
<1>2. new = IF s \in DOMAIN ops.events THEN Insert(old, ops.ts, ops.events[s]) ELSE old
    BY DEF Write, Consistent, EmptyDb
<1>3. CASE s \notin DOMAIN ops.events
    BY <1>1, <1>2, <1>3
<1>4. CASE s \in DOMAIN ops.events
  <2>1. ops.events[s] \in Images(V, s) /\ ops.ts > LastEvent(old).ts
      BY <1>4 DEF Issued
  <2> HIDE DEF new, old
  <2>2. \A t \in DOMAIN old : t <= LastEvent(old).ts
      BY <1>1, LastEventOf
  <2>3. DOMAIN old \in SUBSET (1..N)
      BY <1>1 DEF Tables
  <2>4. LastEvent(old).ts \in Int
    <3>1. CASE DOMAIN old = {}
        BY <1>1, <3>1, LastEventOf DEF NoEvent
    <3>2. CASE DOMAIN old # {}
        BY <1>1, <2>3, <3>2, LastEventOf
    <3>3. QED
        BY <3>1, <3>2
  <2>5. \A t \in DOMAIN old : t < ops.ts
      BY <1>1, <2>1, <2>2, <2>3, <2>4
  <2>6. ops.ts \notin DOMAIN old
      BY <2>3, <2>5
  <2>7. new = Insert(old, ops.ts, ops.events[s])
      BY <1>2, <1>4 DEF old, new
  <2>8. new \in Tables(N, Images(V, s))
      BY <1>1, <2>1, <2>6, <2>7, Inserted
  <2>9. /\ DOMAIN new = DOMAIN old \cup {ops.ts}
        /\ new[ops.ts] = ops.events[s]
        /\ \A t \in DOMAIN old : new[t] = old[t]
      BY <1>1, <2>1, <2>6, <2>7, Inserted
  <2>10. Max(DOMAIN new) = ops.ts
      BY <1>1, <2>1, <2>5, <2>7, LastInserted
  <2>11. LastEvent(new) = [ts |-> ops.ts, values |-> ops.events[s]]
      BY <2>9, <2>10 DEF LastEvent
  <2>12. QED
      BY <1>4, <2>5, <2>7, <2>8, <2>9, <2>11 DEF old, new
<1>5. QED
    BY <1>3, <1>4

\* The table of a series after the transaction.
LEMMA SamplesWritten ==
    ASSUME NEW N \in Nat, NEW V, NEW d, Consistent(N, V, d), NEW ops \in OperationsIn(N, V), Issued(V, d, ops), NEW s \in Series
    PROVE  LET old == d.samples[s]
               new == Write(d, ops).samples[s]
           IN  /\ new \in Tables(N, AnyImage(V))
               /\ LastSample(new) = IF s \in DOMAIN ops.samples THEN ops.ts ELSE LastSample(old)
<1> DEFINE old == d.samples[s]
           new == Write(d, ops).samples[s]
<1>1. old \in Tables(N, AnyImage(V)) /\ ops.ts \in (1..N)
    BY OperationTypes DEF Consistent
<1>2. new = IF s \in DOMAIN ops.samples THEN Insert(old, ops.ts, ops.samples[s]) ELSE old
    BY DEF Write, Consistent, EmptyDb
<1>3. CASE s \notin DOMAIN ops.samples
    BY <1>1, <1>2, <1>3
<1>4. CASE s \in DOMAIN ops.samples
  <2>1. ops.samples[s] \in AnyImage(V) /\ ops.ts > LastSample(old)
      BY <1>4, OperationTypes DEF Issued
  <2> HIDE DEF new, old
  <2>2. DOMAIN old \in SUBSET (1..N)
      BY <1>1 DEF Tables
  <2>3. \A t \in DOMAIN old : t <= LastSample(old) /\ LastSample(old) \in (1..N)
      BY <1>1, LastKey DEF LastSample
  <2>4. \A t \in DOMAIN old : t < ops.ts
      BY <1>1, <2>1, <2>2, <2>3
  <2>5. ops.ts \notin DOMAIN old
      BY <2>2, <2>4
  <2>6. new = Insert(old, ops.ts, ops.samples[s])
      BY <1>2, <1>4 DEF old, new
  <2>7. new \in Tables(N, AnyImage(V))
      BY <1>1, <2>1, <2>5, <2>6, Inserted
  <2>8. DOMAIN new # {}
      BY <2>6 DEF Insert
  <2>9. Max(DOMAIN new) = ops.ts
      BY <1>1, <2>1, <2>4, <2>6, LastInserted
  <2>10. QED
      BY <1>4, <2>7, <2>8, <2>9 DEF LastSample, old, new
<1>5. QED
    BY <1>3, <1>4

\* The stops after the transaction follow the events.
LEMMA StopsWritten ==
    ASSUME NEW N \in Nat, NEW V, NEW d, Consistent(N, V, d), NEW ops \in OperationsIn(N, V), Issued(V, d, ops)
    PROVE  LET e == Write(d, ops)
           IN  /\ e.stops \in Tables(N, (1..N) \cup {Never})
               /\ StopsFollow(e.events["CELL"], e.stops)
               /\ "CELL" \notin DOMAIN ops.events => e.stops = d.stops
               /\ OpenIn(e.stops) = IF "CELL" \notin DOMAIN ops.events THEN OpenIn(d.stops)
                                    ELSE IF ops.opens THEN ops.ts ELSE Never
<1>0. "CELL" \notin DOMAIN ops.events => Write(d, ops).events["CELL"] = d.events["CELL"]
  <2>1. "CELL" \in Scope
      BY TrackerAssumption
  <2>2. QED
      BY <2>1 DEF Write, Consistent, EmptyDb
<1> DEFINE e == Write(d, ops)
           closed == CloseInterval(d.stops, ops.closes, ops.ts)
           events == d.events["CELL"]
<1>1. /\ "CELL" \in Scope
      /\ events \in Tables(N, Images(V, "CELL"))
      /\ d.stops \in Tables(N, (1..N) \cup {Never})
      /\ StopsFollow(events, d.stops)
      /\ ops.ts \in (1..N)
    BY TrackerAssumption, OperationTypes DEF Consistent
<1>2. e.stops = IF ops.opens THEN Insert(closed, ops.ts, Never) ELSE closed
    BY DEF Write, Consistent, EmptyDb
<1>3. PICK S \in SUBSET (1..N) : d.stops \in [S -> (1..N) \cup {Never}]
    BY <1>1 DEF Tables
<1>4. closed \in [S -> (1..N) \cup {Never}]
    BY <1>1, <1>3 DEF CloseInterval
<1>5. CASE "CELL" \notin DOMAIN ops.events
  <2>1. ~ops.opens /\ ops.closes = Never
      BY <1>5 DEF Issued
  <2>2. closed = d.stops
    <3>1. \A k \in S : closed[k] = d.stops[k]
        BY <1>3, <2>1 DEF CloseInterval
    <3>2. closed = [k \in S |-> closed[k]] /\ d.stops = [k \in S |-> d.stops[k]]
        BY <1>3, <1>4
    <3> HIDE DEF closed
    <3>3. QED
        BY <3>1, <3>2
  <2>3. e.events["CELL"] = events
      BY <1>0, <1>1, <1>5
  <2>4. QED
      BY <1>1, <1>2, <1>5, <2>1, <2>2, <2>3
<1>6. CASE "CELL" \in DOMAIN ops.events
  <2> DEFINE image == ops.events["CELL"]
  <2>1. image \in Images(V, "CELL") /\ ops.closes = OpenIn(d.stops) /\ (ops.opens <=> Stopped(image))
    <3>1. ops.opens \in BOOLEAN
        BY DEF OperationsIn
    <3>2. ops.opens = ("CELL" \in DOMAIN ops.events /\ Stopped(ops.events["CELL"]))
        BY DEF Issued
    <3>3. image \in Images(V, "CELL") /\ ops.closes = OpenIn(d.stops)
        BY <1>6 DEF Issued
    <3>4. QED
        BY <1>6, <3>1, <3>2, <3>3
  <2>2. /\ \A t \in DOMAIN events : t < ops.ts
        /\ e.events["CELL"] = Insert(events, ops.ts, image)
        /\ e.events["CELL"] \in Tables(N, Images(V, "CELL"))
        /\ LastEvent(e.events["CELL"]) = [ts |-> ops.ts, values |-> image]
        /\ DOMAIN e.events["CELL"] = DOMAIN events \cup {ops.ts}
      BY <1>1, <1>6, EventsWritten
  <2>3. e.stops = StopsAfter(d.stops, ops.ts, image)
      BY <1>2, <2>1 DEF StopsAfter
  <2>4. StopsFollow(e.events["CELL"], e.stops)
    <3> HIDE DEF e, events, image, closed
    <3>1. QED
        BY <1>1, <2>1, <2>2, <2>3, StopsStillFollow
  <2>5. e.stops \in Tables(N, (1..N) \cup {Never})
    <3>1. closed \in Tables(N, (1..N) \cup {Never}) /\ DOMAIN closed = S
        BY <1>4 DEF Tables
    <3>2. S \subseteq DOMAIN events
        BY <1>1, <1>3 DEF StopsFollow
    <3>3. ops.ts \notin DOMAIN closed
        BY <1>1, <2>2, <3>1, <3>2
    <3>4. Insert(closed, ops.ts, Never) \in Tables(N, (1..N) \cup {Never})
      <4>1. Never \in (1..N) \cup {Never}
          OBVIOUS
      <4> HIDE DEF closed
      <4>2. QED
          BY <1>1, <3>1, <3>3, <4>1, Inserted
    <3>5. QED
        BY <1>2, <3>1, <3>4
  <2>6. OpenIn(e.stops) = IF Stopped(image) THEN ops.ts ELSE Never
    <3>1. /\ DOMAIN e.events["CELL"] # {}
          /\ LastEvent(e.events["CELL"]).ts = ops.ts
          /\ LastEvent(e.events["CELL"]).values = image
        BY <2>2
    <3> HIDE DEF e, events, image, closed
    <3>2. QED
        BY <2>2, <2>4, <3>1, OpenStop
  <2>7. QED
      BY <1>6, <2>1, <2>4, <2>5, <2>6
<1>7. QED
    BY <1>5, <1>6

\* A transaction keeps the database consistent.
LEMMA WriteKeepsConsistent ==
    ASSUME NEW N \in Nat, NEW V, NEW d, Consistent(N, V, d), NEW ops \in OperationsIn(N, V), Issued(V, d, ops)
    PROVE  Consistent(N, V, Write(d, ops))
<1> DEFINE e == Write(d, ops)
<1>1. /\ DOMAIN e = DOMAIN EmptyDb
      /\ e = [field \in DOMAIN e |-> e[field]]
    BY DEF Write, Consistent, EmptyDb
<1>2. /\ e.events = [s \in Scope |-> e.events[s]]
      /\ e.samples = [s \in Series |-> e.samples[s]]
  <2>1. e.events = [s \in Scope |->
            IF s \in DOMAIN ops.events
            THEN Insert(d.events[s], ops.ts, ops.events[s])
            ELSE d.events[s]]
      BY DEF Write, Consistent, EmptyDb
  <2>2. e.samples = [s \in Series |->
            IF s \in DOMAIN ops.samples
            THEN Insert(d.samples[s], ops.ts, ops.samples[s])
            ELSE d.samples[s]]
      BY DEF Write, Consistent, EmptyDb
  <2> HIDE DEF e
  <2>3. QED
      BY <2>1, <2>2
<1>3. \A s \in Scope : e.events[s] \in Tables(N, Images(V, s))
    BY EventsWritten
<1>4. \A s \in Series : e.samples[s] \in Tables(N, AnyImage(V))
    BY SamplesWritten
<1>5. /\ e.stops \in Tables(N, (1..N) \cup {Never})
      /\ StopsFollow(e.events["CELL"], e.stops)
    BY StopsWritten
<1> HIDE DEF e
<1>6. Consistent(N, V, e)
    BY <1>1, <1>2, <1>3, <1>4, <1>5 DEF Consistent
<1>7. QED
    BY <1>6 DEF e
-----------------------------------------------------------------------------

(* The tracker.                                                            *)

\* What is known of the tags comes from groups.
KnownTags(V, latest) ==
    \A tag \in DOMAIN latest : latest[tag].value \in V

\* A group of these instants and values.
IsGroup(N, V, g) == g.ts \in 1..N /\ \A tag \in DOMAIN g.values : g.values[tag] \in V

\* What the tracker knows of the tags after a group still comes from groups.
LEMMA ObserveKeepsTypes ==
    ASSUME NEW N \in Nat, NEW V, NEW latest, KnownTags(V, latest), NEW g, IsGroup(N, V, g)
    PROVE  KnownTags(V, Observe(latest, g))
<1> DEFINE new == Observe(latest, g)
<1>1. \A tag \in DOMAIN g.values : g.values[tag] \in V
    BY DEF IsGroup
<1>2. DOMAIN new = DOMAIN latest \cup DOMAIN g.values
    BY DEF Observe
<1>3. ASSUME NEW tag \in DOMAIN new
      PROVE  new[tag].value \in V
  <2>1. \/ tag \in DOMAIN g.values /\ new[tag] = [ts |-> g.ts, value |-> g.values[tag]]
        \/ tag \in DOMAIN latest /\ new[tag] = latest[tag]
      BY <1>2 DEF Observe
  <2> HIDE DEF new
  <2>2. CASE tag \in DOMAIN g.values /\ new[tag] = [ts |-> g.ts, value |-> g.values[tag]]
      BY <1>1, <2>2
  <2>3. CASE tag \in DOMAIN latest /\ new[tag] = latest[tag]
      BY <2>3 DEF KnownTags
  <2>4. QED
      BY <2>1, <2>2, <2>3
<1> HIDE DEF new
<1>4. KnownTags(V, new)
    BY <1>1, <1>2, <1>3 DEF KnownTags
<1>5. QED
    BY <1>4 DEF new

\* An event or a sample is made of values of its tags.
LEMMA ImageType ==
    ASSUME NEW N \in Nat, NEW V, NEW latest, KnownTags(V, latest), NEW s \in Scope \cup Series, Known(latest, s)
    PROVE  Image(latest, s) \in Images(V, s) /\ Image(latest, s) \in AnyImage(V)
BY DEF KnownTags, Known, Image, Images, AnyImage

\* With a memory that agrees with a database, the tracker issues for any group
\* operations that fit this database, and remembers what it will then say.
LEMMA TrackerIssues ==
    ASSUME NEW N \in Nat, NEW V, NEW d, Consistent(N, V, d), NEW t, Remembers(t, d), KnownTags(V, t.latest), NEW g, IsGroup(N, V, g)
    PROVE  LET ops == OpsFor(t, g)
               after == After(t, g, ops)
           IN  /\ ops \in OperationsIn(N, V)
               /\ Issued(V, d, ops)
               /\ KnownTags(V, after.latest)
               /\ Remembers(after, Write(d, ops))
               /\ ~HasOps(ops) => Remembers(after, d)
<1> DEFINE latest == Observe(t.latest, g)
           ops == OpsFor(t, g)
           after == After(t, g, ops)
           changed == {s \in Scope : Changes(t, latest, g, s)}
           sampled == {s \in Series : Samples(t, latest, g, s)}
<1>1. g.ts \in (1..N) /\ KnownTags(V, latest)
    BY ObserveKeepsTypes DEF IsGroup
<1>2. /\ ops.ts = g.ts
      /\ ops.events = [s \in changed |-> Image(latest, s)]
      /\ ops.closes = IF "CELL" \in changed THEN t.openStop ELSE Never
      /\ ops.opens = ("CELL" \in changed /\ Stopped(Image(latest, "CELL")))
      /\ ops.samples = [s \in sampled |-> Image(latest, s)]
      /\ ops = [ts |-> ops.ts, events |-> ops.events, closes |-> ops.closes,
                opens |-> ops.opens, samples |-> ops.samples]
    BY DEF OpsFor
<1>3. /\ t.last = [s \in Scope |-> LastEvent(d.events[s])]
      /\ t.openStop = OpenIn(d.stops)
      /\ t.lastSample = [s \in Series |-> LastSample(d.samples[s])]
    BY DEF Remembers
<1>4. OpenIn(d.stops) \in (1..N) \cup {Never}
  <2>1. "CELL" \in Scope /\ d.events["CELL"] \in Tables(N, Images(V, "CELL"))
      BY TrackerAssumption DEF Consistent
  <2>2. DOMAIN d.events["CELL"] # {} => LastEvent(d.events["CELL"]).ts \in (1..N)
      BY <2>1, LastEventOf
  <2>3. QED
      BY <2>1, <2>2, OpenStop DEF Consistent
<1>5. /\ \A s \in changed : /\ Image(latest, s) \in Images(V, s)
                            /\ Image(latest, s) \in AnyImage(V)
                            /\ Image(latest, s) # LastEvent(d.events[s]).values
                            /\ g.ts > LastEvent(d.events[s]).ts
      /\ \A s \in sampled : /\ Image(latest, s) \in AnyImage(V)
                            /\ g.ts > LastSample(d.samples[s])
    BY <1>1, <1>3, ImageType DEF Changes, Samples
<1>6. /\ after.latest = latest
      /\ after.last = [s \in Scope |-> IF s \in DOMAIN ops.events
                                       THEN [ts |-> g.ts, values |-> ops.events[s]]
                                       ELSE t.last[s]]
      /\ after.openStop = IF "CELL" \notin DOMAIN ops.events THEN t.openStop
                          ELSE IF ops.opens THEN g.ts ELSE Never
      /\ after.lastSample = [s \in Series |-> IF s \in DOMAIN ops.samples THEN g.ts
                                              ELSE t.lastSample[s]]
      /\ after = [latest |-> after.latest, last |-> after.last,
                  openStop |-> after.openStop, lastSample |-> after.lastSample]
    BY DEF After
<1> HIDE DEF latest, ops, after
<1>7. ops \in OperationsIn(N, V)
  <2>1. ops.events \in [changed -> AnyImage(V)] /\ ops.samples \in [sampled -> AnyImage(V)]
      BY <1>2, <1>5
  <2>2. ops.opens \in BOOLEAN /\ ops.closes \in (1..N) \cup {Never}
      BY <1>2, <1>3, <1>4
  <2>3. changed \in SUBSET Scope /\ sampled \in SUBSET Series
      OBVIOUS
  <2> HIDE DEF changed, sampled
  <2>4. /\ ops.events \in UNION {[S -> AnyImage(V)] : S \in SUBSET Scope}
        /\ ops.samples \in UNION {[S -> AnyImage(V)] : S \in SUBSET Series}
      BY <2>1, <2>3
  <2>5. QED
      BY <1>1, <1>2, <2>2, <2>4 DEF OperationsIn
<1> HIDE DEF changed, sampled
<1>8. Issued(V, d, ops)
    BY <1>2, <1>3, <1>5 DEF Issued
<1>9. Remembers(after, Write(d, ops))
  <2>0. /\ Write(d, ops).stops \in Tables(N, (1..N) \cup {Never})
        /\ OpenIn(Write(d, ops).stops) = IF "CELL" \notin DOMAIN ops.events THEN OpenIn(d.stops)
                                         ELSE IF ops.opens THEN ops.ts ELSE Never
      BY <1>7, <1>8, StopsWritten
  <2> DEFINE e == Write(d, ops)
  <2>1. \A s \in Scope :
            LastEvent(e.events[s]) = IF s \in DOMAIN ops.events
                                     THEN [ts |-> ops.ts, values |-> ops.events[s]]
                                     ELSE LastEvent(d.events[s])
      BY <1>7, <1>8, EventsWritten
  <2>2. \A s \in Series :
            LastSample(e.samples[s]) = IF s \in DOMAIN ops.samples THEN ops.ts
                                       ELSE LastSample(d.samples[s])
      BY <1>7, <1>8, SamplesWritten
  <2>3. OpenIn(e.stops) = IF "CELL" \notin DOMAIN ops.events THEN OpenIn(d.stops)
                          ELSE IF ops.opens THEN ops.ts ELSE Never
      BY <2>0
  <2> HIDE DEF e
  <2>4. after.last = [s \in Scope |-> LastEvent(e.events[s])]
      BY <1>2, <1>3, <1>6, <2>1
  <2>5. after.lastSample = [s \in Series |-> LastSample(e.samples[s])]
      BY <1>2, <1>3, <1>6, <2>2
  <2>6. after.openStop = OpenIn(e.stops)
      BY <1>2, <1>3, <1>6, <2>3
  <2>7. Remembers(after, e)
      BY <1>6, <2>4, <2>5, <2>6 DEF Remembers
  <2>8. QED
      BY <2>7 DEF e
<1>10. ASSUME ~HasOps(ops)
       PROVE  Remembers(after, d)
  <2>1. DOMAIN ops.events = {} /\ DOMAIN ops.samples = {}
      BY <1>10 DEF HasOps
  <2>2. /\ after.last = t.last /\ after.lastSample = t.lastSample
        /\ after.openStop = t.openStop
      BY <1>3, <1>6, <2>1
  <2>3. QED
      BY <1>3, <1>6, <2>2 DEF Remembers
<1>11. QED
    BY <1>1, <1>6, <1>7, <1>8, <1>9, <1>10 DEF ops, after

-----------------------------------------------------------------------------

(* The stages between the database and what the tracker has issued.        *)

IsStages(f, base, operations) ==
    f = [n \in 0..Len(operations) |->
            IF n = 0 THEN base ELSE Write(f[n - 1], operations[n])]

\* They are well defined ...
LEMMA StagesExist ==
    ASSUME NEW base, NEW operations, Len(operations) \in Nat
    PROVE  IsStages(StagesOf(base, operations), base, operations)
<1> DEFINE Reach(n, f) == f = [k \in 0..n |-> IF k = 0 THEN base ELSE Write(f[k - 1], operations[k])]
           bad == {n \in Nat : ~\E f : Reach(n, f)}
<1>1. bad = {}
  <2>1. SUFFICES ASSUME bad # {}
                 PROVE  FALSE
      OBVIOUS
  <2>2. Min(bad) \in bad /\ \A n \in bad : Min(bad) <= n
    <3>1. bad \in SUBSET Nat
        OBVIOUS
    <3> HIDE DEF bad
    <3>2. QED
        BY <2>1, <3>1, MinOfNaturals
  <2>3. PICK m \in bad : \A n \in bad : m <= n
      BY <2>2
  <2>4. CASE m = 0
    <3>1. Reach(0, [k \in 0..0 |-> base])
        OBVIOUS
    <3>2. QED
        BY <2>3, <2>4, <3>1
  <2>5. CASE m # 0
    <3>1. m - 1 \in Nat /\ m - 1 \notin bad
      <4>1. m \in Nat
          OBVIOUS
      <4>2. m - 1 \in Nat /\ ~(m <= m - 1)
          BY <2>5, <4>1
      <4> HIDE DEF bad
      <4>3. QED
          BY <2>3, <4>2
    <3>2. PICK f : Reach(m - 1, f)
        BY <3>1
    <3> DEFINE h == [k \in 0..m |-> IF k = m THEN Write(f[m - 1], operations[m]) ELSE f[k]]
    <3>3. \A k \in 0..(m - 1) : f[k] = IF k = 0 THEN base ELSE Write(f[k - 1], operations[k])
        BY <3>2
    <3>4. \A k \in 0..m : h[k] = IF k = 0 THEN base ELSE Write(h[k - 1], operations[k])
      <4>1. ASSUME NEW k \in 0..m
            PROVE  h[k] = IF k = 0 THEN base ELSE Write(h[k - 1], operations[k])
        <5>1. CASE k = 0
            BY <2>5, <3>1, <3>3, <5>1
        <5>2. CASE k = m
            BY <2>5, <3>1, <5>2
        <5>3. CASE k # 0 /\ k # m
            BY <3>1, <3>3, <5>3
        <5>4. QED
            BY <5>1, <5>2, <5>3
      <4>2. QED
          BY <4>1
    <3>5. h = [k \in 0..m |-> h[k]]
        OBVIOUS
    <3> HIDE DEF h
    <3>6. Reach(m, h)
        BY <3>4, <3>5
    <3>7. QED
        BY <2>3, <3>6
  <2>6. QED
      BY <2>4, <2>5
<1>2. \E f : Reach(Len(operations), f)
    BY <1>1
<1>3. QED
    BY <1>2 DEF StagesOf, IsStages

\* Stage by stage.
StageByStage(f, base, operations) ==
    /\ f = [n \in 0..Len(operations) |-> f[n]]
    /\ f[0] = base
    /\ \A n \in 1..Len(operations) : f[n] = Write(f[n - 1], operations[n])

\* ... which says what each stage is.
LEMMA StagesStep ==
    ASSUME NEW base, NEW operations, Len(operations) \in Nat, NEW f, IsStages(f, base, operations)
    PROVE  StageByStage(f, base, operations)
<1> DEFINE Stage(n) == IF n = 0 THEN base ELSE Write(f[n - 1], operations[n])
<1>1. f = [n \in 0..Len(operations) |-> Stage(n)]
    BY DEF IsStages
<1>2. \A n \in 0..Len(operations) : f[n] = Stage(n)
  <2> HIDE DEF Stage
  <2>1. QED
      BY <1>1
<1>3. f = [n \in 0..Len(operations) |-> f[n]]
  <2> HIDE DEF Stage
  <2>1. QED
      BY <1>1
<1>4. QED
    BY <1>2, <1>3 DEF StageByStage

\* ... and there are no others.
LEMMA StagesUnique ==
    ASSUME NEW base, NEW operations, Len(operations) \in Nat, NEW f, IsStages(f, base, operations)
    PROVE  StagesOf(base, operations) = f
<1> DEFINE g == StagesOf(base, operations)
           bad == {n \in 0..Len(operations) : g[n] # f[n]}
<1>1. IsStages(g, base, operations)
    BY StagesExist
<1> HIDE DEF g
<1>2. StageByStage(g, base, operations)
    BY <1>1, StagesStep
<1>3. StageByStage(f, base, operations)
    BY StagesStep
<1>4. bad = {}
  <2>1. SUFFICES ASSUME bad # {}
                 PROVE  FALSE
      OBVIOUS
  <2>2. Min(bad) \in bad /\ \A n \in bad : Min(bad) <= n
    <3>1. bad \in SUBSET Nat
        OBVIOUS
    <3> HIDE DEF bad
    <3>2. QED
        BY <2>1, <3>1, MinOfNaturals
  <2>3. PICK m \in bad : \A n \in bad : m <= n
      BY <2>2
  <2>4. m # 0 /\ m \in 1..Len(operations)
      BY <1>2, <1>3, <2>3 DEF StageByStage
  <2>5. m - 1 \in 0..Len(operations) /\ m - 1 \notin bad
      BY <2>3, <2>4
  <2>6. g[m - 1] = f[m - 1]
      BY <2>5
  <2>7. QED
      BY <1>2, <1>3, <2>3, <2>4, <2>6 DEF StageByStage
<1>5. QED
    BY <1>2, <1>3, <1>4 DEF g, StageByStage

\* One group issued: one more stage.
LEMMA StagesAppend ==
    ASSUME NEW Ops, NEW base, NEW operations \in Seq(Ops), NEW ops \in Ops
    PROVE  LET old == StagesOf(base, operations)
               new == StagesOf(base, Append(operations, ops))
           IN  /\ \A n \in 0..Len(operations) : new[n] = old[n]
               /\ new[Len(operations) + 1] = Write(old[Len(operations)], ops)
<1> DEFINE old == StagesOf(base, operations)
           more == Append(operations, ops)
           h == [n \in 0..(Len(operations) + 1) |->
                    IF n <= Len(operations) THEN old[n] ELSE Write(old[Len(operations)], ops)]
<1>1. Len(operations) \in Nat
    OBVIOUS
<1>2. /\ Len(more) = Len(operations) + 1
      /\ \A n \in 1..Len(operations) : more[n] = operations[n]
      /\ more[Len(operations) + 1] = ops
    OBVIOUS
<1>3. /\ old[0] = base
      /\ \A n \in 1..Len(operations) : old[n] = Write(old[n - 1], operations[n])
  <2>1. IsStages(old, base, operations)
      BY <1>1, StagesExist
  <2> HIDE DEF old
  <2>2. StageByStage(old, base, operations)
      BY <1>1, <2>1, StagesStep
  <2>3. QED
      BY <2>2 DEF StageByStage
<1> HIDE DEF old, more
<1>4. \A n \in 0..Len(more) : h[n] = IF n = 0 THEN base ELSE Write(h[n - 1], more[n])
  <2>1. ASSUME NEW n \in 0..Len(more)
        PROVE  h[n] = IF n = 0 THEN base ELSE Write(h[n - 1], more[n])
    <3>1. CASE n = 0
        BY <1>1, <1>2, <1>3, <3>1
    <3>2. CASE n \in 1..Len(operations)
        BY <1>1, <1>2, <1>3, <3>2
    <3>3. CASE n = Len(operations) + 1
        BY <1>1, <1>2, <3>3
    <3>4. QED
        BY <1>1, <1>2, <3>1, <3>2, <3>3
  <2>2. QED
      BY <2>1
<1>5. h = [n \in 0..Len(more) |-> h[n]]
    BY <1>2
<1>6. /\ \A n \in 0..Len(operations) : h[n] = old[n]
      /\ h[Len(operations) + 1] = Write(old[Len(operations)], ops)
    BY <1>1
<1> HIDE DEF h
<1>7. IsStages(h, base, more)
    BY <1>4, <1>5 DEF IsStages
<1>8. StagesOf(base, more) = h
    BY <1>1, <1>2, <1>7, StagesUnique
<1>9. QED
    BY <1>6, <1>8 DEF old, more

\* One group committed: the same stages, seen from the database it leaves.
LEMMA StagesTail ==
    ASSUME NEW Ops, NEW base, NEW operations \in Seq(Ops), operations # <<>>
    PROVE  LET old == StagesOf(base, operations)
               new == StagesOf(Write(base, Head(operations)), Tail(operations))
           IN  /\ \A n \in 0..Len(Tail(operations)) : new[n] = old[n + 1]
               /\ old[1] = Write(base, Head(operations))
<1> DEFINE old == StagesOf(base, operations)
           rest == Tail(operations)
           first == Write(base, Head(operations))
           h == [n \in 0..Len(rest) |-> old[n + 1]]
<1>1. /\ Len(operations) \in Nat \ {0}
      /\ Len(rest) = Len(operations) - 1
      /\ \A n \in 1..Len(rest) : rest[n] = operations[n + 1]
      /\ Head(operations) = operations[1]
    OBVIOUS
<1>2. /\ old[0] = base
      /\ \A n \in 1..Len(operations) : old[n] = Write(old[n - 1], operations[n])
  <2>1. IsStages(old, base, operations)
      BY <1>1, StagesExist
  <2> HIDE DEF old
  <2>2. StageByStage(old, base, operations)
      BY <1>1, <2>1, StagesStep
  <2>3. QED
      BY <2>2 DEF StageByStage
<1> HIDE DEF old, rest
<1>3. old[1] = first
    BY <1>1, <1>2
<1>4. \A n \in 0..Len(rest) : h[n] = IF n = 0 THEN first ELSE Write(h[n - 1], rest[n])
  <2>1. ASSUME NEW n \in 0..Len(rest)
        PROVE  h[n] = IF n = 0 THEN first ELSE Write(h[n - 1], rest[n])
    <3>1. CASE n = 0
        BY <1>1, <1>3, <3>1
    <3>2. CASE n \in 1..Len(rest)
      <4>1. old[n + 1] = Write(old[n], operations[n + 1])
          BY <1>1, <1>2, <3>2
      <4>2. h[n] = old[n + 1] /\ h[n - 1] = old[n]
          BY <1>1, <3>2
      <4> HIDE DEF h
      <4>3. QED
          BY <1>1, <3>2, <4>1, <4>2
    <3>3. QED
        BY <1>1, <3>1, <3>2
  <2>2. QED
      BY <2>1
<1>5. h = [n \in 0..Len(rest) |-> h[n]] /\ \A n \in 0..Len(rest) : h[n] = old[n + 1]
    OBVIOUS
<1> HIDE DEF h, first
<1>6. IsStages(h, first, rest)
    BY <1>4, <1>5 DEF IsStages
<1>7. StagesOf(first, rest) = h
    BY <1>1, <1>6, StagesUnique
<1>8. QED
    BY <1>3, <1>5, <1>7 DEF old, rest, first

-----------------------------------------------------------------------------

(* A tracker over several groups.                                          *)

MemoryByMemory(m, trk, groups) ==
    /\ m = [n \in 0..Len(groups) |-> m[n]]
    /\ m[0] = trk
    /\ \A n \in 1..Len(groups) : m[n] = Track(m[n - 1], groups[n])

\* They are well defined.
LEMMA MemoriesExist ==
    ASSUME NEW trk, NEW groups, Len(groups) \in Nat
    PROVE  MemoryByMemory(MemoriesOf(trk, groups), trk, groups)
<1> DEFINE Next(n, m) == IF n = 0 THEN trk ELSE Track(m[n - 1], groups[n])
           Reach(n, m) == m = [k \in 0..n |-> Next(k, m)]
           bad == {n \in Nat : ~\E m : Reach(n, m)}
<1>1. bad = {}
  <2>1. SUFFICES ASSUME bad # {}
                 PROVE  FALSE
      OBVIOUS
  <2>2. Min(bad) \in bad /\ \A n \in bad : Min(bad) <= n
    <3>1. bad \in SUBSET Nat
        OBVIOUS
    <3> HIDE DEF bad
    <3>2. QED
        BY <2>1, <3>1, MinOfNaturals
  <2>3. PICK least \in bad : \A n \in bad : least <= n
      BY <2>2
  <2>4. CASE least = 0
    <3>1. Reach(0, [k \in 0..0 |-> trk])
        OBVIOUS
    <3>2. QED
        BY <2>3, <2>4, <3>1
  <2>5. CASE least # 0
    <3>1. least - 1 \in Nat /\ least - 1 \notin bad
      <4>1. least \in Nat
          OBVIOUS
      <4>2. least - 1 \in Nat /\ ~(least <= least - 1)
          BY <2>5, <4>1
      <4> HIDE DEF bad
      <4>3. QED
          BY <2>3, <4>2
    <3>2. PICK m : Reach(least - 1, m)
        BY <3>1
    <3> DEFINE h == [k \in 0..least |-> IF k = least THEN Track(m[least - 1], groups[least]) ELSE m[k]]
    <3>3. \A k \in 0..(least - 1) : m[k] = Next(k, m)
        BY <3>2
    <3>4. \A k \in 0..least : h[k] = Next(k, h)
      <4>1. ASSUME NEW k \in 0..least
            PROVE  h[k] = Next(k, h)
        <5>1. CASE k = 0
            BY <2>5, <3>1, <3>3, <5>1
        <5>2. CASE k = least
            BY <2>5, <3>1, <5>2
        <5>3. CASE k # 0 /\ k # least
            BY <3>1, <3>3, <5>3
        <5>4. QED
            BY <5>1, <5>2, <5>3
      <4>2. QED
          BY <4>1
    <3>5. h = [k \in 0..least |-> h[k]]
        OBVIOUS
    <3> HIDE DEF h, Next
    <3>6. Reach(least, h)
        BY <3>4, <3>5
    <3>7. QED
        BY <2>3, <3>6
  <2>6. QED
      BY <2>4, <2>5
<1>2. \E m : Reach(Len(groups), m)
    BY <1>1
<1>3. MemoriesOf(trk, groups) = CHOOSE m : Reach(Len(groups), m)
    BY DEF MemoriesOf
<1> HIDE DEF Reach
<1>4. Reach(Len(groups), MemoriesOf(trk, groups))
    BY <1>2, <1>3
<1> DEFINE memories == MemoriesOf(trk, groups)
<1>5. memories = [k \in 0..Len(groups) |-> Next(k, memories)]
    BY <1>4 DEF Reach
<1> HIDE DEF memories
<1>6. \A k \in 0..Len(groups) : memories[k] = Next(k, memories)
  <2> HIDE DEF Next
  <2>1. QED
      BY <1>5
<1>7. memories = [k \in 0..Len(groups) |-> memories[k]]
  <2> HIDE DEF Next
  <2>1. QED
      BY <1>5
<1>8. MemoryByMemory(memories, trk, groups)
    BY <1>6, <1>7 DEF MemoryByMemory
<1>9. QED
    BY <1>8 DEF memories

\* The operations that it issues, one record per group.
OpsOver(trk, groups) ==
    [n \in 1..Len(groups) |-> OpsFor(MemoriesOf(trk, groups)[n - 1], groups[n])]

\* A tracker that remembers a database, over groups whose operations are then
\* written to it one after the other: each of them finds what it was computed
\* for, and the tracker remembers what the database has become.
LEMMA TrackedAndWritten ==
    ASSUME NEW N \in Nat, NEW V, NEW d, Consistent(N, V, d),
           NEW trk, Remembers(trk, d), KnownTags(V, trk.latest),
           NEW groups, Len(groups) \in Nat,
           \A n \in 1..Len(groups) : IsGroup(N, V, groups[n]),
           NEW n \in 0..Len(groups)
    PROVE  LET memory == MemoriesOf(trk, groups)[n]
               stage == StagesOf(d, OpsOver(trk, groups))[n]
           IN  Consistent(N, V, stage) /\ Remembers(memory, stage) /\ KnownTags(V, memory.latest)
<1> DEFINE m == MemoriesOf(trk, groups)
           ops == OpsOver(trk, groups)
           f == StagesOf(d, ops)
           Good(k) == Consistent(N, V, f[k]) /\ Remembers(m[k], f[k]) /\ KnownTags(V, m[k].latest)
           bad == {k \in 0..Len(groups) : ~Good(k)}
<1>1. /\ m[0] = trk
      /\ \A k \in 1..Len(groups) : m[k] = Track(m[k - 1], groups[k])
    BY MemoriesExist DEF MemoryByMemory
<1>2. /\ Len(ops) = Len(groups)
      /\ \A k \in 1..Len(groups) : ops[k] = OpsFor(m[k - 1], groups[k])
    BY DEF OpsOver
<1>3. /\ f[0] = d
      /\ \A k \in 1..Len(groups) : f[k] = Write(f[k - 1], ops[k])
  <2>1. IsStages(f, d, ops)
      BY <1>2, StagesExist
  <2> HIDE DEF f, ops
  <2>2. StageByStage(f, d, ops)
      BY <1>2, <2>1, StagesStep
  <2>3. QED
      BY <1>2, <2>2 DEF StageByStage
<1> HIDE DEF m, ops, f
<1>4. Good(0)
    BY <1>1, <1>3
<1>5. ASSUME NEW k \in 1..Len(groups), Good(k - 1)
      PROVE  Good(k)
  <2>1. IsGroup(N, V, groups[k]) /\ ops[k] = OpsFor(m[k - 1], groups[k])
      BY <1>2
  <2>2. m[k] = After(m[k - 1], groups[k], ops[k])
      BY <1>1, <2>1 DEF Track
  <2>3. /\ ops[k] \in OperationsIn(N, V)
        /\ Issued(V, f[k - 1], ops[k])
        /\ KnownTags(V, m[k].latest)
        /\ Remembers(m[k], Write(f[k - 1], ops[k]))
      BY <1>5, <2>1, <2>2, TrackerIssues
  <2>4. Consistent(N, V, Write(f[k - 1], ops[k]))
      BY <1>5, <2>3, WriteKeepsConsistent
  <2>5. QED
      BY <1>3, <2>3, <2>4
<1> HIDE DEF Good
<1>6. bad = {}
  <2>1. SUFFICES ASSUME bad # {}
                 PROVE  FALSE
      OBVIOUS
  <2>2. Min(bad) \in bad /\ \A k \in bad : Min(bad) <= k
    <3>1. bad \in SUBSET Nat
        OBVIOUS
    <3> HIDE DEF bad
    <3>2. QED
        BY <2>1, <3>1, MinOfNaturals
  <2>3. PICK least \in bad : \A k \in bad : least <= k
      BY <2>2
  <2>4. least # 0 /\ least \in 1..Len(groups)
      BY <1>4, <2>3
  <2>5. least - 1 \in 0..Len(groups) /\ ~(least <= least - 1)
      BY <2>4
  <2>6. Good(least - 1)
      BY <2>3, <2>5
  <2>7. QED
      BY <1>5, <2>3, <2>4, <2>6
<1>7. QED
    BY <1>6 DEF Good, m, ops, f

-----------------------------------------------------------------------------

\* tracker.apply over groups issues one record of operations for each, at its
\* instant.
LEMMA OpsOfGroups ==
    ASSUME NEW N \in Nat, NEW V, NEW trk, NEW groups, Len(groups) \in Nat,
           \A i \in 1..Len(groups) : IsGroup(N, V, groups[i])
    PROVE  /\ TrackAll(trk, groups).ops = OpsOver(trk, groups)
           /\ TrackAll(trk, groups).trk = MemoriesOf(trk, groups)[Len(groups)]
           /\ Len(OpsOver(trk, groups)) = Len(groups)
           /\ \A i \in 1..Len(groups) : OpsOver(trk, groups)[i].ts \in 1..N
<1> DEFINE n == Len(groups)
           memories == MemoriesOf(trk, groups)
           ops(i) == OpsFor(memories[i - 1], groups[i])
<1>1. n \in Nat
    OBVIOUS
<1>2. OpsOver(trk, groups) = [i \in 1..n |-> ops(i)]
    BY DEF OpsOver
<1>3. TrackAll(trk, groups).ops = OpsOver(trk, groups) /\ TrackAll(trk, groups).trk = memories[n]
    BY DEF TrackAll, OpsOver
<1>4. Len(OpsOver(trk, groups)) = n
  <2> HIDE DEF ops, n
  <2>1. QED
      BY <1>1, <1>2
<1>5. ASSUME NEW i \in 1..n
      PROVE  OpsOver(trk, groups)[i].ts \in 1..N
  <2>1. ops(i).ts = groups[i].ts
      BY DEF OpsFor
  <2>2. groups[i].ts \in 1..N
      BY DEF IsGroup
  <2> HIDE DEF ops, n
  <2>3. QED
      BY <1>2, <2>1, <2>2
<1>6. QED
    BY <1>3, <1>4, <1>5

-----------------------------------------------------------------------------

(* Transactions.                                                           *)

\* What every database is, whatever was written to it.
Shaped(N, d) ==
    /\ DOMAIN d = DOMAIN EmptyDb
    /\ DOMAIN d.events = Scope
    /\ \A s \in Scope : DOMAIN d.events[s] \subseteq 1..N
    /\ DOMAIN d.stops \subseteq 1..N
    /\ d.lastSeen \in Nat

\* Whatever is written, at instants of the model, the database keeps its shape
\* and loses no event.
LEMMA WriteShaped ==
    ASSUME NEW N \in Nat, NEW d, Shaped(N, d), NEW ops, ops.ts \in 1..N
    PROVE  /\ Shaped(N, Write(d, ops))
           /\ Write(d, ops).lastSeen = d.lastSeen /\ Write(d, ops).gaps = d.gaps
           /\ DOMAIN d.events["CELL"] \subseteq DOMAIN Write(d, ops).events["CELL"]
           /\ "CELL" \in DOMAIN ops.events => ops.ts \in DOMAIN Write(d, ops).events["CELL"]
<1> DEFINE closed == CloseInterval(d.stops, ops.closes, ops.ts)
           events == [s \in Scope |-> IF s \in DOMAIN ops.events
                                     THEN Insert(d.events[s], ops.ts, ops.events[s])
                                     ELSE d.events[s]]
           e == Write(d, ops)
<1>1. /\ DOMAIN e = DOMAIN d
      /\ e.events = events
      /\ e.stops = IF ops.opens THEN Insert(closed, ops.ts, Never) ELSE closed
      /\ e.lastSeen = d.lastSeen /\ e.gaps = d.gaps
    BY DEF Write, Shaped, EmptyDb
<1>2. \A s \in Scope : DOMAIN events[s] = IF s \in DOMAIN ops.events
                                          THEN DOMAIN d.events[s] \cup {ops.ts} ELSE DOMAIN d.events[s]
    BY DEF Insert
<1>3. DOMAIN e.stops = IF ops.opens THEN DOMAIN d.stops \cup {ops.ts} ELSE DOMAIN d.stops
    BY <1>1 DEF Insert, CloseInterval
<1>4. DOMAIN events = Scope
    OBVIOUS
<1> HIDE DEF e, events, closed
<1>5. Shaped(N, e)
    BY <1>1, <1>2, <1>3, <1>4 DEF Shaped
<1>6. "CELL" \in Scope
    BY TrackerAssumption
<1>7. QED
    BY <1>1, <1>2, <1>5, <1>6 DEF e

\* The same of one transaction after another.
LEMMA StagesShaped ==
    ASSUME NEW N \in Nat, NEW d, Shaped(N, d), NEW ops, Len(ops) \in Nat,
           \A i \in 1..Len(ops) : ops[i].ts \in 1..N,
           NEW n \in 0..Len(ops)
    PROVE  LET e == StagesOf(d, ops)[n]
           IN  /\ Shaped(N, e) /\ e.lastSeen = d.lastSeen /\ e.gaps = d.gaps
               /\ DOMAIN d.events["CELL"] \subseteq DOMAIN e.events["CELL"]
               /\ n > 0 /\ "CELL" \in DOMAIN ops[1].events => ops[1].ts \in DOMAIN e.events["CELL"]
<1> DEFINE f == StagesOf(d, ops)
           Good(k) ==
               /\ Shaped(N, f[k]) /\ f[k].lastSeen = d.lastSeen /\ f[k].gaps = d.gaps
               /\ DOMAIN d.events["CELL"] \subseteq DOMAIN f[k].events["CELL"]
               /\ k > 0 /\ "CELL" \in DOMAIN ops[1].events => ops[1].ts \in DOMAIN f[k].events["CELL"]
           bad == {k \in 0..Len(ops) : ~Good(k)}
<1>1. f[0] = d /\ \A k \in 1..Len(ops) : f[k] = Write(f[k - 1], ops[k])
  <2>1. IsStages(f, d, ops)
      BY StagesExist
  <2> HIDE DEF f
  <2>2. StageByStage(f, d, ops)
      BY <2>1, StagesStep
  <2>3. QED
      BY <2>2 DEF StageByStage
<1> HIDE DEF f
<1>2. Good(0)
    BY <1>1
<1>3. ASSUME NEW k \in 1..Len(ops), Good(k - 1)
      PROVE  Good(k)
  <2> DEFINE before == f[k - 1]
  <2>1. /\ Shaped(N, before) /\ before.lastSeen = d.lastSeen /\ before.gaps = d.gaps
        /\ DOMAIN d.events["CELL"] \subseteq DOMAIN before.events["CELL"]
        /\ k - 1 > 0 /\ "CELL" \in DOMAIN ops[1].events => ops[1].ts \in DOMAIN before.events["CELL"]
      BY <1>3
  <2>2. ops[k].ts \in 1..N /\ f[k] = Write(before, ops[k])
      BY <1>1
  <2> HIDE DEF before
  <2>3. /\ Shaped(N, f[k]) /\ f[k].lastSeen = before.lastSeen /\ f[k].gaps = before.gaps
        /\ DOMAIN before.events["CELL"] \subseteq DOMAIN f[k].events["CELL"]
        /\ "CELL" \in DOMAIN ops[k].events => ops[k].ts \in DOMAIN f[k].events["CELL"]
      BY <2>1, <2>2, WriteShaped
  <2>4. k - 1 > 0 \/ k = 1
      OBVIOUS
  <2>5. QED
      BY <2>1, <2>3, <2>4
<1> HIDE DEF Good
<1>4. bad = {}
  <2>1. SUFFICES ASSUME bad # {}
                 PROVE  FALSE
      OBVIOUS
  <2>2. Min(bad) \in bad /\ \A k \in bad : Min(bad) <= k
    <3>1. bad \in SUBSET Nat
        OBVIOUS
    <3> HIDE DEF bad
    <3>2. QED
        BY <2>1, <3>1, MinOfNaturals
  <2>3. PICK least \in bad : \A k \in bad : least <= k
      BY <2>2
  <2>4. least # 0 /\ least \in 1..Len(ops)
      BY <1>2, <2>3
  <2>5. least - 1 \in 0..Len(ops) /\ ~(least <= least - 1)
      BY <2>4
  <2>6. Good(least - 1)
      BY <2>3, <2>5
  <2>7. QED
      BY <1>3, <2>3, <2>4, <2>6
<1>5. QED
    BY <1>4 DEF Good, f

\* What a transaction leaves.
Committed(N, t, d, ops, gapOps, seen) ==
    LET e == StagesOf(d, ops)[Len(ops)]
    IN  /\ Shaped(N, t)
        /\ t = [e EXCEPT !.gaps = t.gaps, !.lastSeen = t.lastSeen]
        /\ t.gaps = WriteGaps(d.gaps, gapOps)
        /\ t.lastSeen = Seen(d.lastSeen, seen)
        /\ t.stops = e.stops /\ t.events = e.events
        /\ DOMAIN d.events["CELL"] \subseteq DOMAIN t.events["CELL"]
        /\ Len(ops) > 0 /\ "CELL" \in DOMAIN ops[1].events => DOMAIN t.events["CELL"] # {}

\* ... and a transaction of any operations leaves that.
LEMMA TransactionShaped ==
    ASSUME NEW N \in Nat, NEW d, Shaped(N, d), NEW ops, Len(ops) \in Nat,
           \A i \in 1..Len(ops) : ops[i].ts \in 1..N,
           NEW gapOps, NEW seen \in Nat
    PROVE  Committed(N, Transaction(d, ops, gapOps, seen), d, ops, gapOps, seen)
<1> DEFINE e == StagesOf(d, ops)[Len(ops)]
           t == Transaction(d, ops, gapOps, seen)
           gaps == WriteGaps(d.gaps, gapOps)
           lastSeen == Seen(d.lastSeen, seen)
<1>1. /\ Shaped(N, e)
      /\ DOMAIN d.events["CELL"] \subseteq DOMAIN e.events["CELL"]
      /\ Len(ops) > 0 /\ "CELL" \in DOMAIN ops[1].events => DOMAIN e.events["CELL"] # {}
  <2>1. Len(ops) \in 0..Len(ops)
      OBVIOUS
  <2>2. QED
      BY <2>1, StagesShaped
<1>2. lastSeen \in Nat
    BY DEF Seen, Shaped
<1>3. t = [e EXCEPT !.gaps = gaps, !.lastSeen = lastSeen]
    BY DEF Transaction
<1> HIDE DEF e, t, gaps, lastSeen
<1>4. /\ DOMAIN t = DOMAIN e /\ t.gaps = gaps /\ t.lastSeen = lastSeen
      /\ t.events = e.events /\ t.stops = e.stops
    BY <1>1, <1>3 DEF Shaped, EmptyDb
<1>5. Shaped(N, t)
    BY <1>1, <1>2, <1>4 DEF Shaped
<1>6. QED
    BY <1>1, <1>3, <1>4, <1>5 DEF e, t, gaps, lastSeen, Committed

\* No operation of the watchdog, no change of the gaps.
LEMMA NoGapWritten ==
    ASSUME NEW gaps
    PROVE  WriteGaps(gaps, <<>>) = gaps
<1> DEFINE IsAfter(f) == f = [n \in 0..Len(<<>>) |-> IF n = 0 THEN gaps ELSE WriteGap(f[n - 1], <<>>[n])]
           after == CHOOSE f : IsAfter(f)
           g == [n \in 0..Len(<<>>) |-> gaps]
<1>1. Len(<<>>) = 0 /\ 0 \in 0..Len(<<>>) /\ \A n \in 0..Len(<<>>) : n = 0
    OBVIOUS
<1>2. IsAfter(g)
    BY <1>1
<1> HIDE DEF g
<1>3. IsAfter(after)
  <2> HIDE DEF IsAfter
  <2>1. QED
      BY <1>2
<1>4. WriteGaps(gaps, <<>>) = after[Len(<<>>)]
    BY DEF WriteGaps
<1> HIDE DEF after
<1>5. after[0] = gaps
    BY <1>1, <1>3
<1>6. QED
    BY <1>1, <1>4, <1>5

\* The operations of a tracker that remembers the database, committed with any
\* operations on the gaps: the tracker remembers what the database has become.
LEMMA TransactionTracked ==
    ASSUME NEW N \in Nat, NEW V, NEW d, Shaped(N, d), Consistent(N, V, d),
           NEW trk, Remembers(trk, d), KnownTags(V, trk.latest),
           NEW groups, Len(groups) \in Nat,
           \A i \in 1..Len(groups) : IsGroup(N, V, groups[i]),
           NEW gapOps, NEW seen \in Nat
    PROVE  LET tracked == TrackAll(trk, groups)
               t == Transaction(d, tracked.ops, gapOps, seen)
           IN  /\ Consistent(N, V, t) /\ Remembers(tracked.trk, t)
               /\ KnownTags(V, tracked.trk.latest)
<1> DEFINE tracked == TrackAll(trk, groups)
           ops == OpsOver(trk, groups)
           e == StagesOf(d, ops)[Len(groups)]
           t == Transaction(d, ops, gapOps, seen)
<1>1. /\ tracked.ops = ops /\ tracked.trk = MemoriesOf(trk, groups)[Len(groups)]
      /\ Len(ops) = Len(groups)
      /\ \A i \in 1..Len(groups) : ops[i].ts \in 1..N
  <2> HIDE DEF tracked, ops
  <2>1. \A i \in 1..Len(groups) : IsGroup(N, V, groups[i])
      OBVIOUS
  <2>2. /\ TrackAll(trk, groups).ops = OpsOver(trk, groups)
        /\ TrackAll(trk, groups).trk = MemoriesOf(trk, groups)[Len(groups)]
        /\ Len(OpsOver(trk, groups)) = Len(groups)
        /\ \A i \in 1..Len(groups) : OpsOver(trk, groups)[i].ts \in 1..N
      BY <2>1, OpsOfGroups
  <2>3. QED
      BY <2>2 DEF tracked, ops
<1>2. Len(groups) \in 0..Len(groups)
    OBVIOUS
<1> HIDE DEF tracked
<1>3. Consistent(N, V, e) /\ Remembers(tracked.trk, e) /\ KnownTags(V, tracked.trk.latest)
    BY <1>1, <1>2, TrackedAndWritten
<1>4. t = [e EXCEPT !.gaps = t.gaps, !.lastSeen = t.lastSeen]
  <2> HIDE DEF ops
  <2>1. Len(ops) \in Nat /\ \A i \in 1..Len(ops) : ops[i].ts \in 1..N
      BY <1>1
  <2>2. Committed(N, t, d, ops, gapOps, seen)
      BY <2>1, TransactionShaped
  <2>3. QED
      BY <1>1, <2>2 DEF Committed
<1> HIDE DEF t, e, ops
<1>5. /\ DOMAIN t = DOMAIN e /\ t = [field \in DOMAIN t |-> t[field]]
      /\ t.events = e.events /\ t.samples = e.samples /\ t.stops = e.stops
  <2>1. DOMAIN e = DOMAIN EmptyDb
      BY <1>3 DEF Consistent
  <2>2. DOMAIN t = DOMAIN e /\ t = [field \in DOMAIN t |-> t[field]]
      BY <1>4
  <2>3. t.events = e.events /\ t.samples = e.samples /\ t.stops = e.stops
      BY <1>4, <2>1 DEF EmptyDb
  <2>4. QED
      BY <2>2, <2>3
<1>6. Consistent(N, V, t)
    BY <1>3, <1>5 DEF Consistent
<1>7. Remembers(tracked.trk, t)
    BY <1>3, <1>5 DEF Remembers
<1>8. QED
    BY <1>1, <1>3, <1>6, <1>7 DEF t, tracked, ops

\* Groups from which nothing follows: the tracker still remembers the database.
LEMMA NothingTracked ==
    ASSUME NEW N \in Nat, NEW V, NEW d, Consistent(N, V, d),
           NEW trk, Remembers(trk, d), KnownTags(V, trk.latest),
           NEW groups, Len(groups) \in Nat,
           \A i \in 1..Len(groups) : IsGroup(N, V, groups[i]),
           \A i \in 1..Len(groups) : ~HasOps(TrackAll(trk, groups).ops[i])
    PROVE  Remembers(TrackAll(trk, groups).trk, d)
<1> DEFINE m == MemoriesOf(trk, groups)
           Holds(n) == Remembers(m[n], d) /\ KnownTags(V, m[n].latest)
           bad == {n \in 0..Len(groups) : ~Holds(n)}
<1>1. MemoryByMemory(m, trk, groups)
    BY MemoriesExist
<1>ops. TrackAll(trk, groups).ops = OpsOver(trk, groups) /\ TrackAll(trk, groups).trk = m[Len(groups)]
  <2> HIDE DEF m, Holds, bad
  <2>1. \A i \in 1..Len(groups) : IsGroup(N, V, groups[i])
      OBVIOUS
  <2>2. /\ TrackAll(trk, groups).ops = OpsOver(trk, groups)
        /\ TrackAll(trk, groups).trk = MemoriesOf(trk, groups)[Len(groups)]
        /\ Len(OpsOver(trk, groups)) = Len(groups)
        /\ \A i \in 1..Len(groups) : OpsOver(trk, groups)[i].ts \in 1..N
      BY <2>1, OpsOfGroups
  <2>3. QED
      BY <2>2 DEF m
<1>2. ASSUME NEW n \in 1..Len(groups), Holds(n - 1)
      PROVE  Holds(n)
  <2> DEFINE t == m[n - 1]
             g == groups[n]
             ops == OpsFor(t, g)
  <2>1. IsGroup(N, V, g) /\ Remembers(t, d) /\ KnownTags(V, t.latest)
      BY <1>2
  <2>2. ~HasOps(ops)
    <3>1. TrackAll(trk, groups).ops[n] = ops
        BY <1>ops DEF OpsOver
    <3>2. QED
        BY <3>1
  <2>3. m[n] = After(t, g, ops)
      BY <1>1 DEF MemoryByMemory, Track
  <2> HIDE DEF t, g, ops, m
  <2>4. LET o == OpsFor(t, g)
            after == After(t, g, o)
        IN  /\ KnownTags(V, after.latest)
            /\ ~HasOps(o) => Remembers(after, d)
      BY <2>1, TrackerIssues
  <2>5. QED
      BY <2>2, <2>3, <2>4 DEF ops
<1>3. m[0] = trk
    BY <1>1 DEF MemoryByMemory
<1> HIDE DEF m
<1>4. Holds(0)
    BY <1>3
<1>5. bad = {}
  <2>1. SUFFICES ASSUME bad # {}
                 PROVE  FALSE
      OBVIOUS
  <2>2. PICK n \in bad : \A k \in bad : n <= k
    <3>1. bad \in SUBSET Nat
        OBVIOUS
    <3> HIDE DEF bad
    <3>2. QED
        BY <2>1, <3>1, MinOfNaturals
  <2> HIDE DEF Holds
  <2>3. n # 0 /\ n \in 1..Len(groups) /\ n - 1 \in 0..Len(groups)
      BY <1>4
  <2>4. n - 1 \notin bad
    <3>1. ~(n <= n - 1)
        BY <2>3
    <3> HIDE DEF bad
    <3>2. QED
        BY <2>2, <3>1
  <2>5. Holds(n - 1)
      BY <2>3, <2>4
  <2>6. QED
      BY <1>2, <2>3, <2>5
<1>6. Len(groups) \in 0..Len(groups)
    OBVIOUS
<1>7. Holds(Len(groups))
  <2> HIDE DEF Holds
  <2>1. QED
      BY <1>5, <1>6
<1>8. QED
    BY <1>7, <1>ops

-----------------------------------------------------------------------------

(* Starting again.                                                         *)

\* The tracker that resumes from a database remembers what it says.
LEMMA ResumeRemembers ==
    ASSUME NEW d
    PROVE  Remembers(Resume(d), d) /\ Resume(d).latest = <<>>
<1> DEFINE t == Resume(d)
<1>1. /\ t.latest = <<>>
      /\ t.last = [s \in Scope |-> LastEvent(d.events[s])]
      /\ t.openStop = OpenIn(d.stops)
    BY DEF Resume, EmptyTracker
<1>2. t.lastSample = [s \in Series |-> LastSample(d.samples[s])]
    BY DEF Resume, EmptyTracker, LastSample
<1>3. t = [latest |-> t.latest, last |-> t.last, openStop |-> t.openStop,
           lastSample |-> t.lastSample]
  <2>1. /\ DOMAIN t = {"latest", "last", "openStop", "lastSample"}
        /\ t = [field \in DOMAIN t |-> t[field]]
      BY DEF Resume, EmptyTracker
  <2> HIDE DEF t
  <2>2. QED
      BY <2>1
<1> HIDE DEF t
<1>4. Remembers(t, d)
    BY <1>1, <1>2, <1>3 DEF Remembers
<1>5. QED
    BY <1>1, <1>4 DEF t

\* The repair at start finds nothing to do.
LEMMA RepairChangesNothing ==
    ASSUME NEW N \in Nat, NEW V, NEW d, Consistent(N, V, d)
    PROVE  Repair(d) = d
<1> DEFINE events == d.events["CELL"]
           event == LastEvent(events)
           open == OpenIn(d.stops)
<1>1. /\ events \in Tables(N, Images(V, "CELL"))
      /\ StopsFollow(events, d.stops)
    BY TrackerAssumption DEF Consistent
<1>2. d = [d EXCEPT !.stops = d.stops]
    BY DEF Consistent, EmptyDb
<1>3. CASE DOMAIN events = {}
  <2>1. event = NoEvent
      BY <1>1, <1>3, LastEventOf
  <2>2. QED
      BY <2>1 DEF Repair
<1>4. CASE DOMAIN events # {}
  <2>1. event.ts \in (1..N) /\ event # NoEvent
      BY <1>1, <1>4, LastEventOf
  <2>2. open = IF Stopped(event.values) THEN event.ts ELSE Never
      BY <1>1, <1>4, OpenStop
  <2> HIDE DEF event, open
  <2>3. event.ts # Never
      BY <2>1
  <2>4. Repair(d) = [d EXCEPT !.stops = d.stops]
      BY <2>1, <2>2, <2>3 DEF Repair, event, open, events
  <2>5. QED
      BY <1>2, <2>4
<1>5. QED
    BY <1>3, <1>4

\* An empty database is consistent.
LEMMA EmptyDbConsistent ==
    ASSUME NEW N \in Nat, NEW V
    PROVE  Consistent(N, V, EmptyDb)
<1>1. \A Rows : <<>> \in Tables(N, Rows)
    BY SMTT(20) DEF Tables
<1>2. StopsFollow(<<>>, <<>>)
    BY DEF StopsFollow
<1>3. QED
    BY <1>1, <1>2, TrackerAssumption DEF Consistent, EmptyDb

\* The tracker of an empty database.
LEMMA EmptyRemembers ==
    ASSUME NEW V
    PROVE  Remembers(EmptyTracker, EmptyDb) /\ KnownTags(V, EmptyTracker.latest)
<1>1. DOMAIN <<>> = {}
    OBVIOUS
<1>2. OpenIn(EmptyDb.stops) = Never
    BY <1>1 DEF OpenIn, EmptyDb
<1>3. \A s \in Scope : LastEvent(EmptyDb.events[s]) = NoEvent
    BY <1>1 DEF LastEvent, EmptyDb
<1>4. \A s \in Series : LastSample(EmptyDb.samples[s]) = Never
    BY <1>1 DEF LastSample, EmptyDb
<1>5. QED
    BY <1>1, <1>2, <1>3, <1>4 DEF Remembers, KnownTags, EmptyTracker

\* The repair keeps the database admissible, and touches nothing but the stops.
LEMMA RepairFits ==
    ASSUME NEW N \in Nat, NEW d, Shaped(N, d), Accepted(d)
    PROVE  LET r == Repair(d)
           IN  /\ Shaped(N, r) /\ Accepted(r)
               /\ r.events = d.events /\ r.gaps = d.gaps /\ r.lastSeen = d.lastSeen
<1> DEFINE r == Repair(d)
           events == d.events["CELL"]
           event == LastEvent(events)
           open == OpenIn(d.stops)
           wrong == open # Never /\ (~Stopped(event.values) \/ open # event.ts)
           end == Max({event.ts, open})
           closed == IF wrong THEN CloseInterval(d.stops, open, end) ELSE d.stops
           stillOpen == open # Never /\ ~(wrong /\ event.ts > open)
           opens == Stopped(event.values) /\ ~stillOpen
           stops == IF opens THEN Insert(closed, event.ts, Never) ELSE closed
<1>1. N \in Nat /\ "CELL" \in Scope
    BY TrackerAssumption
<1>2. /\ DOMAIN events \in SUBSET (1..N) /\ DOMAIN d.stops \in SUBSET (1..N)
      /\ DOMAIN d = DOMAIN EmptyDb
    BY <1>1 DEF Shaped
<1>3. CASE event = NoEvent
    BY <1>3 DEF Repair
<1>4. CASE event # NoEvent
  <2>1. event.ts \in 1..N
    <3>1. DOMAIN events # {} /\ event.ts = Max(DOMAIN events)
        BY <1>4 DEF LastEvent
    <3> HIDE DEF events, event
    <3>2. QED
        BY <1>1, <1>2, <3>1, MaxOfBounded
  <2>2. /\ open # Never => open \in DOMAIN d.stops /\ d.stops[open] = Never
        /\ open = Never => \A k \in DOMAIN d.stops : d.stops[k] # Never
    <3> DEFINE all == {k \in DOMAIN d.stops : d.stops[k] = Never}
    <3>1. open = IF all = {} THEN Never ELSE Max(all)
        BY DEF OpenIn
    <3>2. all \in SUBSET (1..N)
        BY <1>2
    <3>3. all # {} => Max(all) \in all /\ Max(all) # Never
      <4> HIDE DEF all
      <4>1. all # {} => Max(all) \in all
          BY <3>2, MaxOfBounded
      <4>2. QED
          BY <3>2, <4>1
    <3> HIDE DEF open
    <3>4. QED
        BY <3>1, <3>3
  <2>3. \A k, l \in DOMAIN d.stops : d.stops[k] = Never /\ d.stops[l] = Never => k = l
    <3>1. SingleOpen(d.stops)
        BY DEF Accepted
    <3>2. QED
        BY <1>1, <1>2, <3>1, OneOpen
  <2>4. r = [d EXCEPT !.stops = stops]
      BY <1>4 DEF Repair
  <2>5. /\ DOMAIN closed = DOMAIN d.stops
        /\ \A k \in DOMAIN closed : closed[k] = Never => d.stops[k] = Never
        /\ ~stillOpen => \A k \in DOMAIN closed : closed[k] # Never
    <3>1. CASE wrong
      <4>1. open \in 1..N
          BY <1>2, <2>2, <3>1
      <4>2. end \in {event.ts, open} /\ event.ts <= end
        <5>1. {event.ts, open} \in SUBSET (1..N) /\ {event.ts, open} # {}
            BY <2>1, <4>1
        <5> DEFINE both == {event.ts, open}
        <5> HIDE DEF both, event, open
        <5>2. both \in SUBSET (1..N) /\ both # {} /\ event.ts \in both
            BY <5>1 DEF both
        <5>3. Max(both) \in both /\ event.ts <= Max(both)
            BY <1>1, <5>2, MaxOfBounded
        <5>4. QED
            BY <5>3 DEF both
      <4>3. closed = [k \in DOMAIN d.stops |->
                         IF k = open /\ d.stops[k] = Never /\ open < end THEN end ELSE d.stops[k]]
          BY <3>1 DEF CloseInterval
      <4>4. end # Never
          BY <2>1, <4>1, <4>2
      <4>5. ~stillOpen => event.ts > open
          BY <3>1
      <4>6. event.ts > open => open < end
          BY <2>1, <4>1, <4>2
      <4> HIDE DEF closed, end, open, event, stillOpen
      <4>7. \A k \in DOMAIN d.stops : d.stops[k] = Never => k = open
          BY <2>2, <2>3, <4>1
      <4>8. QED
          BY <4>3, <4>4, <4>5, <4>6, <4>7
    <3>2. CASE ~wrong
      <4>1. closed = d.stops
          BY <3>2
      <4>2. ~stillOpen => open = Never
          BY <3>2
      <4> HIDE DEF closed, open, stillOpen, wrong
      <4>3. QED
          BY <2>2, <4>1, <4>2
    <3>3. QED
        BY <3>1, <3>2
  <2> HIDE DEF closed, stillOpen, event, open, events, wrong, end
  <2>6. /\ DOMAIN stops \in SUBSET (1..N)
        /\ \A k, l \in DOMAIN stops : stops[k] = Never /\ stops[l] = Never => k = l
    <3>1. CASE opens
      <4>1. stops = [k \in DOMAIN closed \cup {event.ts} |->
                        IF k \in DOMAIN closed THEN closed[k] ELSE Never]
          BY <3>1 DEF Insert
      <4>2. \A k \in DOMAIN closed : closed[k] # Never
          BY <2>5, <3>1
      <4> HIDE DEF stops
      <4>3. DOMAIN stops = DOMAIN d.stops \cup {event.ts}
          BY <2>5, <4>1
      <4>4. \A k \in DOMAIN stops : stops[k] = Never => k = event.ts
          BY <4>1, <4>2
      <4>5. QED
          BY <1>2, <2>1, <4>3, <4>4
    <3>2. CASE ~opens
      <4>1. stops = closed
          BY <3>2
      <4> HIDE DEF stops
      <4>2. QED
          BY <1>2, <2>3, <2>5, <4>1
    <3>3. QED
        BY <3>1, <3>2
  <2> HIDE DEF stops, r
  <2>7. /\ DOMAIN r = DOMAIN d /\ r.stops = stops
        /\ r.events = d.events /\ r.gaps = d.gaps /\ r.lastSeen = d.lastSeen
      BY <1>2, <2>4 DEF EmptyDb
  <2>8. SingleOpen(r.stops)
      BY <1>1, <2>6, <2>7, OneOpen
  <2>9. Shaped(N, r) /\ Accepted(r)
      BY <2>6, <2>7, <2>8 DEF Shaped, Accepted
  <2>10. QED
      BY <2>7, <2>9 DEF r
<1>5. QED
    BY <1>3, <1>4
=============================================================================
