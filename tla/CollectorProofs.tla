-------------------------- MODULE CollectorProofs --------------------------
(***************************************************************************)
(* The collector, for any length of the simulated time, any tags and       *)
(* images, any settle time, timeout and jump, whatever crashes, stops and  *)
(* lost sessions: what it keeps has its types, the stops follow the        *)
(* events, the watchdog knows the gap that is open, and the schema refuses *)
(* no transaction, each as far as nothing excuses it.                      *)
(***************************************************************************)
EXTENDS Collector, StoreProofs

USE DEF Never, Asm!Never, Wd!Never

(* The types of what the tasks share.                                      *)

\* The values of a group.
Held == UNION {[S -> Readings] : S \in SUBSET TagsOf["CELL"]}

CellNotices == [tag : TagsOf["CELL"], value : Readings, ts : Instant]
Notices == [tag : {Heartbeat}, value : {0}, ts : Instant] \cup CellNotices

Watchdogs ==
    [lastHb : 0..MaxTs, silence : 0..(Timeout + 1), gapStart : 0..MaxTs, checkJump : BOOLEAN]

\* The watchdog's operations of one transaction: it never issues two.
GapOps ==
    {<<>>} \cup {<<[op |-> "open", start |-> t, end |-> Never]>> : t \in Instant}
        \cup {<<[op |-> o, start |-> t, end |-> u]>> :
                 o \in {"close", "closed"}, t \in Instant, u \in Instant}

\* What a transaction carries.
Carries(w) ==
    /\ w.gaps \in GapOps
    /\ Len(w.groups) \in Nat
    /\ \A i \in 1..Len(w.groups) : w.groups[i].ts \in Instant
    /\ w.seen \in 0..MaxTs

\* A transaction that waits.
IsWrite(w) == w.by \in {"consumer", "ticker"} /\ Carries(w)

\* Each task waits for one at most.
AtMostTwo ==
    \/ writes = <<>>
    \/ \E w : IsWrite(w) /\ writes = <<w>>
    \/ \E w, x : IsWrite(w) /\ IsWrite(x) /\ w.by # x.by /\ writes = <<w, x>>

\* The tracker's memory, whatever it agrees with.
MemoryShaped(t) ==
    /\ t.openStop \in 0..MaxTs
    /\ \A s \in Scope : t.last[s].ts \in 0..MaxTs
    /\ KnownTags(Readings, t.latest)

\* The tables: the schema has admitted them.
Stored(d) ==
    /\ Shaped(MaxTs, d) /\ d.lastSeen <= MaxTs
    /\ DOMAIN d.gaps \subseteq Instant
    /\ Accepted(d)

(* The inductive invariant.                                                *)

TypeInv ==
    /\ plc \in Seq(CellImage) /\ plc # <<>> /\ Clock <= MaxTs
    /\ link \in Links /\ up \in BOOLEAN
    /\ wire \in Seq(Notices)
    /\ Asm!AssemblerTypeOK(Held)
    /\ MemoryShaped(trk)
    /\ wd \in Watchdogs
    /\ maxTs \in 0..MaxTs /\ writtenTs \in 0..MaxTs /\ watchedFrom \in 0..MaxTs
    /\ AtMostTwo
    /\ Stored(db)
    /\ excused \subseteq Excuses
    /\ ~up => link = "down" /\ writes = <<>>

\* A database once the first n of some waiting transactions have committed.
Ahead(d, waiting, n) ==
    IF n = 0 THEN d
    ELSE IF n = 1 THEN Applied(d, waiting[1])
    ELSE Applied(Applied(d, waiting[1]), waiting[2])

\* Each of them will be consistent, and the tracker remembers the last.
Agree(d, waiting, t, running) ==
    /\ \A n \in 0..Len(waiting) : Consistent(MaxTs, Readings, Ahead(d, waiting, n))
    /\ running => Remembers(t, Ahead(d, waiting, Len(waiting)))

StoreInv == "write cancelled" \notin excused => Agree(db, writes, trk, up)

\* The start of the open gap, or Never, after operations on gaps ...
Moved(open, ops) ==
    IF ops = <<>> THEN open
    ELSE CASE ops[1].op = "open"   -> ops[1].start
           [] ops[1].op = "close"  -> Never
           [] ops[1].op = "closed" -> open

\* ... that the watchdog issues when it knows that one.
Legal(open, ops) ==
    ops # <<>> => open = IF ops[1].op = "close" THEN ops[1].start ELSE Never

\* The open gap once the first n of some waiting transactions have committed.
OpenGap(open, waiting, n) ==
    IF n = 0 THEN open
    ELSE IF n = 1 THEN Moved(open, waiting[1].gaps)
    ELSE Moved(Moved(open, waiting[1].gaps), waiting[2].gaps)

\* Each transaction finds the gap that the watchdog knew when it queued it.
KnowsGap(open, waiting, gapStart) ==
    /\ \A n \in 1..Len(waiting) : Legal(OpenGap(open, waiting, n - 1), waiting[n].gaps)
    /\ OpenGap(open, waiting, Len(waiting)) = gapStart

GapInv == up /\ excused = {} => KnowsGap(OpenIn(db.gaps), writes, wd.gapStart)

CollectorInv == TypeInv /\ StoreInv /\ GapInv

-----------------------------------------------------------------------------

(* The constants.                                                          *)

\* The bounds are numbers, and there is an instant.
LEMMA Bounds ==
    /\ MaxTs \in Nat /\ SettleTime \in Nat /\ Timeout \in Nat /\ Jump \in Nat
    /\ 1 \in Instant
BY CollectorAssumption DEF Instant

-----------------------------------------------------------------------------

(* The assembler.                                                          *)

\* Its max() is the same.
LEMMA SameMax ==
    ASSUME NEW S
    PROVE  Asm!Max(S) = Max(S)
BY DEF Max, Asm!Max

\* The places of a batch that are read hold what the batch held.
LEMMA AtFits ==
    ASSUME NEW n \in Nat, NEW places \in SUBSET (1..n), NEW batch, NEW T,
           \A i \in places : batch[i] \in T
    PROVE  /\ Cardinality(places) \in Nat
           /\ DOMAIN At(batch, places) = 1..Cardinality(places)
           /\ \A i \in 1..Cardinality(places) : At(batch, places)[i] \in T
<1>1. Cardinality(places) \in Nat
    BY FiniteInstants
<1>2. ASSUME NEW i \in 1..Cardinality(places)
      PROVE  Nth(places, i) \in places
    BY NthExists
<1>3. QED
    BY <1>1, <1>2 DEF At

\* The values of a batch for one instant are values of its tags.
LEMMA ValuesFit ==
    ASSUME NEW n \in Nat, NEW batch, DOMAIN batch = 1..n,
           \A i \in 1..n : batch[i] \in CellNotices,
           NEW t
    PROVE  Asm!ValuesAt(batch, t) \in Held
<1> DEFINE at(tag) == {i \in 1..n : batch[i].ts = t /\ batch[i].tag = tag}
           tags == {batch[i].tag : i \in {j \in 1..n : batch[j].ts = t}}
<1>1. tags \in SUBSET TagsOf["CELL"]
    BY DEF CellNotices
<1>2. ASSUME NEW tag \in tags
      PROVE  batch[Max(at(tag))].value \in Readings
  <2>1. at(tag) \in SUBSET (1..n) /\ at(tag) # {}
      OBVIOUS
  <2> HIDE DEF at
  <2>2. Max(at(tag)) \in at(tag)
      BY <2>1, MaxOfBounded
  <2>3. Max(at(tag)) \in 1..n
      BY <2>1, <2>2
  <2>4. QED
      BY <2>3 DEF CellNotices
<1>3. Asm!ValuesAt(batch, t) = [tag \in tags |-> batch[Max(at(tag))].value]
    BY SameMax DEF Asm!ValuesAt
<1> HIDE DEF tags, at
<1>4. Asm!ValuesAt(batch, t) \in [tags -> Readings]
    BY <1>2, <1>3
<1>5. QED
    BY <1>1, <1>4 DEF Held

\* Values put over values.
LEMMA UpdatedFits ==
    ASSUME NEW d \in Held, NEW e \in Held
    PROVE  Asm!Updated(d, e) \in Held
<1>1. PICK S \in SUBSET TagsOf["CELL"] : d \in [S -> Readings]
    BY DEF Held
<1>2. PICK T \in SUBSET TagsOf["CELL"] : e \in [T -> Readings]
    BY DEF Held
<1>3. Asm!Updated(d, e) \in [S \cup T -> Readings]
    BY <1>1, <1>2 DEF Asm!Updated
<1>4. S \cup T \in SUBSET TagsOf["CELL"]
    OBVIOUS
<1>5. QED
    BY <1>3, <1>4 DEF Held

\* Groups, and how long they have waited.
GroupsFit(groups, wait) ==
    /\ DOMAIN groups \subseteq Instant
    /\ \A t \in DOMAIN groups : groups[t] \in Held
    /\ wait \in [DOMAIN groups -> 0..SettleTime]

\* Released groups are groups, and what stays keeps its types.
LEMMA ReleaseFits ==
    ASSUME NEW groups, NEW wait, GroupsFit(groups, wait), NEW S \in SUBSET DOMAIN groups,
           releasedUpTo \in 0..MaxTs,
           Asm!Release(groups, wait, S)
    PROVE  /\ Asm!AssemblerTypeOK(Held)'
           /\ \A g \in Asm!GroupsOf(groups, S) : IsGroup(MaxTs, Readings, g)
<1>1. /\ pending' = [t \in DOMAIN groups \ S |-> groups[t]]
      /\ waited' = [t \in DOMAIN groups \ S |-> wait[t]]
      /\ releasedUpTo' = IF S = {} THEN releasedUpTo ELSE Max(S)
    BY SameMax DEF Asm!Release
<1>2. /\ DOMAIN groups \subseteq Instant
      /\ \A t \in DOMAIN groups : groups[t] \in Held /\ wait[t] \in 0..SettleTime
    BY DEF GroupsFit
<1>3. releasedUpTo' \in Asm!Instant \cup {Never}
  <2>1. S \in SUBSET (1..MaxTs)
      BY <1>2 DEF Instant
  <2>2. S # {} => Max(S) \in S
      BY <2>1, Bounds, MaxOfBounded
  <2>3. QED
      BY <1>1, <2>1, <2>2, Bounds DEF Asm!Instant
<1>4. Asm!AssemblerTypeOK(Held)'
  <2>1. DOMAIN pending' \subseteq Asm!Instant
      BY <1>1, <1>2 DEF Asm!Instant, Instant
  <2>2. \A t \in DOMAIN pending' : pending'[t] \in Held
      BY <1>1, <1>2
  <2>3. waited' \in [DOMAIN pending' -> 0..SettleTime]
      BY <1>1, <1>2
  <2>4. QED
      BY <1>3, <2>1, <2>2, <2>3 DEF Asm!AssemblerTypeOK
<1>5. ASSUME NEW g \in Asm!GroupsOf(groups, S)
      PROVE  IsGroup(MaxTs, Readings, g)
  <2>1. PICK t \in S : g = [ts |-> t, values |-> groups[t], late |-> FALSE]
      BY DEF Asm!GroupsOf
  <2>2. groups[t] \in Held /\ t \in 1..MaxTs
      BY <1>2 DEF Instant
  <2>3. g.ts = t /\ g.values = groups[t]
      BY <2>1
  <2>4. QED
      BY <2>2, <2>3 DEF IsGroup, Held
<1>6. QED
    BY <1>4, <1>5

\* Pending groups that the changes of a batch have joined.
LEMMA JoinedFits ==
    ASSUME Asm!AssemblerTypeOK(Held), NEW n \in Nat, NEW batch, DOMAIN batch = 1..n,
           \A i \in 1..n : batch[i] \in CellNotices
    PROVE  GroupsFit(Asm!Joined(batch), Asm!JoinedWait(batch))
<1> DEFINE joined == Asm!Joined(batch)
           inTime == {u \in Asm!StampsOf(batch) : ~Asm!TooLate(u)}
<1>1. /\ DOMAIN pending \subseteq Instant
      /\ \A t \in DOMAIN pending : pending[t] \in Held /\ waited[t] \in 0..SettleTime
    BY DEF Asm!AssemblerTypeOK, Asm!Instant, Instant
<1>2. inTime \subseteq Instant
    BY DEF Asm!StampsOf, CellNotices
<1>3. joined = [t \in DOMAIN pending \cup inTime |->
                  IF t \notin inTime THEN pending[t]
                  ELSE IF t \notin DOMAIN pending THEN Asm!ValuesAt(batch, t)
                  ELSE Asm!Updated(pending[t], Asm!ValuesAt(batch, t))]
    BY DEF Asm!Joined
<1> HIDE DEF joined, inTime
<1>4. ASSUME NEW t \in DOMAIN joined
      PROVE  joined[t] \in Held
  <2>1. Asm!ValuesAt(batch, t) \in Held
      BY ValuesFit
  <2>2. t \in DOMAIN pending => Asm!Updated(pending[t], Asm!ValuesAt(batch, t)) \in Held
      BY <1>1, <2>1, UpdatedFits
  <2>3. QED
      BY <1>1, <1>3, <2>1, <2>2
<1>5. Asm!JoinedWait(batch) \in [DOMAIN joined -> 0..SettleTime]
    BY <1>1, Bounds DEF Asm!JoinedWait, joined
<1>6. DOMAIN joined \subseteq Instant
    BY <1>1, <1>2, <1>3
<1>7. QED
    BY <1>4, <1>5, <1>6 DEF GroupsFit, joined

\* feed(), ...
LEMMA FeedFits ==
    ASSUME Asm!AssemblerTypeOK(Held), NEW n \in Nat, NEW batch, DOMAIN batch = 1..n,
           \A i \in 1..n : batch[i] \in CellNotices, Asm!Feed(batch)
    PROVE  /\ Asm!AssemblerTypeOK(Held)'
           /\ \A g \in Asm!FeedReturns(batch) : IsGroup(MaxTs, Readings, g)
<1> DEFINE groups == Asm!Joined(batch)
           wait == Asm!JoinedWait(batch)
           S == Asm!Ready(groups, wait)
<1>1. S \in SUBSET DOMAIN groups
    BY DEF Asm!Ready
<1>2. GroupsFit(groups, wait)
    BY JoinedFits
<1>3. Asm!Release(groups, wait, S)
    BY DEF Asm!Feed
<1>4. releasedUpTo \in 0..MaxTs
    BY Bounds DEF Asm!AssemblerTypeOK, Asm!Instant
<1>5. Asm!FeedReturns(batch) = Asm!LateGroups(batch) \cup Asm!GroupsOf(groups, S)
    BY DEF Asm!FeedReturns
<1> HIDE DEF groups, wait, S
<1>6. /\ Asm!AssemblerTypeOK(Held)'
      /\ \A g \in Asm!GroupsOf(groups, S) : IsGroup(MaxTs, Readings, g)
    BY <1>1, <1>2, <1>3, <1>4, ReleaseFits
<1>7. ASSUME NEW g \in Asm!LateGroups(batch)
      PROVE  IsGroup(MaxTs, Readings, g)
  <2>1. PICK t \in Asm!StampsOf(batch) : g = [ts |-> t, values |-> Asm!ValuesAt(batch, t), late |-> TRUE]
      BY DEF Asm!LateGroups
  <2>2. t \in 1..MaxTs
      BY DEF Asm!StampsOf, CellNotices, Instant
  <2>3. Asm!ValuesAt(batch, t) \in Held
      BY ValuesFit
  <2>4. g.ts = t /\ g.values = Asm!ValuesAt(batch, t)
      BY <2>1
  <2>5. QED
      BY <2>2, <2>3, <2>4 DEF IsGroup, Held
<1>8. QED
    BY <1>5, <1>6, <1>7

\* poll(), ...
LEMMA PollFits ==
    ASSUME Asm!AssemblerTypeOK(Held), Asm!Poll
    PROVE  /\ Asm!AssemblerTypeOK(Held)'
           /\ \A g \in Asm!PollReturns : IsGroup(MaxTs, Readings, g)
<1> DEFINE S == Asm!Ready(pending, waited)
<1>1. S \in SUBSET DOMAIN pending
    BY DEF Asm!Ready
<1>2. GroupsFit(pending, waited)
    BY DEF GroupsFit, Asm!AssemblerTypeOK, Asm!Instant, Instant
<1>3. Asm!Release(pending, waited, S) /\ Asm!PollReturns = Asm!GroupsOf(pending, S)
    BY DEF Asm!Poll, Asm!PollReturns
<1>4. releasedUpTo \in 0..MaxTs
    BY Bounds DEF Asm!AssemblerTypeOK, Asm!Instant
<1> HIDE DEF S
<1>5. QED
    BY <1>1, <1>2, <1>3, <1>4, ReleaseFits

\* and flush() return groups, and keep the types of what is pending.
LEMMA FlushFits ==
    ASSUME Asm!AssemblerTypeOK(Held)
    PROVE  \A g \in Asm!FlushReturns : IsGroup(MaxTs, Readings, g)
<1>1. ASSUME NEW g \in Asm!FlushReturns
      PROVE  IsGroup(MaxTs, Readings, g)
  <2>1. PICK t \in DOMAIN pending : g = [ts |-> t, values |-> pending[t], late |-> FALSE]
      BY DEF Asm!FlushReturns, Asm!GroupsOf
  <2>2. pending[t] \in Held /\ t \in 1..MaxTs
      BY DEF Asm!AssemblerTypeOK, Asm!Instant
  <2>3. g.ts = t /\ g.values = pending[t]
      BY <2>1
  <2>4. QED
      BY <2>2, <2>3 DEF IsGroup, Held
<1>2. QED
    BY <1>1

\* Groups in order are groups.
LEMMA InOrderFits ==
    ASSUME NEW G, \A g \in G : IsGroup(MaxTs, Readings, g)
    PROVE  /\ Len(InOrder(G)) \in Nat
           /\ \A i \in 1..Len(InOrder(G)) : IsGroup(MaxTs, Readings, InOrder(G)[i])
<1> DEFINE stamps == {g.ts : g \in G}
           n == Cardinality(stamps)
<1>1. stamps \in SUBSET (1..MaxTs)
    BY DEF IsGroup
<1>2. InOrder(G) = [i \in 1..n |-> CHOOSE g \in G : g.ts = Nth(stamps, i)]
    BY DEF InOrder
<1>3. n \in Nat
  <2> HIDE DEF stamps
  <2>1. QED
      BY <1>1, Bounds, FiniteInstants
<1>4. ASSUME NEW i \in 1..n
      PROVE  IsGroup(MaxTs, Readings, InOrder(G)[i])
  <2>1. Nth(stamps, i) \in stamps
    <3> HIDE DEF stamps
    <3>1. QED
        BY <1>1, Bounds, NthExists
  <2>2. \E g \in G : g.ts = Nth(stamps, i)
      BY <2>1
  <2> HIDE DEF stamps, n
  <2>3. (CHOOSE g \in G : g.ts = Nth(stamps, i)) \in G
      BY <2>2
  <2>4. InOrder(G)[i] \in G
      BY <1>2, <2>3
  <2>5. QED
      BY <2>4
<1> HIDE DEF n, stamps
<1>5. Len(InOrder(G)) = n
    BY <1>2, <1>3
<1>6. QED
    BY <1>3, <1>4, <1>5
-----------------------------------------------------------------------------

(* The watchdog.                                                           *)

\* An operation that the watchdog has no reason to issue.
LEMMA WatchdogFields ==
    ASSUME NEW w \in Watchdogs
    PROVE  /\ w.lastHb \in 0..MaxTs /\ w.gapStart \in 0..MaxTs
           /\ w.silence \in 0..(Timeout + 1) /\ w.checkJump \in BOOLEAN
           /\ w = [lastHb |-> w.lastHb, silence |-> w.silence, gapStart |-> w.gapStart,
                   checkJump |-> w.checkJump]
BY DEF Watchdogs

\* One heartbeat: what it issues is legal and moves the gap as the watchdog
\* does; after a new one there is no gap, and no jump to look for.
LEMMA HeartbeatFits ==
    ASSUME NEW w \in Watchdogs, NEW ts \in Instant
    PROVE  LET after == Wd!AfterHeartbeat(w, ts)
               ops == Wd!HeartbeatOps(w, ts)
           IN  /\ after \in Watchdogs /\ ops \in GapOps
               /\ Legal(w.gapStart, ops) /\ Moved(w.gapStart, ops) = after.gapStart
               /\ (after = w /\ ops = <<>>) \/ (after.gapStart = Never /\ ~after.checkJump)
               /\ w.gapStart = Never /\ ~w.checkJump => ops = <<>>
<1> DEFINE after == Wd!AfterHeartbeat(w, ts)
           ops == Wd!HeartbeatOps(w, ts)
<1>1. /\ w.lastHb \in 0..MaxTs /\ w.gapStart \in 0..MaxTs /\ w.checkJump \in BOOLEAN
      /\ ts \in 1..MaxTs /\ MaxTs \in Nat /\ Timeout \in Nat
    BY WatchdogFields, Bounds DEF Instant
<1>2. CASE ~Wd!IsNew(w, ts)
  <2>1. after = w /\ ops = <<>>
      BY <1>2 DEF Wd!AfterHeartbeat, Wd!HeartbeatOps
  <2>2. QED
      BY <2>1 DEF GapOps, Legal, Moved
<1>3. CASE Wd!IsNew(w, ts)
  <2>1. after = [lastHb |-> ts, silence |-> 0, gapStart |-> Never, checkJump |-> FALSE]
      BY <1>3 DEF Wd!AfterHeartbeat
  <2>2. after \in Watchdogs /\ after.gapStart = Never /\ ~after.checkJump
      BY <1>1, <2>1 DEF Watchdogs
  <2> HIDE DEF after
  <2>3. CASE w.gapStart # Never
    <3>1. ops = <<[op |-> "close", start |-> w.gapStart, end |-> ts]>>
        BY <1>3, <2>3 DEF Wd!HeartbeatOps
    <3>2. w.gapStart \in Instant
        BY <1>1, <2>3 DEF Instant
    <3> HIDE DEF ops
    <3>3. ops \in GapOps
        BY <3>1, <3>2 DEF GapOps
    <3>4. Legal(w.gapStart, ops) /\ Moved(w.gapStart, ops) = Never
        BY <3>1 DEF Legal, Moved
    <3>5. QED
        BY <2>2, <2>3, <3>3, <3>4 DEF after, ops
  <2>4. CASE w.gapStart = Never /\ Wd!Jumped(w, ts)
    <3>1. ops = <<[op |-> "closed", start |-> w.lastHb, end |-> ts]>>
        BY <1>3, <2>4 DEF Wd!HeartbeatOps
    <3>2. w.lastHb \in Instant /\ w.checkJump
        BY <1>1, <2>4 DEF Instant, Wd!Jumped
    <3> HIDE DEF ops
    <3>3. ops \in GapOps
        BY <3>1, <3>2 DEF GapOps
    <3>4. Legal(w.gapStart, ops) /\ Moved(w.gapStart, ops) = Never
        BY <2>4, <3>1 DEF Legal, Moved
    <3>5. QED
        BY <2>2, <2>4, <3>2, <3>3, <3>4 DEF after, ops
  <2>5. CASE w.gapStart = Never /\ ~Wd!Jumped(w, ts)
    <3>1. ops = <<>>
        BY <2>5 DEF Wd!HeartbeatOps
    <3>2. QED
        BY <2>2, <2>5, <3>1 DEF GapOps, Legal, Moved, after
  <2>6. QED
      BY <2>3, <2>4, <2>5
<1>4. QED
    BY <1>2, <1>3

\* The watchdog, and what it has issued, after each of some heartbeats.
BeatByBeat(f, watchdog, beats) ==
    \A n \in 0..Cardinality(beats) :
        f[n] = IF n = 0 THEN [wd |-> watchdog, ops |-> <<>>]
               ELSE [wd  |-> Wd!AfterHeartbeat(f[n - 1].wd, Nth(beats, n)),
                     ops |-> f[n - 1].ops \o Wd!HeartbeatOps(f[n - 1].wd, Nth(beats, n))]

\* The heartbeats of a batch, one after the other, are well defined.
LEMMA BeatsExist ==
    ASSUME NEW watchdog, NEW beats, Cardinality(beats) \in Nat
    PROVE  \E f : /\ BeatByBeat(f, watchdog, beats)
                  /\ BeatAll(watchdog, beats) = f[Cardinality(beats)]
<1> DEFINE Next1(n, f) ==
               IF n = 0 THEN [wd |-> watchdog, ops |-> <<>>]
               ELSE [wd  |-> Wd!AfterHeartbeat(f[n - 1].wd, Nth(beats, n)),
                     ops |-> f[n - 1].ops \o Wd!HeartbeatOps(f[n - 1].wd, Nth(beats, n))]
           Reach(n, f) == f = [k \in 0..n |-> Next1(k, f)]
           bad == {n \in Nat : ~\E f : Reach(n, f)}
           N == Cardinality(beats)
<1>1. bad = {}
  <2>1. SUFFICES ASSUME bad # {}
                 PROVE  FALSE
      OBVIOUS
  <2>2. PICK least \in bad : \A n \in bad : least <= n
    <3>1. bad \in SUBSET Nat
        OBVIOUS
    <3> HIDE DEF bad
    <3>2. QED
        BY <2>1, <3>1, MinOfNaturals
  <2>3. CASE least = 0
    <3>1. Reach(0, [k \in 0..0 |-> [wd |-> watchdog, ops |-> <<>>]])
        OBVIOUS
    <3>2. QED
        BY <2>2, <2>3, <3>1
  <2>4. CASE least # 0
    <3>1. least - 1 \in Nat /\ least - 1 \notin bad
      <4>1. least \in Nat
          OBVIOUS
      <4>2. least - 1 \in Nat /\ ~(least <= least - 1)
          BY <2>4, <4>1
      <4> HIDE DEF bad
      <4>3. QED
          BY <2>2, <4>2
    <3>2. PICK f : Reach(least - 1, f)
        BY <3>1
    <3> DEFINE last == Next1(least, f)
               h == [k \in 0..least |-> IF k = least THEN last ELSE f[k]]
    <3>3. \A k \in 0..(least - 1) : f[k] = Next1(k, f)
      <4> HIDE DEF Next1
      <4>1. QED
          BY <3>2
    <3>4. ASSUME NEW k \in 0..least
          PROVE  h[k] = Next1(k, h)
      <4>1. k # 0 => k - 1 \in 0..(least - 1) /\ h[k - 1] = f[k - 1]
        <5> HIDE DEF last
        <5>1. QED
            BY <3>1
      <4>2. Next1(k, h) = Next1(k, f)
        <5> HIDE DEF h
        <5>1. QED
            BY <4>1
      <4>3. h[k] = Next1(k, f)
        <5>1. k # least => k \in 0..(least - 1)
            BY <3>1
        <5> HIDE DEF Next1
        <5>2. QED
            BY <3>3, <5>1
      <4>4. QED
          BY <4>2, <4>3
    <3>5. h = [k \in 0..least |-> h[k]]
      <4> HIDE DEF last
      <4>1. QED
          OBVIOUS
    <3> HIDE DEF h, Next1
    <3>6. Reach(least, h)
        BY <3>4, <3>5
    <3>7. QED
        BY <2>2, <3>6
  <2>5. QED
      BY <2>3, <2>4
<1> DEFINE after == CHOOSE f : Reach(N, f)
<1>2. \E f : Reach(N, f)
    BY <1>1
<1>3. BeatAll(watchdog, beats) = after[N]
    BY DEF BeatAll
<1> HIDE DEF Reach
<1>4. Reach(N, after)
    BY <1>2
<1> HIDE DEF after
<1>5. after = [k \in 0..N |-> Next1(k, after)]
    BY <1>4 DEF Reach
<1>6. \A n \in 0..N : after[n] = Next1(n, after)
  <2> HIDE DEF Next1, N
  <2>1. QED
      BY <1>5
<1>7. QED
    BY <1>3, <1>6 DEF BeatByBeat

\* The heartbeats of a batch issue one operation at most, and that is legal.
LEMMA BeatsFit ==
    ASSUME NEW w \in Watchdogs, NEW beats \in SUBSET Instant
    PROVE  /\ BeatAll(w, beats).wd \in Watchdogs
           /\ BeatAll(w, beats).ops \in GapOps
           /\ Legal(w.gapStart, BeatAll(w, beats).ops)
           /\ Moved(w.gapStart, BeatAll(w, beats).ops) = BeatAll(w, beats).wd.gapStart
<1> DEFINE N == Cardinality(beats)
<1>1. N \in Nat /\ \A n \in 1..N : Nth(beats, n) \in Instant
  <2>1. beats \in SUBSET (1..MaxTs) /\ MaxTs \in Nat
      BY Bounds DEF Instant
  <2>2. N \in Nat
      BY <2>1, FiniteInstants
  <2>3. ASSUME NEW n \in 1..N
        PROVE  Nth(beats, n) \in beats
      BY <2>1, NthExists
  <2>4. QED
      BY <2>2, <2>3
<1>2. PICK f : BeatByBeat(f, w, beats) /\ BeatAll(w, beats) = f[N]
    BY <1>1, BeatsExist
<1> DEFINE Holds(n) ==
               /\ f[n].wd \in Watchdogs /\ f[n].ops \in GapOps
               /\ Legal(w.gapStart, f[n].ops) /\ Moved(w.gapStart, f[n].ops) = f[n].wd.gapStart
               /\ \/ f[n].wd = w /\ f[n].ops = <<>>
                  \/ f[n].wd.gapStart = Never /\ ~f[n].wd.checkJump
           bad == {n \in 0..N : ~Holds(n)}
<1>3. Holds(0)
  <2>1. f[0] = [wd |-> w, ops |-> <<>>]
    <3>1. 0 \in 0..Cardinality(beats)
        BY <1>1
    <3> HIDE DEF N
    <3>2. QED
        BY <1>2, <3>1 DEF BeatByBeat
  <2>2. f[0].wd = w /\ f[0].ops = <<>>
      BY <2>1
  <2>3. QED
      BY <2>2 DEF GapOps, Legal, Moved
<1>4. ASSUME NEW n \in 1..N, Holds(n - 1)
      PROVE  Holds(n)
  <2> DEFINE Ops == [op : {"open", "close", "closed"}, start : Instant, end : Instant \cup {Never}]
             old == f[n - 1]
             after == Wd!AfterHeartbeat(old.wd, Nth(beats, n))
             ops == Wd!HeartbeatOps(old.wd, Nth(beats, n))
  <2>1. f[n] = [wd |-> after, ops |-> old.ops \o ops]
    <3>1. n \in 0..N /\ n # 0
        BY <1>1
    <3>2. QED
        BY <1>2, <3>1 DEF BeatByBeat
  <2>2. /\ after \in Watchdogs /\ ops \in GapOps
        /\ Legal(old.wd.gapStart, ops) /\ Moved(old.wd.gapStart, ops) = after.gapStart
        /\ (after = old.wd /\ ops = <<>>) \/ (after.gapStart = Never /\ ~after.checkJump)
        /\ old.wd.gapStart = Never /\ ~old.wd.checkJump => ops = <<>>
      BY <1>1, <1>4, HeartbeatFits
  <2> HIDE DEF after, ops
  <2>3. old.ops \in Seq(Ops) /\ ops \in Seq(Ops)
    <3>1. ASSUME NEW some \in GapOps
          PROVE  some \in Seq(Ops)
      <4>1. CASE some = <<>>
          BY <4>1
      <4>2. CASE \E t \in Instant : some = <<[op |-> "open", start |-> t, end |-> Never]>>
          BY <4>2
      <4>3. CASE \E o \in {"close", "closed"}, t \in Instant, u \in Instant :
                    some = <<[op |-> o, start |-> t, end |-> u]>>
          BY <4>3
      <4>4. QED
          BY <4>1, <4>2, <4>3 DEF GapOps
    <3>2. QED
        BY <1>4, <2>2, <3>1
  <2> HIDE DEF Ops
  <2>4. f[n].wd = after /\ f[n].ops = old.ops \o ops
      BY <2>1
  <2>5. CASE old.wd = w /\ old.ops = <<>>
    <3>1. f[n].ops = ops
        BY <2>2, <2>3, <2>4, <2>5
    <3>2. QED
        BY <2>2, <2>4, <2>5, <3>1
  <2>6. CASE old.wd.gapStart = Never /\ ~old.wd.checkJump
    <3>1. ops = <<>>
        BY <2>2, <2>6
    <3>2. f[n].ops = old.ops
        BY <2>3, <2>4, <3>1
    <3>3. after.gapStart = old.wd.gapStart
        BY <2>2, <3>1 DEF Moved
    <3>4. after = old.wd \/ (after.gapStart = Never /\ ~after.checkJump)
        BY <2>2
    <3>5. QED
        BY <1>4, <2>2, <2>4, <2>6, <3>2, <3>3, <3>4
  <2>7. QED
      BY <1>4, <2>5, <2>6
<1>5. bad = {}
  <2>1. SUFFICES ASSUME bad # {}
                 PROVE  FALSE
      OBVIOUS
  <2> HIDE DEF Holds
  <2>2. PICK n \in bad : \A k \in bad : n <= k
    <3>1. bad \in SUBSET Nat
        BY <1>1
    <3> HIDE DEF bad
    <3>2. QED
        BY <2>1, <3>1, MinOfNaturals
  <2> HIDE DEF N
  <2>3. n # 0 /\ n \in 1..N /\ n - 1 \in 0..N
      BY <1>1, <1>3
  <2>4. n - 1 \notin bad
    <3>1. ~(n <= n - 1)
        BY <1>1, <2>3
    <3> HIDE DEF bad
    <3>2. QED
        BY <2>2, <3>1
  <2>5. QED
      BY <1>4, <2>3, <2>4
<1>6. Holds(N)
  <2> HIDE DEF Holds, N
  <2>1. QED
      BY <1>1, <1>5
<1>7. QED
    BY <1>2, <1>6

\* The ticker's.
LEMMA PollsFit ==
    ASSUME NEW w \in Watchdogs
    PROVE  /\ Wd!AfterPoll(w) \in Watchdogs
           /\ Wd!PollOps(w) \in GapOps
           /\ Legal(w.gapStart, Wd!PollOps(w))
           /\ Moved(w.gapStart, Wd!PollOps(w)) = Wd!AfterPoll(w).gapStart
<1>1. CASE Wd!Silent(w)
  <2>1. w.lastHb \in Instant /\ w.gapStart = Never
      BY <1>1, WatchdogFields, Bounds DEF Wd!Silent, Instant
  <2>2. Wd!PollOps(w) = <<[op |-> "open", start |-> w.lastHb, end |-> Never]>>
      BY <1>1 DEF Wd!PollOps
  <2>3. Wd!AfterPoll(w) = [w EXCEPT !.gapStart = w.lastHb]
      BY <1>1 DEF Wd!AfterPoll
  <2>4. Wd!AfterPoll(w) \in Watchdogs /\ Wd!AfterPoll(w).gapStart = w.lastHb
      BY <2>3 DEF Watchdogs
  <2>5. QED
      BY <2>1, <2>2, <2>4 DEF GapOps, Legal, Moved
<1>2. CASE ~Wd!Silent(w)
  <2>1. Wd!PollOps(w) = <<>> /\ Wd!AfterPoll(w) = w
      BY <1>2 DEF Wd!PollOps, Wd!AfterPoll
  <2>2. QED
      BY <2>1 DEF GapOps, Legal, Moved
<1>3. QED
    BY <1>1, <1>2
-----------------------------------------------------------------------------

(* The gaps.                                                               *)

\* The open interval of a table.
LEMMA OpenInterval ==
    ASSUME NEW table, DOMAIN table \subseteq Instant
    PROVE  /\ OpenIn(table) \in 0..MaxTs
           /\ OpenIn(table) = Never <=> \A k \in DOMAIN table : table[k] # Never
           /\ OpenIn(table) # Never => OpenIn(table) \in DOMAIN table /\ table[OpenIn(table)] = Never
<1> DEFINE open == {k \in DOMAIN table : table[k] = Never}
<1>1. OpenIn(table) = IF open = {} THEN Never ELSE Max(open)
    BY DEF OpenIn
<1>2. open \in SUBSET (1..MaxTs) /\ open \subseteq DOMAIN table /\ \A k \in open : table[k] = Never
    BY DEF Instant
<1>3. open = {} <=> \A k \in DOMAIN table : table[k] # Never
    OBVIOUS
<1> HIDE DEF open
<1>4. open # {} => Max(open) \in open
    BY <1>2, Bounds, MaxOfBounded
<1>5. \A k \in open : k \in 1..MaxTs /\ k # 0
    BY <1>2, Bounds
<1>6. CASE open = {}
    BY <1>1, <1>3, <1>6, Bounds
<1>7. CASE open # {}
  <2>1. OpenIn(table) \in open
      BY <1>1, <1>4, <1>7
  <2>2. OpenIn(table) \in 0..MaxTs /\ OpenIn(table) # Never
      BY <1>5, <2>1, Bounds
  <2>3. QED
      BY <1>2, <2>1, <2>2
<1>8. QED
    BY <1>6, <1>7

\* No more than one is open.
LEMMA OneGap ==
    ASSUME NEW table, DOMAIN table \subseteq Instant
    PROVE  SingleOpen(table) <=>
              \A k, l \in DOMAIN table : table[k] = Never /\ table[l] = Never => k = l
BY OneOpen, Bounds DEF Instant

\* The only open interval is the one that is found.
LEMMA OnlyGap ==
    ASSUME NEW table, DOMAIN table \subseteq Instant, SingleOpen(table), NEW k \in DOMAIN table,
           table[k] = Never
    PROVE  OpenIn(table) = k
<1>1. OpenIn(table) \in DOMAIN table /\ table[OpenIn(table)] = Never
    BY OpenInterval
<1>2. QED
    BY <1>1, OneGap

\* A transaction with one operation on the gaps.
LEMMA OneGapWritten ==
    ASSUME NEW gaps, NEW op
    PROVE  WriteGaps(gaps, <<op>>) = WriteGap(gaps, op)
<1> DEFINE ops == <<op>>
           IsAfter(f) == f = [n \in 0..Len(ops) |-> IF n = 0 THEN gaps ELSE WriteGap(f[n - 1], ops[n])]
           after == CHOOSE f : IsAfter(f)
           g == [n \in 0..1 |-> IF n = 0 THEN gaps ELSE WriteGap(gaps, op)]
<1>1. Len(ops) = 1 /\ 0 \in 0..1 /\ 1 \in 0..1 /\ ops[1] = op /\ \A n \in 0..1 : n = 0 \/ n = 1
    OBVIOUS
<1>2. WriteGaps(gaps, ops) = after[1]
    BY <1>1 DEF WriteGaps
<1> HIDE DEF ops
<1>3. IsAfter(g)
  <2>1. g[0] = gaps /\ g[1] = WriteGap(gaps, op)
      BY <1>1
  <2> DEFINE h == [n \in 0..1 |-> IF n = 0 THEN gaps ELSE WriteGap(g[n - 1], ops[n])]
  <2>2. ASSUME NEW n \in 0..1
        PROVE  g[n] = h[n]
    <3>1. n = 0 \/ n = 1
        BY <1>1
    <3> HIDE DEF g
    <3>2. QED
        BY <1>1, <2>1, <3>1
  <2>3. g = h
      BY <2>2
  <2> HIDE DEF g
  <2>4. QED
      BY <1>1, <2>3
<1> HIDE DEF g
<1>4. IsAfter(after)
  <2> HIDE DEF IsAfter
  <2>1. QED
      BY <1>3
<1> HIDE DEF after
<1>5. after[0] = gaps
    BY <1>1, <1>4
<1>6. after[1] = WriteGap(after[0], op)
    BY <1>1, <1>4
<1>7. QED
    BY <1>2, <1>5, <1>6 DEF ops

\* What keeps an operation from being ignored.
Takes(gaps, ops) ==
    ops # <<>> => IF ops[1].op = "close" THEN ops[1].start < ops[1].end
                  ELSE ops[1].start \notin DOMAIN gaps

\* What operations do to the gaps: they stay at instants; if the watchdog knew
\* the open gap, no second one opens; and if none of them is ignored, the open
\* gap is then the one that the watchdog knows.
LEMMA GapsWritten ==
    ASSUME NEW gaps, DOMAIN gaps \subseteq Instant, NEW ops \in GapOps
    PROVE  LET new == WriteGaps(gaps, ops)
           IN  /\ DOMAIN new \subseteq Instant
               /\ SingleOpen(gaps) /\ Legal(OpenIn(gaps), ops) =>
                     /\ SingleOpen(new)
                     /\ Takes(gaps, ops) => OpenIn(new) = Moved(OpenIn(gaps), ops)
<1> DEFINE new == WriteGaps(gaps, ops)
           old == OpenIn(gaps)
<1>1. MaxTs \in Nat /\ \A k \in Instant : k # Never
    BY Bounds DEF Instant
<1>2. CASE ops = <<>>
    BY <1>2, NoGapWritten DEF Moved
<1>3. CASE \E t \in Instant : ops = <<[op |-> "open", start |-> t, end |-> Never]>>
  <2>1. PICK t \in Instant : ops = <<[op |-> "open", start |-> t, end |-> Never]>>
      BY <1>3
  <2>2. new = Insert(gaps, t, Never)
      BY <2>1, OneGapWritten DEF WriteGap
  <2>3. ops # <<>> /\ ops[1].op = "open" /\ ops[1].start = t
      BY <2>1
  <2>4. /\ DOMAIN new = DOMAIN gaps \cup {t}
        /\ \A k \in DOMAIN new : new[k] = IF k \in DOMAIN gaps THEN gaps[k] ELSE Never
      BY <2>2 DEF Insert
  <2>5. DOMAIN new \subseteq Instant
      BY <2>4
  <2> HIDE DEF new
  <2>6. ASSUME SingleOpen(gaps), Legal(old, ops)
        PROVE  SingleOpen(new) /\ (Takes(gaps, ops) => OpenIn(new) = Moved(old, ops))
    <3>1. old = Never
        BY <2>3, <2>6 DEF Legal
    <3>2. \A k \in DOMAIN gaps : gaps[k] # Never
        BY <3>1, OpenInterval
    <3>3. \A k \in DOMAIN new : new[k] = Never => k = t
        BY <2>4, <3>2
    <3>4. SingleOpen(new)
        BY <2>5, <3>3, OneGap
    <3>5. Takes(gaps, ops) => t \in DOMAIN new /\ new[t] = Never
        BY <2>3, <2>4 DEF Takes
    <3>6. Moved(old, ops) = t
        BY <2>3 DEF Moved
    <3>7. QED
        BY <2>5, <3>4, <3>5, <3>6, OnlyGap
  <2>7. QED
      BY <2>5, <2>6 DEF new
<1>4. CASE \E t \in Instant, u \in Instant : ops = <<[op |-> "close", start |-> t, end |-> u]>>
  <2>1. PICK t \in Instant, u \in Instant : ops = <<[op |-> "close", start |-> t, end |-> u]>>
      BY <1>4
  <2>2. new = CloseInterval(gaps, t, u)
      BY <2>1, OneGapWritten DEF WriteGap
  <2>3. ops # <<>> /\ ops[1].op = "close" /\ ops[1].start = t /\ ops[1].end = u
      BY <2>1
  <2>4. /\ DOMAIN new = DOMAIN gaps
        /\ \A k \in DOMAIN gaps : new[k] = IF k = t /\ gaps[k] = Never /\ t < u THEN u ELSE gaps[k]
      BY <2>2 DEF CloseInterval
  <2>5. DOMAIN new \subseteq Instant
      BY <2>4
  <2> HIDE DEF new
  <2>6. ASSUME SingleOpen(gaps), Legal(old, ops)
        PROVE  SingleOpen(new) /\ (Takes(gaps, ops) => OpenIn(new) = Moved(old, ops))
    <3>1. old = t
        BY <2>3, <2>6 DEF Legal
    <3>2. \A k \in DOMAIN gaps : gaps[k] = Never => k = t
        BY <2>6, <3>1, OnlyGap
    <3>3. \A k \in DOMAIN new : new[k] = Never => k = t
        BY <1>1, <2>4, <3>2
    <3>4. SingleOpen(new)
        BY <2>5, <3>3, OneGap
    <3>5. Takes(gaps, ops) => \A k \in DOMAIN new : new[k] # Never
        BY <1>1, <2>3, <2>4, <3>2 DEF Takes
    <3>6. Moved(old, ops) = Never
        BY <2>3 DEF Moved
    <3>7. QED
        BY <2>5, <3>4, <3>5, <3>6, OpenInterval
  <2>7. QED
      BY <2>5, <2>6 DEF new
<1>5. CASE \E t \in Instant, u \in Instant : ops = <<[op |-> "closed", start |-> t, end |-> u]>>
  <2>1. PICK t \in Instant, u \in Instant : ops = <<[op |-> "closed", start |-> t, end |-> u]>>
      BY <1>5
  <2>2. new = Insert(gaps, t, u)
      BY <2>1, OneGapWritten DEF WriteGap
  <2>3. ops # <<>> /\ ops[1].op = "closed" /\ ops[1].start = t
      BY <2>1
  <2>4. /\ DOMAIN new = DOMAIN gaps \cup {t}
        /\ \A k \in DOMAIN new : new[k] = IF k \in DOMAIN gaps THEN gaps[k] ELSE u
      BY <2>2 DEF Insert
  <2>5. DOMAIN new \subseteq Instant
      BY <2>4
  <2> HIDE DEF new
  <2>6. ASSUME SingleOpen(gaps), Legal(old, ops)
        PROVE  SingleOpen(new) /\ OpenIn(new) = Moved(old, ops)
    <3>1. old = Never
        BY <2>3, <2>6 DEF Legal
    <3>2. \A k \in DOMAIN gaps : gaps[k] # Never
        BY <3>1, OpenInterval
    <3>3. \A k \in DOMAIN new : new[k] # Never
        BY <1>1, <2>4, <3>2
    <3>4. SingleOpen(new)
        BY <2>5, <3>3, OneGap
    <3>5. Moved(old, ops) = Never
        BY <2>3, <3>1 DEF Moved
    <3>6. QED
        BY <2>5, <3>3, <3>4, <3>5, OpenInterval
  <2>7. QED
      BY <2>5, <2>6 DEF new
<1>6. QED
    BY <1>2, <1>3, <1>4, <1>5 DEF GapOps

\* What is not noted as ignored takes effect.
LEMMA NothingIgnored ==
    ASSUME NEW d, NEW w, w.gaps \in GapOps, Ignored(d, w) = {}
    PROVE  Takes(d.gaps, w.gaps)
<1>1. SUFFICES ASSUME w.gaps # <<>>
               PROVE  IF w.gaps[1].op = "close" THEN w.gaps[1].start < w.gaps[1].end
                      ELSE w.gaps[1].start \notin DOMAIN d.gaps
    BY DEF Takes
<1> DEFINE op == w.gaps[1]
           lost(j) == IF w.gaps[j].op = "close" THEN w.gaps[j].end <= w.gaps[j].start
                      ELSE w.gaps[j].start \in DOMAIN d.gaps
<1>2. 1 \in DOMAIN w.gaps /\ op.start \in Nat /\ op.end \in Nat
  <2>1. \A t \in Instant : t \in Nat
      BY Bounds DEF Instant
  <2>2. QED
      BY <1>1, <2>1 DEF GapOps
<1>3. {j \in DOMAIN w.gaps : lost(j)} = {}
    BY DEF Ignored
<1> HIDE DEF lost
<1>4. ~lost(1)
    BY <1>2, <1>3
<1>5. QED
    BY <1>2, <1>4 DEF lost
-----------------------------------------------------------------------------

(* The tracker's memory and the transactions.                              *)

\* Over groups, it keeps its shape, and issues operations at their instants.
LEMMA TrackedFits ==
    ASSUME NEW t, MemoryShaped(t), NEW groups, Len(groups) \in Nat,
           \A i \in 1..Len(groups) : IsGroup(MaxTs, Readings, groups[i])
    PROVE  /\ MemoryShaped(TrackAll(t, groups).trk)
           /\ Len(TrackAll(t, groups).ops) = Len(groups)
           /\ DOMAIN TrackAll(t, groups).ops = 1..Len(groups)
           /\ \A i \in 1..Len(groups) : TrackAll(t, groups).ops[i].ts \in Instant
<1> DEFINE m == MemoriesOf(t, groups)
           bad == {n \in 0..Len(groups) : ~MemoryShaped(m[n])}
<1>1. MemoryByMemory(m, t, groups)
    BY MemoriesExist
<1>2. /\ TrackAll(t, groups).ops = OpsOver(t, groups) /\ TrackAll(t, groups).trk = m[Len(groups)]
      /\ Len(OpsOver(t, groups)) = Len(groups)
      /\ \A i \in 1..Len(groups) : OpsOver(t, groups)[i].ts \in 1..MaxTs
  <2> HIDE DEF m, bad
  <2>1. MaxTs \in Nat /\ \A i \in 1..Len(groups) : IsGroup(MaxTs, Readings, groups[i])
      BY Bounds
  <2>2. /\ TrackAll(t, groups).ops = OpsOver(t, groups)
        /\ TrackAll(t, groups).trk = MemoriesOf(t, groups)[Len(groups)]
        /\ Len(OpsOver(t, groups)) = Len(groups)
        /\ \A i \in 1..Len(groups) : OpsOver(t, groups)[i].ts \in 1..MaxTs
      BY <2>1, OpsOfGroups
  <2>3. QED
      BY <2>2 DEF m
<1>3. ASSUME NEW n \in 1..Len(groups), MemoryShaped(m[n - 1])
      PROVE  MemoryShaped(m[n])
  <2> DEFINE old == m[n - 1]
             g == groups[n]
             ops == OpsFor(old, g)
  <2>1. m[n] = After(old, g, ops)
      BY <1>1 DEF MemoryByMemory, Track
  <2>2. IsGroup(MaxTs, Readings, g) /\ g.ts \in 0..MaxTs
    <3>1. IsGroup(MaxTs, Readings, g)
        OBVIOUS
    <3>2. QED
        BY <3>1, Bounds DEF IsGroup
  <2> HIDE DEF m, g, ops
  <2>3. /\ old.openStop \in 0..MaxTs /\ KnownTags(Readings, old.latest)
        /\ \A s \in Scope : old.last[s].ts \in 0..MaxTs
      BY <1>3 DEF MemoryShaped
  <2>4. KnownTags(Readings, Observe(old.latest, g))
      BY <2>2, <2>3, Bounds, ObserveKeepsTypes
  <2>5. /\ After(old, g, ops).latest = Observe(old.latest, g)
        /\ After(old, g, ops).openStop \in {old.openStop, g.ts, Never}
        /\ \A s \in Scope : After(old, g, ops).last[s].ts \in {old.last[s].ts, g.ts}
      BY DEF After
  <2>6. 0 \in 0..MaxTs
      BY Bounds
  <2> HIDE DEF old
  <2>7. QED
      BY <2>1, <2>2, <2>3, <2>4, <2>5, <2>6 DEF MemoryShaped
<1>4. MemoryShaped(m[0])
    BY <1>1 DEF MemoryByMemory
<1> HIDE DEF m
<1>5. bad = {}
  <2>1. SUFFICES ASSUME bad # {}
                 PROVE  FALSE
      OBVIOUS
  <2>2. PICK n \in bad : \A k \in bad : n <= k
    <3>1. bad \in SUBSET Nat
        OBVIOUS
    <3> HIDE DEF bad
    <3>2. QED
        BY <2>1, <3>1, MinOfNaturals
  <2>3. n # 0 /\ n \in 1..Len(groups) /\ n - 1 \in 0..Len(groups)
      BY <1>4
  <2>4. n - 1 \notin bad
    <3>1. ~(n <= n - 1)
        BY <2>3
    <3> HIDE DEF bad
    <3>2. QED
        BY <2>2, <3>1
  <2>5. QED
      BY <1>3, <2>3, <2>4
<1>6. MemoryShaped(m[Len(groups)])
    BY <1>5
<1>7. DOMAIN OpsOver(t, groups) = 1..Len(groups)
    BY DEF OpsOver
<1>8. QED
    BY <1>2, <1>6, <1>7 DEF Instant

\* What is applied to the tables leaves tables, whose gaps the watchdog's
\* operations made.
LEMMA AppliedFits ==
    ASSUME NEW d, Stored(d), NEW w, Carries(w)
    PROVE  LET e == Applied(d, w)
           IN  /\ Shaped(MaxTs, e) /\ e.lastSeen <= MaxTs
               /\ DOMAIN e.gaps \subseteq Instant /\ e.gaps = WriteGaps(d.gaps, w.gaps)
               /\ Accepted(e) => Stored(e)
<1> DEFINE e == Applied(d, w)
<1>1. Committed(MaxTs, Transaction(d, w.groups, w.gaps, w.seen), d, w.groups, w.gaps, w.seen)
  <2>1. /\ MaxTs \in Nat /\ Len(w.groups) \in Nat /\ w.seen \in Nat
        /\ \A i \in 1..Len(w.groups) : w.groups[i].ts \in 1..MaxTs
        /\ Shaped(MaxTs, d)
      BY Bounds DEF Carries, Instant, Stored
  <2>2. QED
      BY <2>1, TransactionShaped
<1>2. Shaped(MaxTs, e) /\ e.gaps = WriteGaps(d.gaps, w.gaps) /\ e.lastSeen = Seen(d.lastSeen, w.seen)
    BY <1>1 DEF Committed, Applied
<1> HIDE DEF e
<1>3. e.lastSeen <= MaxTs
    BY <1>2, Bounds DEF Stored, Seen, Carries, Shaped
<1>4. DOMAIN e.gaps \subseteq Instant
    BY <1>2, GapsWritten DEF Stored, Carries
<1>5. QED
    BY <1>2, <1>3, <1>4 DEF e, Stored

\* What the transaction may say was seen.
LEMMA SafeSeen ==
    ASSUME NEW max \in 0..MaxTs, NEW groups, DOMAIN groups \subseteq Instant
    PROVE  SafeLastSeen(max, groups) \in 0..MaxTs
<1> DEFINE S == DOMAIN groups
<1>1. S \in SUBSET Nat /\ \A t \in S : t \in 1..MaxTs
    BY Bounds DEF Instant
<1> HIDE DEF S
<1>2. S # {} => Min(S) \in S
    BY <1>1, MinOfNaturals
<1>3. ASSUME S # {}
      PROVE  Min(S) - 1 \in 0..MaxTs
  <2> DEFINE first == Min(S)
  <2>1. first \in 1..MaxTs
      BY <1>1, <1>2, <1>3
  <2> HIDE DEF first
  <2>2. first - 1 \in 0..MaxTs
      BY <2>1, Bounds
  <2>3. QED
      BY <2>2 DEF first
<1>4. QED
    BY <1>3 DEF SafeLastSeen, S

\* Two transactions, and what is left of them when the first has committed.
LEMMA Pairs ==
    ASSUME NEW w, NEW e
    PROVE  /\ Append(<<w>>, e) = <<w, e>>
           /\ Head(<<w>>) = w /\ Tail(<<w>>) = <<>>
           /\ Head(<<w, e>>) = w /\ Tail(<<w, e>>) = <<e>>
<1>1. Append(<<w>>, e) = <<w, e>>
  <2> DEFINE s == Append(<<w>>, e)
             t == <<w, e>>
  <2>1. /\ s \in Seq({w, e}) /\ Len(s) = 2 /\ s[1] = w /\ s[2] = e
      OBVIOUS
  <2>2. /\ t \in Seq({w, e}) /\ Len(t) = 2 /\ t[1] = w /\ t[2] = e
      OBVIOUS
  <2> HIDE DEF s, t
  <2>3. \A i \in 1..Len(s) : s[i] = t[i]
      BY <2>1, <2>2
  <2>4. s = t
      BY <2>1, <2>2, <2>3, SeqEqual
  <2>5. QED
      BY <2>4 DEF s, t
<1>2. Tail(<<w, e>>) = <<e>>
  <2> DEFINE s == Tail(<<w, e>>)
             t == <<e>>
  <2>1. /\ s \in Seq({w, e}) /\ Len(s) = 1 /\ s[1] = e
      OBVIOUS
  <2>2. /\ t \in Seq({w, e}) /\ Len(t) = 1 /\ t[1] = e
      OBVIOUS
  <2> HIDE DEF s, t
  <2>3. \A i \in 1..Len(s) : s[i] = t[i]
      BY <2>1, <2>2
  <2>4. s = t
      BY <2>1, <2>2, <2>3, SeqEqual
  <2>5. QED
      BY <2>4 DEF s, t
<1>3. Head(<<w>>) = w /\ Tail(<<w>>) = <<>> /\ Head(<<w, e>>) = w
    OBVIOUS
<1>4. QED
    BY <1>1, <1>2, <1>3

\* A transaction that is queued behind the one that waits, if any.
Queued(e, before, after) ==
    \/ before = <<>> /\ after = <<e>>
    \/ \E w : IsWrite(w) /\ w.by # e.by /\ before = <<w>> /\ after = <<w, e>>

\* A task that does not wait queues a transaction behind that of the other one.
LEMMA QueueFits ==
    ASSUME AtMostTwo, NEW e, IsWrite(e), \A i \in DOMAIN writes : writes[i].by # e.by
    PROVE  Queued(e, writes, Append(writes, e))
<1>1. CASE writes = <<>>
  <2>1. Append(<<>>, e) = <<e>>
      OBVIOUS
  <2>2. QED
      BY <1>1, <2>1 DEF Queued
<1>2. CASE \E w : IsWrite(w) /\ writes = <<w>>
  <2>1. PICK w : IsWrite(w) /\ writes = <<w>>
      BY <1>2
  <2>2. w.by # e.by
    <3>1. 1 \in DOMAIN writes /\ writes[1] = w
        BY <2>1
    <3>2. QED
        BY <3>1
  <2>3. Append(<<w>>, e) = <<w, e>>
      BY Pairs
  <2>4. Append(writes, e) = <<w, e>>
      BY <2>1, <2>3
  <2>5. QED
      BY <2>1, <2>2, <2>4 DEF Queued
<1>3. CASE \E w, x : IsWrite(w) /\ IsWrite(x) /\ w.by # x.by /\ writes = <<w, x>>
  <2>1. PICK w, x : IsWrite(w) /\ IsWrite(x) /\ w.by # x.by /\ writes = <<w, x>>
      BY <1>3
  <2>2. 1 \in DOMAIN writes /\ writes[1] = w /\ 2 \in DOMAIN writes /\ writes[2] = x
      BY <2>1
  <2>3. w.by # e.by /\ x.by # e.by
      BY <2>2
  <2>4. QED
      BY <2>1, <2>3 DEF IsWrite
<1>4. QED
    BY <1>1, <1>2, <1>3 DEF AtMostTwo

-----------------------------------------------------------------------------

(* What a task computes, queued.                                           *)

\* The operations that a tracker issues for groups, queued behind what the
\* tracker remembers: the tables will agree with it again.
LEMMA TrackedAgrees ==
    ASSUME NEW d, Shaped(MaxTs, d), Consistent(MaxTs, Readings, d),
           NEW t, Remembers(t, d), KnownTags(Readings, t.latest),
           NEW groups, Len(groups) \in Nat,
           \A i \in 1..Len(groups) : IsGroup(MaxTs, Readings, groups[i]),
           NEW w, w.groups = TrackAll(t, groups).ops, w.seen \in 0..MaxTs
    PROVE  /\ Consistent(MaxTs, Readings, Applied(d, w))
           /\ Remembers(TrackAll(t, groups).trk, Applied(d, w))
<1> DEFINE tracked == TrackAll(t, groups)
           e == Transaction(d, tracked.ops, w.gaps, w.seen)
<1>1. MaxTs \in Nat /\ w.seen \in Nat /\ \A i \in 1..Len(groups) : IsGroup(MaxTs, Readings, groups[i])
    BY Bounds
<1>2. Applied(d, w) = e
    BY DEF Applied
<1> HIDE DEF tracked, e
<1>3. Consistent(MaxTs, Readings, e) /\ Remembers(tracked.trk, e)
    BY <1>1, TransactionTracked DEF tracked, e
<1>4. QED
    BY <1>2, <1>3 DEF tracked

\* The tables ahead, for none and one that wait ...
LEMMA AheadOf ==
    ASSUME NEW d, NEW w
    PROVE  /\ Len(<<>>) = 0 /\ Len(<<w>>) = 1
           /\ Ahead(d, <<>>, 0) = d
           /\ Ahead(d, <<w>>, 0) = d /\ Ahead(d, <<w>>, 1) = Applied(d, w)
BY DEF Ahead

\* ... and for two that wait.
LEMMA AheadOfTwo ==
    ASSUME NEW d, NEW w, NEW x
    PROVE  /\ Len(<<w, x>>) = 2
           /\ Ahead(d, <<w, x>>, 0) = d /\ Ahead(d, <<w, x>>, 1) = Applied(d, w)
           /\ Ahead(d, <<w, x>>, 2) = Applied(Applied(d, w), x)
BY DEF Ahead

\* The same for the gap: none or one that waits, ...
LEMMA OpenGapOf ==
    ASSUME NEW o, NEW w
    PROVE  /\ Len(<<>>) = 0 /\ Len(<<w>>) = 1 /\ <<w>>[1] = w
           /\ OpenGap(o, <<>>, 0) = o
           /\ OpenGap(o, <<w>>, 0) = o /\ OpenGap(o, <<w>>, 1) = Moved(o, w.gaps)
BY DEF OpenGap

\* ... and two.
LEMMA OpenGapOfTwo ==
    ASSUME NEW o, NEW w, NEW x
    PROVE  /\ Len(<<w, x>>) = 2 /\ <<w, x>>[1] = w /\ <<w, x>>[2] = x
           /\ OpenGap(o, <<w, x>>, 0) = o /\ OpenGap(o, <<w, x>>, 1) = Moved(o, w.gaps)
           /\ OpenGap(o, <<w, x>>, 2) = Moved(Moved(o, w.gaps), x.gaps)
BY DEF OpenGap

\* Agree, for none and one that wait ...
LEMMA AgreeCases ==
    ASSUME NEW d, NEW w, NEW t, NEW running \in BOOLEAN
    PROVE  /\ Agree(d, <<>>, t, running) <=>
                 Consistent(MaxTs, Readings, d) /\ (running => Remembers(t, d))
           /\ Agree(d, <<w>>, t, running) <=>
                 /\ Consistent(MaxTs, Readings, d)
                 /\ Consistent(MaxTs, Readings, Applied(d, w))
                 /\ running => Remembers(t, Applied(d, w))
<1>1. Agree(d, <<>>, t, running) <=>
          Consistent(MaxTs, Readings, d) /\ (running => Remembers(t, d))
  <2>1. \A n \in 0..0 : n = 0
      OBVIOUS
  <2>2. 0 \in 0..0
      OBVIOUS
  <2>3. QED
      BY <2>1, <2>2, AheadOf DEF Agree
<1>2. Agree(d, <<w>>, t, running) <=>
          /\ Consistent(MaxTs, Readings, d)
          /\ Consistent(MaxTs, Readings, Applied(d, w))
          /\ running => Remembers(t, Applied(d, w))
  <2>1. \A n \in 0..1 : n = 0 \/ n = 1
      OBVIOUS
  <2>2. 0 \in 0..1 /\ 1 \in 0..1
      OBVIOUS
  <2>3. QED
      BY <2>1, <2>2, AheadOf DEF Agree
<1>3. QED
    BY <1>1, <1>2

\* ... for two.
LEMMA AgreeTwo ==
    ASSUME NEW d, NEW w, NEW x, NEW t, NEW running \in BOOLEAN
    PROVE  Agree(d, <<w, x>>, t, running) <=>
              /\ Consistent(MaxTs, Readings, d)
              /\ Consistent(MaxTs, Readings, Applied(d, w))
              /\ Consistent(MaxTs, Readings, Applied(Applied(d, w), x))
              /\ running => Remembers(t, Applied(Applied(d, w), x))
<1> DEFINE ws == <<w, x>>
<1>1. \A n \in 0..2 : n = 0 \/ n = 1 \/ n = 2
    OBVIOUS
<1>2. 0 \in 0..2 /\ 1 \in 0..2 /\ 2 \in 0..2
    OBVIOUS
<1>3. /\ Len(ws) = 2 /\ Ahead(d, ws, 0) = d /\ Ahead(d, ws, 1) = Applied(d, w)
      /\ Ahead(d, ws, 2) = Applied(Applied(d, w), x)
    BY AheadOfTwo
<1> HIDE DEF ws
<1>4. Agree(d, ws, t, running) <=>
          /\ \A n \in 0..2 : Consistent(MaxTs, Readings, Ahead(d, ws, n))
          /\ running => Remembers(t, Ahead(d, ws, 2))
    BY <1>3 DEF Agree
<1>5. QED
    BY <1>1, <1>2, <1>3, <1>4 DEF ws

\* KnowsGap, for none and one that wait ...
LEMMA KnowsGapCases ==
    ASSUME NEW o, NEW w, NEW g
    PROVE  /\ KnowsGap(o, <<>>, g) <=> o = g
           /\ KnowsGap(o, <<w>>, g) <=> Legal(o, w.gaps) /\ Moved(o, w.gaps) = g
<1>1. KnowsGap(o, <<>>, g) <=> o = g
  <2>1. \A n : n \notin 1..0
      OBVIOUS
  <2>2. QED
      BY <2>1, OpenGapOf DEF KnowsGap
<1>2. KnowsGap(o, <<w>>, g) <=> Legal(o, w.gaps) /\ Moved(o, w.gaps) = g
  <2> DEFINE ws == <<w>>
  <2>1. (\A n \in 1..1 : n = 1) /\ 1 \in 1..1 /\ 1 - 1 = 0
      OBVIOUS
  <2>2. Len(ws) = 1 /\ OpenGap(o, ws, 0) = o /\ OpenGap(o, ws, 1) = Moved(o, w.gaps) /\ ws[1] = w
      BY OpenGapOf
  <2> HIDE DEF ws
  <2>3. KnowsGap(o, ws, g) <=>
            /\ \A n \in 1..1 : Legal(OpenGap(o, ws, n - 1), ws[n].gaps)
            /\ OpenGap(o, ws, 1) = g
      BY <2>2 DEF KnowsGap
  <2>4. QED
      BY <2>1, <2>2, <2>3 DEF ws
<1>3. QED
    BY <1>1, <1>2

\* ... and for two.
LEMMA KnowsGapTwo ==
    ASSUME NEW o, NEW w, NEW x, NEW g
    PROVE  KnowsGap(o, <<w, x>>, g) <=>
              /\ Legal(o, w.gaps) /\ Legal(Moved(o, w.gaps), x.gaps)
              /\ Moved(Moved(o, w.gaps), x.gaps) = g
<1> DEFINE ws == <<w, x>>
<1>1. (\A n \in 1..2 : n = 1 \/ n = 2) /\ 1 \in 1..2 /\ 2 \in 1..2 /\ 1 - 1 = 0 /\ 2 - 1 = 1
    OBVIOUS
<1>2. /\ Len(ws) = 2 /\ OpenGap(o, ws, 0) = o /\ OpenGap(o, ws, 1) = Moved(o, w.gaps)
      /\ OpenGap(o, ws, 2) = Moved(Moved(o, w.gaps), x.gaps) /\ ws[1] = w /\ ws[2] = x
    BY OpenGapOfTwo
<1> HIDE DEF ws
<1>3. KnowsGap(o, ws, g) <=>
          /\ \A n \in 1..2 : Legal(OpenGap(o, ws, n - 1), ws[n].gaps)
          /\ OpenGap(o, ws, 2) = g
    BY <1>2 DEF KnowsGap
<1>4. QED
    BY <1>1, <1>2, <1>3 DEF ws

\* The consumer and the ticker: groups through the tracker, operations of the
\* watchdog, and one transaction for both, or none.
LEMMA IssuedKeeps ==
    ASSUME TypeInv, StoreInv, GapInv, up, up' = TRUE, db' = db, excused' = excused,
           NEW by \in {"consumer", "ticker"}, ~Waiting(by),
           NEW groups, Len(groups) \in Nat,
           \A i \in 1..Len(groups) : IsGroup(MaxTs, Readings, groups[i]),
           trk' = TrackAll(trk, groups).trk,
           NEW gapOps \in GapOps, Legal(wd.gapStart, gapOps),
           Moved(wd.gapStart, gapOps) = wd'.gapStart,
           maxTs' \in 0..MaxTs, DOMAIN pending' \subseteq Instant,
           Queue(by, gapOps, TrackAll(trk, groups).ops, FALSE)
    PROVE  AtMostTwo' /\ MemoryShaped(trk') /\ StoreInv' /\ GapInv'
<1> DEFINE ops == TrackAll(trk, groups).ops
           open == OpenIn(db.gaps)
<1>1. AtMostTwo /\ MemoryShaped(trk) /\ Stored(db)
    BY DEF TypeInv
<1>2. /\ MemoryShaped(trk') /\ Len(ops) \in Nat /\ DOMAIN ops = 1..Len(ops) /\ Len(ops) = Len(groups)
      /\ \A i \in 1..Len(ops) : ops[i].ts \in Instant
  <2> HIDE DEF ops
  <2>1. /\ MemoryShaped(TrackAll(trk, groups).trk)
        /\ Len(TrackAll(trk, groups).ops) = Len(groups)
        /\ DOMAIN TrackAll(trk, groups).ops = 1..Len(groups)
        /\ \A i \in 1..Len(groups) : TrackAll(trk, groups).ops[i].ts \in Instant
      BY <1>1, TrackedFits
  <2>2. QED
      BY <2>1 DEF ops
<1>3. MaxTs \in Nat /\ KnownTags(Readings, trk.latest) /\ Shaped(MaxTs, db)
    BY <1>1, Bounds DEF MemoryShaped, Stored
<1>groups. \A i \in 1..Len(groups) : IsGroup(MaxTs, Readings, groups[i])
    OBVIOUS
<1>4. \/ writes' = writes /\ gapOps = <<>> /\ \A i \in 1..Len(ops) : ~HasOps(ops[i])
      \/ \E e : IsWrite(e) /\ e.gaps = gapOps /\ e.groups = ops /\ Queued(e, writes, writes')
  <2>1. Queue(by, gapOps, ops, FALSE)
      OBVIOUS
  <2> HIDE DEF ops
  <2>2. /\ AtMostTwo /\ ~Waiting(by) /\ maxTs' \in 0..MaxTs /\ DOMAIN pending' \subseteq Instant
        /\ gapOps \in GapOps /\ Len(ops) \in Nat /\ DOMAIN ops = 1..Len(ops)
      BY <1>1, <1>2
  <2>3. \A i \in 1..Len(ops) : ops[i].ts \in Instant
      BY <1>2
  <2> DEFINE seen == SafeLastSeen(maxTs', pending')
             someOps == gapOps # <<>> \/ \E i \in DOMAIN ops : HasOps(ops[i])
  <2>4. seen \in 0..MaxTs /\ 0 \in 0..MaxTs
      BY <2>2, SafeSeen, Bounds
  <2> HIDE DEF open, seen, someOps
  <2>5. PICK due \in BOOLEAN :
            LET write == IF seen > writtenTs /\ (someOps \/ due) THEN seen ELSE Never
            IN  writes' = IF ~someOps /\ write = Never THEN writes
                          ELSE Append(writes, [by |-> by, gaps |-> gapOps, groups |-> ops,
                                               seen |-> write])
      BY <2>1 DEF Queue, seen, someOps
  <2>6. PICK write \in 0..MaxTs :
            writes' = IF ~someOps /\ write = Never THEN writes
                      ELSE Append(writes, [by |-> by, gaps |-> gapOps, groups |-> ops,
                                           seen |-> write])
      BY <2>4, <2>5
  <2>7. CASE ~someOps /\ write = Never
    <3>1. writes' = writes
        BY <2>6, <2>7
    <3>2. QED
        BY <2>2, <2>7, <3>1 DEF someOps
  <2>8. CASE ~(~someOps /\ write = Never)
    <3> DEFINE e == [by |-> by, gaps |-> gapOps, groups |-> ops, seen |-> write]
    <3>1. e.by = by /\ e.gaps = gapOps /\ e.groups = ops /\ e.seen = write
        OBVIOUS
    <3>2. writes' = Append(writes, e)
        BY <2>6, <2>8
    <3> HIDE DEF e
    <3>3. IsWrite(e)
        BY <2>2, <2>3, <3>1 DEF IsWrite, Carries
    <3>4. \A i \in DOMAIN writes : writes[i].by # e.by
        BY <2>2, <3>1 DEF Waiting
    <3>5. Queued(e, writes, Append(writes, e))
        BY <2>2, <3>3, <3>4, QueueFits
    <3>6. QED
        BY <3>1, <3>2, <3>3, <3>5
  <2>9. QED
      BY <2>7, <2>8
<1>5. CASE writes' = writes /\ gapOps = <<>> /\ \A i \in 1..Len(ops) : ~HasOps(ops[i])
  <2>1. AtMostTwo'
      BY <1>1, <1>5 DEF AtMostTwo
  <2>2. ASSUME NEW d, Consistent(MaxTs, Readings, d), Remembers(trk, d)
        PROVE  Remembers(trk', d)
    <3>1. \A i \in 1..Len(groups) : ~HasOps(TrackAll(trk, groups).ops[i])
        BY <1>2, <1>5
    <3> HIDE DEF ops
    <3>2. Remembers(TrackAll(trk, groups).trk, d)
        BY <1>3, <1>groups, <2>2, <3>1, NothingTracked
    <3>3. QED
        BY <3>2
  <2>3. StoreInv'
    <3>1. SUFFICES ASSUME "write cancelled" \notin excused, Agree(db, writes, trk, TRUE)
                   PROVE  Agree(db, writes, trk', TRUE)
        BY <1>5 DEF StoreInv
    <3>2. Len(writes) \in 0..Len(writes)
        BY <1>1, AheadOf, AheadOfTwo DEF AtMostTwo
    <3>3. QED
        BY <2>2, <3>1, <3>2 DEF Agree
  <2>4. GapInv'
      BY <1>5 DEF GapInv, Moved
  <2>5. QED
      BY <1>2, <2>1, <2>3, <2>4
<1>6. ASSUME NEW e, IsWrite(e), e.gaps = gapOps, e.groups = ops, Queued(e, writes, writes')
      PROVE  AtMostTwo' /\ MemoryShaped(trk') /\ StoreInv' /\ GapInv'
  <2>1. Carries(e) /\ e.seen \in 0..MaxTs
      BY <1>6 DEF IsWrite, Carries
  <2>2. ASSUME NEW d, Shaped(MaxTs, d), Consistent(MaxTs, Readings, d), Remembers(trk, d)
        PROVE  Consistent(MaxTs, Readings, Applied(d, e)) /\ Remembers(trk', Applied(d, e))
    <3>1. e.groups = TrackAll(trk, groups).ops
        BY <1>6
    <3> HIDE DEF ops
    <3>2. /\ Consistent(MaxTs, Readings, Applied(d, e))
          /\ Remembers(TrackAll(trk, groups).trk, Applied(d, e))
        BY <1>3, <1>groups, <2>1, <2>2, <3>1, TrackedAgrees
    <3>3. QED
        BY <3>2
  <2> HIDE DEF ops
  <2>3. CASE writes = <<>> /\ writes' = <<e>>
    <3>1. AtMostTwo'
        BY <1>6, <2>3 DEF AtMostTwo
    <3>2. StoreInv'
      <4>1. SUFFICES ASSUME "write cancelled" \notin excused, Agree(db, <<>>, trk, TRUE)
                     PROVE  Agree(db, <<e>>, trk', TRUE)
          BY <2>3 DEF StoreInv
      <4>2. Consistent(MaxTs, Readings, db) /\ Remembers(trk, db)
          BY <4>1, AgreeCases
      <4>3. Consistent(MaxTs, Readings, Applied(db, e)) /\ Remembers(trk', Applied(db, e))
          BY <1>3, <2>2, <4>2
      <4>4. QED
          BY <4>2, <4>3, AgreeCases
    <3>3. GapInv'
      <4>1. SUFFICES ASSUME excused = {}, KnowsGap(open, <<>>, wd.gapStart)
                     PROVE  KnowsGap(open, <<e>>, wd'.gapStart)
          BY <2>3 DEF GapInv
      <4>2. open = wd.gapStart
        <5> HIDE DEF open
        <5>1. QED
            BY <4>1, KnowsGapCases
      <4>3. Legal(open, e.gaps) /\ Moved(open, e.gaps) = wd'.gapStart
          BY <1>6, <4>2
      <4> HIDE DEF open
      <4>4. QED
          BY <4>3, KnowsGapCases
    <3>4. QED
        BY <1>2, <3>1, <3>2, <3>3
  <2>4. CASE \E w : IsWrite(w) /\ w.by # e.by /\ writes = <<w>> /\ writes' = <<w, e>>
    <3>1. PICK w : IsWrite(w) /\ w.by # e.by /\ writes = <<w>> /\ writes' = <<w, e>>
        BY <2>4
    <3>2. AtMostTwo'
        BY <1>6, <3>1 DEF AtMostTwo
    <3>3. StoreInv'
      <4>1. SUFFICES ASSUME "write cancelled" \notin excused, Agree(db, <<w>>, trk, TRUE)
                     PROVE  Agree(db, <<w, e>>, trk', TRUE)
          BY <3>1 DEF StoreInv
      <4> DEFINE d == Applied(db, w)
      <4>2. Consistent(MaxTs, Readings, db) /\ Consistent(MaxTs, Readings, d) /\ Remembers(trk, d)
          BY <4>1, AgreeCases
      <4>3. Shaped(MaxTs, d)
          BY <1>1, <3>1, AppliedFits DEF IsWrite
      <4> HIDE DEF d
      <4>4. Consistent(MaxTs, Readings, Applied(d, e)) /\ Remembers(trk', Applied(d, e))
          BY <2>2, <4>2, <4>3
      <4>5. QED
          BY <4>2, <4>4, AgreeTwo DEF d
    <3>4. GapInv'
      <4>1. SUFFICES ASSUME excused = {}, KnowsGap(open, <<w>>, wd.gapStart)
                     PROVE  KnowsGap(open, <<w, e>>, wd'.gapStart)
          BY <3>1 DEF GapInv
      <4> DEFINE next == Moved(open, w.gaps)
      <4>2. Legal(open, w.gaps) /\ next = wd.gapStart
          BY <4>1, KnowsGapCases
      <4> HIDE DEF next
      <4>3. Legal(next, e.gaps) /\ Moved(next, e.gaps) = wd'.gapStart
          BY <1>6, <4>2
      <4> HIDE DEF open
      <4>4. QED
          BY <4>2, <4>3, KnowsGapTwo DEF next
    <3>5. QED
        BY <1>2, <3>2, <3>3, <3>4
  <2>5. QED
      BY <1>6, <2>3, <2>4 DEF Queued
<1> HIDE DEF ops
<1>7. QED
    BY <1>4, <1>5, <1>6

-----------------------------------------------------------------------------

(* Each action keeps the invariant.                                        *)

\* The simulated time is an instant, and the cell has an image.
LEMMA ClockFits ==
    ASSUME TypeInv
    PROVE  /\ Len(plc) \in Nat \ {0} /\ Clock \in Instant
           /\ Now \in [TagsOf["CELL"] -> Readings] /\ DOMAIN Now = TagsOf["CELL"]
<1>1. plc \in Seq(CellImage) /\ plc # <<>> /\ Clock <= MaxTs
    BY DEF TypeInv
<1>2. Len(plc) \in Nat \ {0}
    BY <1>1
<1>3. Clock \in Instant
    BY <1>1, <1>2, Bounds DEF Clock, Instant
<1>4. Now \in CellImage
    BY <1>1, <1>2 DEF Now
<1>5. DOMAIN Now = TagsOf["CELL"]
    BY <1>4, CollectorAssumption
<1>6. \A tag \in TagsOf["CELL"] : Now[tag] \in Readings
    BY <1>4 DEF Readings
<1>7. Now = [tag \in TagsOf["CELL"] |-> Now[tag]]
    BY <1>4, CollectorAssumption
<1>8. QED
    BY <1>2, <1>3, <1>5, <1>6, <1>7

\* What agrees goes on agreeing as long as no transaction is queued or ends.
LEMMA NothingIssued ==
    ASSUME StoreInv, GapInv, UNCHANGED <<up, trk, writes, db, excused>>,
           wd'.gapStart = wd.gapStart
    PROVE  StoreInv' /\ GapInv'
BY DEF StoreInv, GapInv

\* The notifications of some tags, in any order, are notifications.
LEMMA SomeOrder ==
    ASSUME NEW S \in SUBSET Notices, IsFiniteSet(S), NEW seq \in InSomeOrder(S)
    PROVE  seq \in Seq(Notices)
<1>1. seq \in [1..Cardinality(S) -> S]
    BY DEF InSomeOrder, SetToSeqs
<1>2. Cardinality(S) \in Nat
    BY FS_CardinalityType
<1>3. QED
    BY <1>1, <1>2

\* A notice for each of some tags ...
NoticesOf(S, value, ts) == {Notice(tag, value[tag], ts[tag]) : tag \in S}

\* ... these are finitely many.
LEMMA FiniteNotices ==
    ASSUME NEW S \in SUBSET TagsOf["CELL"], NEW value, NEW ts
    PROVE  IsFiniteSet(NoticesOf(S, value, ts))
<1> DEFINE f == [tag \in S |-> Notice(tag, value[tag], ts[tag])]
           T == NoticesOf(S, value, ts)
<1>1. IsFiniteSet(S)
    BY CollectorAssumption, FS_Subset
<1>2. f \in Surjection(S, T)
    BY DEF Surjection, NoticesOf
<1> HIDE DEF f, T
<1>3. IsFiniteSet(T)
    BY <1>1, <1>2, FS_Surjection
<1>4. QED
    BY <1>3 DEF T

\* The first subscription sends the heartbeat.
LEMMA SubscribeFastKeeps ==
    ASSUME CollectorInv, SubscribeFast
    PROVE  CollectorInv'
<1>1. TypeInv /\ StoreInv /\ GapInv
    BY DEF CollectorInv
<1>2. Beat(Clock) \in Notices
    BY <1>1, ClockFits DEF Beat, Notice, Notices
<1>3. wire' \in Seq(Notices)
    BY <1>1, <1>2 DEF TypeInv, SubscribeFast
<1>4. TypeInv'
    BY <1>1, <1>3 DEF TypeInv, SubscribeFast, Links, plcVars, asmVars, memVars, counts, aux,
       AtMostTwo, Asm!AssemblerTypeOK, Clock
<1>5. UNCHANGED <<up, trk, writes, db, excused, wd>>
    BY DEF SubscribeFast, memVars, aux
<1>6. StoreInv' /\ GapInv'
    BY <1>1, <1>5, NothingIssued
<1>7. QED
    BY <1>4, <1>6 DEF CollectorInv

\* A connected watchdog knows the same gap.
LEMMA OnConnectedKeeps ==
    ASSUME CollectorInv, OnConnected
    PROVE  CollectorInv'
<1>1. TypeInv /\ StoreInv /\ GapInv
    BY DEF CollectorInv
<1>2. wd' \in Watchdogs /\ wd'.gapStart = wd.gapStart
  <2>1. wd \in Watchdogs /\ 0 \in 0..(Timeout + 1)
      BY <1>1, Bounds DEF TypeInv
  <2>2. QED
      BY <2>1 DEF OnConnected, Wd!Connected, Watchdogs
<1>3. TypeInv'
    BY <1>1, <1>2 DEF TypeInv, OnConnected, Links, plcVars, asmVars, counts, aux,
       AtMostTwo, Asm!AssemblerTypeOK, Clock
<1>4. UNCHANGED <<up, trk, writes, db, excused>>
    BY DEF OnConnected, aux
<1>5. StoreInv' /\ GapInv'
    BY <1>1, <1>2, <1>4, NothingIssued
<1>6. QED
    BY <1>3, <1>5 DEF CollectorInv

\* A lost session loses the end of what was on the wire.
LEMMA DisconnectKeeps ==
    ASSUME CollectorInv, Disconnect
    PROVE  CollectorInv'
<1>1. TypeInv /\ StoreInv /\ GapInv
    BY DEF CollectorInv
<1>2. wire' \in Seq(Notices)
  <2>1. wire \in Seq(Notices)
      BY <1>1 DEF TypeInv
  <2>2. PICK k \in 0..Len(wire) : wire' = SubSeq(wire, 1, k)
      BY DEF Disconnect
  <2>3. QED
      BY <2>1, <2>2
<1>3. TypeInv'
    BY <1>1, <1>2 DEF TypeInv, Disconnect, Links, plcVars, asmVars, memVars, aux,
       AtMostTwo, Asm!AssemblerTypeOK, Clock
<1>4. UNCHANGED <<up, trk, writes, db, excused, wd>>
    BY DEF Disconnect, memVars, aux
<1>5. StoreInv' /\ GapInv'
    BY <1>1, <1>4, NothingIssued
<1>6. QED
    BY <1>3, <1>5 DEF CollectorInv

\* Time passes for the assembler and the watchdog alone.
LEMMA ElapseKeeps ==
    ASSUME CollectorInv, Elapse
    PROVE  CollectorInv'
<1>1. TypeInv /\ StoreInv /\ GapInv
    BY DEF CollectorInv
<1>2. wd' \in Watchdogs /\ wd'.gapStart = wd.gapStart
  <2>1. wd \in Watchdogs /\ wd' = Wd!Quiet(wd) /\ Timeout \in Nat
      BY <1>1, Bounds DEF TypeInv, Elapse
  <2>2. CASE wd.silence > Timeout
      BY <2>1, <2>2 DEF Wd!Quiet
  <2>3. CASE ~(wd.silence > Timeout)
    <3>1. wd.silence + 1 \in 0..(Timeout + 1)
        BY <2>1, <2>3, WatchdogFields
    <3>2. wd' = [wd EXCEPT !.silence = @ + 1]
        BY <2>1, <2>3 DEF Wd!Quiet
    <3>3. QED
        BY <2>1, <3>1, <3>2 DEF Watchdogs
  <2>4. QED
      BY <2>2, <2>3
<1>3. Asm!AssemblerTypeOK(Held)'
  <2>1. Asm!AssemblerTypeOK(Held) /\ Asm!AssemblerWaits /\ UNCHANGED <<pending, releasedUpTo>>
      BY <1>1 DEF TypeInv, Elapse
  <2>2. waited' \in [DOMAIN pending -> 0..SettleTime]
      BY <2>1, Bounds DEF Asm!AssemblerTypeOK, Asm!AssemblerWaits
  <2>3. QED
      BY <2>1, <2>2 DEF Asm!AssemblerTypeOK
<1>4. TypeInv'
    BY <1>1, <1>2, <1>3 DEF TypeInv, Elapse, plcVars, netVars, counts, aux, AtMostTwo, Clock
<1>5. UNCHANGED <<up, trk, writes, db, excused>>
    BY DEF Elapse, aux
<1>6. StoreInv' /\ GapInv'
    BY <1>1, <1>2, <1>5, NothingIssued
<1>7. QED
    BY <1>4, <1>6 DEF CollectorInv

\* The cell moves on: what changed is sent, with the new instant.
LEMMA PlcStepKeeps ==
    ASSUME CollectorInv, PlcStep
    PROVE  CollectorInv'
<1>1. TypeInv /\ StoreInv /\ GapInv
    BY DEF CollectorInv
<1> DEFINE ts == Clock + 2
<1>2. ts \in Instant
    BY <1>1, ClockFits, Bounds DEF PlcStep, Instant
<1>3. PICK image \in CellImage :
          /\ plc' = Append(plc, image)
          /\ \E seq \in InSomeOrder(
                 (IF link = "down" THEN {} ELSE {Beat(ts)})
                     \cup (IF link \in {"down", "fast"} THEN {}
                           ELSE {Notice(tag, image[tag], ts) :
                                    tag \in {tag \in DOMAIN image : image[tag] # Now[tag]}})) :
                wire' = wire \o seq
    BY DEF PlcStep
<1> DEFINE changed == {tag \in DOMAIN image : image[tag] # Now[tag]}
           beats == IF link = "down" THEN {} ELSE {Beat(ts)}
           notices == {Notice(tag, image[tag], ts) : tag \in changed}
           others == IF link \in {"down", "fast"} THEN {} ELSE notices
           sent == beats \cup others
<1>4. PICK seq \in InSomeOrder(sent) : wire' = wire \o seq
    BY <1>3
<1>5. changed \in SUBSET TagsOf["CELL"] /\ \A tag \in changed : image[tag] \in Readings
    BY CollectorAssumption DEF Readings
<1> HIDE DEF ts, changed
<1>6. IsFiniteSet(notices)
  <2> DEFINE stamp == [tag \in changed |-> ts]
  <2>1. notices = NoticesOf(changed, image, stamp)
      BY DEF NoticesOf
  <2> HIDE DEF stamp, notices
  <2>2. IsFiniteSet(NoticesOf(changed, image, stamp))
      BY <1>5, FiniteNotices
  <2>3. QED
      BY <2>1, <2>2
<1>7. notices \in SUBSET Notices /\ Beat(ts) \in Notices
    BY <1>2, <1>5 DEF Notice, Beat, Notices, CellNotices
<1> HIDE DEF notices
<1>8. IsFiniteSet(beats) /\ IsFiniteSet(others)
    BY <1>6, FS_EmptySet, FS_Singleton
<1>9. IsFiniteSet(sent) /\ sent \in SUBSET Notices
    BY <1>7, <1>8, FS_Union
<1> HIDE DEF sent
<1>10. wire' \in Seq(Notices)
  <2>1. wire \in Seq(Notices) /\ seq \in Seq(Notices)
      BY <1>1, <1>4, <1>9, SomeOrder DEF TypeInv
  <2>2. QED
      BY <1>4, <2>1
<1>11. plc' \in Seq(CellImage) /\ plc' # <<>> /\ Clock' <= MaxTs
  <2>1. plc \in Seq(CellImage) /\ Clock + 2 <= MaxTs
      BY <1>1 DEF TypeInv, PlcStep
  <2>2. plc' \in Seq(CellImage) /\ plc' # <<>> /\ Len(plc') = Len(plc) + 1 /\ Len(plc) \in Nat
      BY <1>3, <2>1
  <2>3. QED
      BY <2>1, <2>2, Bounds DEF Clock
<1>12. TypeInv'
    BY <1>1, <1>10, <1>11 DEF TypeInv, PlcStep, asmVars, memVars, counts, aux,
       AtMostTwo, Asm!AssemblerTypeOK
<1>13. UNCHANGED <<up, trk, writes, db, excused, wd>>
    BY DEF PlcStep, memVars, aux
<1>14. StoreInv' /\ GapInv'
    BY <1>1, <1>13, NothingIssued
<1>15. QED
    BY <1>12, <1>14 DEF CollectorInv

\* The timestamp of a present value is an instant.
LEMMA ChangedFits ==
    ASSUME TypeInv, NEW tag
    PROVE  ChangedAt(tag) \in Instant
<1> DEFINE S == {i \in 1..Len(plc) : i = 1 \/ plc[i][tag] # plc[i - 1][tag]}
<1>1. Len(plc) \in Nat \ {0} /\ Clock \in Instant
    BY ClockFits
<1>2. S \in SUBSET (1..Len(plc)) /\ 1 \in S
    BY <1>1
<1>3. ChangedAt(tag) = 2 * Max(S)
    BY DEF ChangedAt
<1> HIDE DEF S
<1>4. Max(S) \in S
    BY <1>1, <1>2, MaxOfBounded
<1> DEFINE m == Max(S)
<1>5. m \in 1..Len(plc)
    BY <1>2, <1>4
<1> HIDE DEF m
<1>6. 2 * m \in Instant
    BY <1>1, <1>5, Bounds DEF Clock, Instant
<1>7. QED
    BY <1>3, <1>6 DEF m

\* The second subscription sends the present image.
LEMMA SubscribeEventsKeeps ==
    ASSUME CollectorInv, SubscribeEvents
    PROVE  CollectorInv'
<1>1. TypeInv /\ StoreInv /\ GapInv
    BY DEF CollectorInv
<1> DEFINE notices == {Notice(tag, Now[tag], ChangedAt(tag)) : tag \in DOMAIN Now}
<1>2. DOMAIN Now = TagsOf["CELL"] /\ \A tag \in TagsOf["CELL"] : Now[tag] \in Readings
    BY <1>1, ClockFits
<1>3. notices \in SUBSET Notices
    BY <1>1, <1>2, ChangedFits DEF Notice, Notices, CellNotices
<1>4. IsFiniteSet(notices)
  <2> DEFINE tags == TagsOf["CELL"]
             stamp == [tag \in tags |-> ChangedAt(tag)]
  <2>1. notices = NoticesOf(tags, Now, stamp)
      BY <1>2 DEF NoticesOf
  <2> HIDE DEF stamp, notices
  <2>2. IsFiniteSet(NoticesOf(tags, Now, stamp))
      BY FiniteNotices
  <2>3. QED
      BY <2>1, <2>2
<1>5. PICK seq \in InSomeOrder(notices) : wire' = wire \o seq
    BY DEF SubscribeEvents
<1> HIDE DEF notices
<1>6. wire' \in Seq(Notices)
  <2>1. wire \in Seq(Notices) /\ seq \in Seq(Notices)
      BY <1>1, <1>3, <1>4, <1>5, SomeOrder DEF TypeInv
  <2>2. QED
      BY <1>5, <2>1
<1>7. TypeInv'
    BY <1>1, <1>6 DEF TypeInv, SubscribeEvents, Links, plcVars, asmVars, memVars, counts, aux,
       AtMostTwo, Asm!AssemblerTypeOK, Clock
<1>8. UNCHANGED <<up, trk, writes, db, excused, wd>>
    BY DEF SubscribeEvents, memVars, aux
<1>9. StoreInv' /\ GapInv'
    BY <1>1, <1>8, NothingIssued
<1>10. QED
    BY <1>7, <1>9 DEF CollectorInv

\* What the consumer takes from the wire.
LEMMA BatchFits ==
    ASSUME TypeInv, NEW n \in 1..Len(wire)
    PROVE  LET batch == SubSeq(wire, 1, n)
               stamps == {batch[i].ts : i \in 1..n}
               heartbeats == {i \in 1..n : batch[i].tag = Heartbeat}
               rest == At(batch, (1..n) \ heartbeats)
           IN  /\ stamps \in SUBSET Instant /\ stamps # {}
               /\ {batch[i].ts : i \in heartbeats} \in SUBSET Instant
               /\ \E m \in Nat : DOMAIN rest = 1..m /\ \A i \in 1..m : rest[i] \in CellNotices
               /\ SubSeq(wire, n + 1, Len(wire)) \in Seq(Notices)
<1> DEFINE batch == SubSeq(wire, 1, n)
           stamps == {batch[i].ts : i \in 1..n}
           heartbeats == {i \in 1..n : batch[i].tag = Heartbeat}
           places == (1..n) \ heartbeats
<1>1. wire \in Seq(Notices) /\ Len(wire) \in Nat /\ n \in Nat
    BY DEF TypeInv
<1>2. \A i \in 1..n : batch[i] \in Notices
    BY <1>1
<1>3. SubSeq(wire, n + 1, Len(wire)) \in Seq(Notices)
    BY <1>1
<1> HIDE DEF batch
<1>4. \A i \in 1..n : batch[i].ts \in Instant
    BY <1>2 DEF Notices, CellNotices
<1>5. \A i \in places : batch[i] \in CellNotices
    BY <1>2 DEF Notices
<1>6. 1 \in 1..n
    BY <1>1
<1>7. stamps \in SUBSET Instant /\ stamps # {} /\ {batch[i].ts : i \in heartbeats} \in SUBSET Instant
    BY <1>4, <1>6
<1>8. places \in SUBSET (1..n)
    OBVIOUS
<1> HIDE DEF places
<1>9. /\ Cardinality(places) \in Nat
      /\ DOMAIN At(batch, places) = 1..Cardinality(places)
      /\ \A i \in 1..Cardinality(places) : At(batch, places)[i] \in CellNotices
    BY <1>1, <1>5, <1>8, AtFits
<1>10. QED
    BY <1>3, <1>7, <1>9 DEF places, batch

\* seed() keeps what the watchdog knows of the gap.
LEMMA SeededFits ==
    ASSUME NEW w \in Watchdogs, NEW ts \in Instant
    PROVE  Wd!Seeded(w, ts) \in Watchdogs /\ Wd!Seeded(w, ts).gapStart = w.gapStart
<1>1. ts \in 0..MaxTs
    BY Bounds DEF Instant
<1>2. QED
    BY <1>1 DEF Wd!Seeded, Watchdogs

\* The consumer, on one batch.
LEMMA ProcessKeeps ==
    ASSUME CollectorInv, Process
    PROVE  CollectorInv'
<1>1. TypeInv /\ StoreInv /\ GapInv
    BY DEF CollectorInv
<1>2. PICK n \in {k \in 1..Len(wire) : Deliverable(k)} :
          LET batch == SubSeq(wire, 1, n)
              stamps == {batch[i].ts : i \in 1..n}
              heartbeats == {i \in 1..n : batch[i].tag = Heartbeat}
              beats == {batch[i].ts : i \in heartbeats}
              rest == At(batch, (1..n) \ heartbeats)
              seeded == IF firstRun THEN Wd!Seeded(wd, Min(stamps)) ELSE wd
              beaten == BeatAll(seeded, beats)
              tracked == TrackAll(trk, InOrder(Asm!FeedReturns(rest)))
          IN  /\ Asm!Feed(rest)
              /\ wd' = beaten.wd
              /\ trk' = tracked.trk
              /\ watchedFrom' = IF firstRun THEN Min(stamps) ELSE watchedFrom
              /\ maxTs' = Max(stamps \cup {maxTs})
              /\ Queue("consumer", beaten.ops, tracked.ops, FALSE)
              /\ wire' = SubSeq(wire, n + 1, Len(wire))
    BY DEF Process
<1> DEFINE batch == SubSeq(wire, 1, n)
           stamps == {batch[i].ts : i \in 1..n}
           heartbeats == {i \in 1..n : batch[i].tag = Heartbeat}
           beats == {batch[i].ts : i \in heartbeats}
           rest == At(batch, (1..n) \ heartbeats)
           first == Min(stamps)
           seeded == IF firstRun THEN Wd!Seeded(wd, first) ELSE wd
           beaten == BeatAll(seeded, beats)
           gapOps == beaten.ops
           groups == InOrder(Asm!FeedReturns(rest))
<1>3. /\ Asm!Feed(rest)
      /\ wd' = beaten.wd
      /\ trk' = TrackAll(trk, groups).trk
      /\ watchedFrom' = IF firstRun THEN first ELSE watchedFrom
      /\ maxTs' = Max(stamps \cup {maxTs})
      /\ Queue("consumer", gapOps, TrackAll(trk, groups).ops, FALSE)
      /\ wire' = SubSeq(wire, n + 1, Len(wire))
    BY <1>2
<1>4. /\ stamps \in SUBSET Instant /\ stamps # {} /\ beats \in SUBSET Instant
      /\ \E m \in Nat : DOMAIN rest = 1..m /\ \A i \in 1..m : rest[i] \in CellNotices
      /\ SubSeq(wire, n + 1, Len(wire)) \in Seq(Notices)
    BY <1>1, BatchFits
<1> HIDE DEF batch, stamps, heartbeats, beats, rest, first
<1>5. PICK m \in Nat : DOMAIN rest = 1..m /\ \A i \in 1..m : rest[i] \in CellNotices
    BY <1>4
<1>6. first \in Instant
  <2>1. stamps \in SUBSET Nat
      BY <1>4 DEF Instant
  <2>2. QED
      BY <1>4, <2>1, MinOfNaturals DEF first
<1>7. maxTs' \in 0..MaxTs
  <2>1. stamps \cup {maxTs} \in SUBSET (0..MaxTs) /\ stamps \cup {maxTs} # {}
      BY <1>1, <1>4 DEF TypeInv, Instant
  <2> DEFINE all == stamps \cup {maxTs}
  <2> HIDE DEF all
  <2>2. all \in SUBSET (0..MaxTs) /\ all # {} /\ maxTs' = Max(all)
      BY <1>3, <2>1 DEF all
  <2>3. Max(all) \in all
      BY <2>2, Bounds, MaxUpTo
  <2>4. QED
      BY <2>2, <2>3
<1>8. seeded \in Watchdogs /\ seeded.gapStart = wd.gapStart
    BY <1>1, <1>6, SeededFits DEF TypeInv
<1> HIDE DEF seeded
<1>9. /\ beaten.wd \in Watchdogs /\ gapOps \in GapOps
      /\ Legal(wd.gapStart, gapOps) /\ Moved(wd.gapStart, gapOps) = beaten.wd.gapStart
    BY <1>4, <1>8, BeatsFit
<1> HIDE DEF beaten, gapOps
<1>10. Asm!AssemblerTypeOK(Held)' /\ \A g \in Asm!FeedReturns(rest) : IsGroup(MaxTs, Readings, g)
  <2>1. Asm!AssemblerTypeOK(Held)
      BY <1>1 DEF TypeInv
  <2>2. QED
      BY <1>3, <1>5, <2>1, FeedFits
<1>11. Len(groups) \in Nat /\ \A i \in 1..Len(groups) : IsGroup(MaxTs, Readings, groups[i])
    BY <1>10, InOrderFits
<1> HIDE DEF groups
<1>12. DOMAIN pending' \subseteq Instant
    BY <1>10 DEF Asm!AssemblerTypeOK, Asm!Instant, Instant
<1>13. up /\ up' = TRUE /\ db' = db /\ excused' = excused /\ ~Waiting("consumer")
    BY <1>1 DEF Process, TypeInv
<1>14. AtMostTwo' /\ MemoryShaped(trk') /\ StoreInv' /\ GapInv'
  <2>1. /\ gapOps \in GapOps /\ Legal(wd.gapStart, gapOps) /\ Moved(wd.gapStart, gapOps) = wd'.gapStart
        /\ Queue("consumer", gapOps, TrackAll(trk, groups).ops, FALSE)
      BY <1>3, <1>9
  <2>2. trk' = TrackAll(trk, groups).trk
      BY <1>3
  <2>3. QED
      BY <1>1, <1>7, <1>11, <1>12, <1>13, <2>1, <2>2, IssuedKeeps
<1>15. watchedFrom' \in 0..MaxTs
    BY <1>1, <1>3, <1>6, Bounds DEF TypeInv, Instant
<1>16. wire' \in Seq(Notices) /\ wd' \in Watchdogs
    BY <1>3, <1>4, <1>9
<1>17. TypeInv'
    BY <1>1, <1>7, <1>10, <1>13, <1>14, <1>15, <1>16 DEF TypeInv, Process, plcVars, counts, Clock
<1>18. QED
    BY <1>14, <1>17 DEF CollectorInv

\* The ticker.
LEMMA TickKeeps ==
    ASSUME CollectorInv, Tick
    PROVE  CollectorInv'
<1>1. TypeInv /\ StoreInv /\ GapInv
    BY DEF CollectorInv
<1> DEFINE groups == InOrder(Asm!PollReturns)
           gapOps == Wd!PollOps(wd)
<1>2. /\ up /\ ~Waiting("ticker")
      /\ Asm!Poll
      /\ trk' = TrackAll(trk, groups).trk
      /\ wd' = Wd!AfterPoll(wd)
      /\ maxTs' = maxTs
      /\ Queue("ticker", gapOps, TrackAll(trk, groups).ops, FALSE)
    BY DEF Tick
<1>3. /\ Wd!AfterPoll(wd) \in Watchdogs /\ gapOps \in GapOps
      /\ Legal(wd.gapStart, gapOps) /\ Moved(wd.gapStart, gapOps) = Wd!AfterPoll(wd).gapStart
    BY <1>1, PollsFit DEF TypeInv
<1> HIDE DEF gapOps
<1>4. Asm!AssemblerTypeOK(Held)' /\ \A g \in Asm!PollReturns : IsGroup(MaxTs, Readings, g)
  <2>1. Asm!AssemblerTypeOK(Held)
      BY <1>1 DEF TypeInv
  <2>2. QED
      BY <1>2, <2>1, PollFits
<1>5. Len(groups) \in Nat /\ \A i \in 1..Len(groups) : IsGroup(MaxTs, Readings, groups[i])
    BY <1>4, InOrderFits
<1> HIDE DEF groups
<1>6. DOMAIN pending' \subseteq Instant
    BY <1>4 DEF Asm!AssemblerTypeOK, Asm!Instant, Instant
<1>7. up' = TRUE /\ db' = db /\ excused' = excused /\ maxTs' \in 0..MaxTs
    BY <1>1, <1>2 DEF Tick, TypeInv, aux
<1>8. AtMostTwo' /\ MemoryShaped(trk') /\ StoreInv' /\ GapInv'
  <2>1. /\ Moved(wd.gapStart, gapOps) = wd'.gapStart
        /\ trk' = TrackAll(trk, groups).trk
        /\ Queue("ticker", gapOps, TrackAll(trk, groups).ops, FALSE)
      BY <1>2, <1>3
  <2>2. QED
      BY <1>1, <1>2, <1>3, <1>5, <1>6, <1>7, <2>1, IssuedKeeps
<1>9. wd' \in Watchdogs
    BY <1>2, <1>3
<1>10. TypeInv'
    BY <1>1, <1>4, <1>7, <1>8, <1>9 DEF TypeInv, Tick, plcVars, netVars, counts, aux, Clock
<1>11. QED
    BY <1>8, <1>10 DEF CollectorInv

\* One transaction behind another one.
LEMMA OneAndOne ==
    ASSUME NEW w, NEW x
    PROVE  <<w>> \o <<x>> = <<w, x>>
<1> DEFINE s == <<w>> \o <<x>>
           t == <<w, x>>
<1>1. /\ <<w>> \in Seq({w, x}) /\ Len(<<w>>) = 1 /\ <<w>>[1] = w
      /\ <<x>> \in Seq({w, x}) /\ Len(<<x>>) = 1 /\ <<x>>[1] = x
    OBVIOUS
<1>2. /\ s \in Seq({w, x}) /\ Len(s) = 2 /\ s[1] = w /\ s[2] = x
  <2> DEFINE a == <<w>>
             b == <<x>>
  <2>1. /\ a \in Seq({w, x}) /\ Len(a) = 1 /\ a[1] = w
        /\ b \in Seq({w, x}) /\ Len(b) = 1 /\ b[1] = x
      BY <1>1
  <2> HIDE DEF a, b
  <2>2. /\ a \o b \in Seq({w, x}) /\ Len(a \o b) = 2
        /\ (a \o b)[1] = w /\ (a \o b)[2] = x
      BY <2>1, ConcatProperties
  <2>3. QED
      BY <2>2 DEF a, b
<1>3. /\ t \in Seq({w, x}) /\ Len(t) = 2 /\ t[1] = w /\ t[2] = x
    OBVIOUS
<1> HIDE DEF s, t
<1>4. \A i \in 1..Len(s) : s[i] = t[i]
    BY <1>2, <1>3
<1>5. s = t
    BY <1>2, <1>3, <1>4, SeqEqual
<1>6. QED
    BY <1>5 DEF s, t

\* What agrees on the tables as they are.
LEMMA AgreeNow ==
    ASSUME TypeInv, StoreInv, "write cancelled" \notin excused
    PROVE  /\ Consistent(MaxTs, Readings, db)
           /\ up /\ writes = <<>> => Remembers(trk, db)
<1>1. Agree(db, writes, trk, up) /\ AtMostTwo /\ up \in BOOLEAN
    BY DEF StoreInv, TypeInv
<1>2. CASE writes = <<>>
  <2>1. Agree(db, <<>>, trk, up)
      BY <1>1, <1>2
  <2>2. QED
      BY <1>1, <2>1, AgreeCases
<1>3. CASE \E w : IsWrite(w) /\ writes = <<w>>
  <2>1. PICK w : writes = <<w>>
      BY <1>3
  <2>2. Agree(db, <<w>>, trk, up) /\ writes # <<>>
      BY <1>1, <2>1
  <2>3. QED
      BY <1>1, <2>2, AgreeCases
<1>4. CASE \E w, x : IsWrite(w) /\ IsWrite(x) /\ w.by # x.by /\ writes = <<w, x>>
  <2>1. PICK w, x : writes = <<w, x>>
      BY <1>4
  <2>2. Agree(db, <<w, x>>, trk, up) /\ writes # <<>>
      BY <1>1, <2>1
  <2>3. QED
      BY <1>1, <2>2, AgreeTwo
<1>5. QED
    BY <1>1, <1>2, <1>3, <1>4 DEF AtMostTwo

\* Tables that have taken the transaction that was waiting first.
LEMMA CommitAgrees ==
    ASSUME NEW d, NEW w, NEW rest, rest = <<>> \/ \E x : rest = <<x>>,
           NEW waiting, waiting = <<w>> \o rest, NEW t,
           Agree(d, waiting, t, TRUE)
    PROVE  Agree(Applied(d, w), rest, t, TRUE)
<1>1. CASE rest = <<>>
  <2>1. <<w>> \o <<>> = <<w>>
      OBVIOUS
  <2>2. Agree(d, <<w>>, t, TRUE)
      BY <1>1, <2>1
  <2>3. Agree(Applied(d, w), <<>>, t, TRUE)
      BY <2>2, AgreeCases
  <2>4. QED
      BY <1>1, <2>3
<1>2. CASE \E x : rest = <<x>>
  <2>1. PICK x : rest = <<x>>
      BY <1>2
  <2>2. <<w>> \o <<x>> = <<w, x>>
      BY OneAndOne
  <2>3. Agree(d, <<w, x>>, t, TRUE)
      BY <2>1, <2>2
  <2>4. Agree(Applied(d, w), <<x>>, t, TRUE)
      BY <2>3, AgreeTwo, AgreeCases
  <2>5. QED
      BY <2>1, <2>4
<1>3. QED
    BY <1>1, <1>2

\* The gap that the watchdog knew when it queued that transaction.
LEMMA CommitKnowsGap ==
    ASSUME NEW o, NEW w, NEW rest, rest = <<>> \/ \E x : rest = <<x>>,
           NEW waiting, waiting = <<w>> \o rest, NEW g,
           KnowsGap(o, waiting, g)
    PROVE  Legal(o, w.gaps) /\ KnowsGap(Moved(o, w.gaps), rest, g)
<1>1. CASE rest = <<>>
  <2>1. <<w>> \o <<>> = <<w>>
      OBVIOUS
  <2>2. KnowsGap(o, <<w>>, g)
      BY <1>1, <2>1
  <2>3. Legal(o, w.gaps) /\ KnowsGap(Moved(o, w.gaps), <<>>, g)
      BY <2>2, KnowsGapCases
  <2>4. QED
      BY <1>1, <2>3
<1>2. CASE \E x : rest = <<x>>
  <2>1. PICK x : rest = <<x>>
      BY <1>2
  <2>2. <<w>> \o <<x>> = <<w, x>>
      BY OneAndOne
  <2>3. KnowsGap(o, <<w, x>>, g)
      BY <2>1, <2>2
  <2>4. Legal(o, w.gaps) /\ KnowsGap(Moved(o, w.gaps), <<x>>, g)
      BY <2>3, KnowsGapTwo, KnowsGapCases
  <2>5. QED
      BY <2>1, <2>4
<1>3. QED
    BY <1>1, <1>2

\* The transaction that waits first, and the one behind it.
LEMMA FirstWaiting ==
    ASSUME AtMostTwo, writes # <<>>
    PROVE  /\ IsWrite(Head(writes)) /\ Carries(Head(writes))
           /\ writes = <<Head(writes)>> \o Tail(writes)
           /\ Tail(writes) = <<>> \/ \E x : IsWrite(x) /\ Tail(writes) = <<x>>
<1>1. CASE \E w : IsWrite(w) /\ writes = <<w>>
  <2>1. PICK w : IsWrite(w) /\ writes = <<w>>
      BY <1>1
  <2>2. Head(<<w>>) = w /\ Tail(<<w>>) = <<>>
      BY Pairs
  <2>3. <<w>> \o <<>> = <<w>>
      OBVIOUS
  <2>4. QED
      BY <2>1, <2>2, <2>3 DEF IsWrite
<1>2. CASE \E w, x : IsWrite(w) /\ IsWrite(x) /\ w.by # x.by /\ writes = <<w, x>>
  <2>1. PICK w, x : IsWrite(w) /\ IsWrite(x) /\ writes = <<w, x>>
      BY <1>2
  <2>2. Head(<<w, x>>) = w /\ Tail(<<w, x>>) = <<x>>
      BY Pairs
  <2>3. <<w>> \o <<x>> = <<w, x>>
      BY OneAndOne
  <2>4. QED
      BY <2>1, <2>2, <2>3 DEF IsWrite
<1>3. QED
    BY <1>1, <1>2 DEF AtMostTwo

\* A transaction commits.
LEMMA CommitKeeps ==
    ASSUME CollectorInv, Commit
    PROVE  CollectorInv'
<1>1. TypeInv /\ StoreInv /\ GapInv
    BY DEF CollectorInv
<1> DEFINE w == Head(writes)
           rest == Tail(writes)
<1>2. /\ up /\ writes # <<>> /\ Accepted(Applied(db, w)) /\ db' = Applied(db, w)
      /\ writtenTs' = (IF w.seen # Never THEN w.seen ELSE writtenTs)
      /\ writes' = rest /\ excused' = excused \cup Ignored(db, w)
    BY DEF Commit, Rejected
<1>3. /\ IsWrite(w) /\ Carries(w) /\ writes = <<w>> \o rest
      /\ rest = <<>> \/ \E x : IsWrite(x) /\ rest = <<x>>
    BY <1>1, <1>2, FirstWaiting DEF TypeInv
<1>4. up = TRUE /\ up' = TRUE /\ trk' = trk /\ wd' = wd
    BY <1>1 DEF TypeInv, Commit
<1> HIDE DEF w, rest
<1>5. Stored(db)
    BY <1>1 DEF TypeInv
<1>6. Stored(db') /\ db'.gaps = WriteGaps(db.gaps, w.gaps)
    BY <1>2, <1>3, <1>5, AppliedFits
<1>7. AtMostTwo'
    BY <1>2, <1>3 DEF AtMostTwo
<1>8. excused' \subseteq Excuses
    BY <1>1, <1>2 DEF TypeInv, Excuses, Ignored
<1>9. TypeInv'
    BY <1>1, <1>2, <1>3, <1>4, <1>6, <1>7, <1>8 DEF TypeInv, Commit, Carries, plcVars, netVars,
       asmVars, counts, Clock, Asm!AssemblerTypeOK
<1>10. StoreInv'
  <2>1. SUFFICES ASSUME "write cancelled" \notin excused
                 PROVE  Agree(db', rest, trk, TRUE)
      BY <1>2, <1>4 DEF StoreInv
  <2>2. Agree(db, writes, trk, TRUE)
      BY <1>1, <1>4, <2>1 DEF StoreInv
  <2>3. Agree(Applied(db, w), rest, trk, TRUE)
      BY <1>3, <2>2, CommitAgrees
  <2>4. QED
      BY <1>2, <2>3
<1>11. GapInv'
  <2>1. SUFFICES ASSUME excused = {}, Ignored(db, w) = {}
                 PROVE  KnowsGap(OpenIn(db'.gaps), rest, wd.gapStart)
      BY <1>2, <1>4 DEF GapInv
  <2> DEFINE open == OpenIn(db.gaps)
  <2>2. KnowsGap(open, writes, wd.gapStart)
      BY <1>1, <1>4, <2>1 DEF GapInv
  <2> HIDE DEF open
  <2>3. Legal(open, w.gaps) /\ KnowsGap(Moved(open, w.gaps), rest, wd.gapStart)
      BY <1>3, <2>2, CommitKnowsGap
  <2>4. w.gaps \in GapOps
      BY <1>3 DEF Carries
  <2>5. Takes(db.gaps, w.gaps)
      BY <2>1, <2>4, NothingIgnored
  <2>6. DOMAIN db.gaps \subseteq Instant /\ SingleOpen(db.gaps)
      BY <1>5 DEF Stored, Accepted
  <2>7. OpenIn(WriteGaps(db.gaps, w.gaps)) = Moved(open, w.gaps)
      BY <2>3, <2>4, <2>5, <2>6, GapsWritten DEF open
  <2>8. QED
      BY <1>6, <2>3, <2>7
<1>12. QED
    BY <1>9, <1>10, <1>11 DEF CollectorInv

\* The memory of a process that is gone.
LEMMA ForgetFits ==
    ASSUME TypeInv, Forget, UNCHANGED plcVars, Stored(db'), excused' \subseteq Excuses,
           watchedFrom' \in 0..MaxTs
    PROVE  TypeInv' /\ GapInv'
<1>1. Asm!AssemblerTypeOK(Held)'
  <2>1. DOMAIN <<>> = {} /\ <<>> \in [{} -> 0..SettleTime]
      OBVIOUS
  <2>2. QED
      BY <2>1 DEF Forget, Asm!AssemblerTypeOK
<1>2. MemoryShaped(trk')
  <2>1. 0 \in 0..MaxTs /\ DOMAIN <<>> = {}
      BY Bounds
  <2>2. /\ EmptyTracker.openStop = 0 /\ EmptyTracker.latest = <<>>
        /\ \A s \in Scope : EmptyTracker.last[s].ts = 0
      BY DEF EmptyTracker, NoEvent
  <2>3. QED
      BY <2>1, <2>2 DEF Forget, MemoryShaped, KnownTags
<1>3. wd' \in Watchdogs
    BY Bounds DEF Forget, Wd!NewWatchdog, Watchdogs
<1>4. wire' \in Seq(Notices)
    BY DEF Forget
<1>5. TypeInv'
  <2>1. plc' \in Seq(CellImage) /\ plc' # <<>> /\ Clock' <= MaxTs
      BY DEF TypeInv, plcVars, Clock
  <2>2. /\ link' \in Links /\ up' \in BOOLEAN /\ link' = "down" /\ writes' = <<>>
        /\ maxTs' = 0 /\ writtenTs' = 0
      BY DEF Forget, Links
  <2>3. AtMostTwo'
      BY <2>2 DEF AtMostTwo
  <2>4. 0 \in 0..MaxTs
      BY Bounds
  <2>5. QED
      BY <1>1, <1>2, <1>3, <1>4, <2>1, <2>2, <2>3, <2>4 DEF TypeInv
<1>6. GapInv'
    BY DEF Forget, GapInv
<1>7. QED
    BY <1>5, <1>6

\* ... only the tables are left to agree with themselves.
LEMMA ForgetAgrees ==
    ASSUME Forget, "write cancelled" \notin excused' => Consistent(MaxTs, Readings, db')
    PROVE  StoreInv'
<1>1. SUFFICES ASSUME "write cancelled" \notin excused'
               PROVE  Agree(db', <<>>, trk', FALSE)
    BY DEF StoreInv, Forget
<1>2. Consistent(MaxTs, Readings, db')
    BY <1>1
<1>3. QED
    BY <1>2, AgreeCases

\* A refused transaction ends the process.
LEMMA RefuseKeeps ==
    ASSUME CollectorInv, Refuse
    PROVE  CollectorInv'
<1>1. TypeInv /\ StoreInv /\ GapInv
    BY DEF CollectorInv
<1>2. Forget /\ UNCHANGED <<plcVars, db, excused, watchedFrom>>
    BY DEF Refuse, aux
<1>3. Stored(db') /\ excused' \subseteq Excuses /\ watchedFrom' \in 0..MaxTs
    BY <1>1, <1>2 DEF TypeInv
<1>4. TypeInv' /\ GapInv'
    BY <1>1, <1>2, <1>3, ForgetFits
<1>5. "write cancelled" \notin excused' => Consistent(MaxTs, Readings, db')
    BY <1>1, <1>2, AgreeNow
<1>6. StoreInv'
    BY <1>2, <1>5, ForgetAgrees
<1>7. QED
    BY <1>4, <1>6 DEF CollectorInv

\* A crash leaves the tables as they are.
LEMMA CrashKeeps ==
    ASSUME CollectorInv, Crash
    PROVE  CollectorInv'
<1>1. TypeInv /\ StoreInv /\ GapInv
    BY DEF CollectorInv
<1>2. /\ Forget /\ UNCHANGED <<plcVars, db, excused>>
      /\ watchedFrom' = IF db.lastSeen = Never THEN Never ELSE watchedFrom
    BY DEF Crash
<1>3. Stored(db') /\ excused' \subseteq Excuses /\ watchedFrom' \in 0..MaxTs
    BY <1>1, <1>2, Bounds DEF TypeInv
<1>4. TypeInv' /\ GapInv'
    BY <1>1, <1>2, <1>3, ForgetFits
<1>5. "write cancelled" \notin excused' => Consistent(MaxTs, Readings, db')
    BY <1>1, <1>2, AgreeNow
<1>6. StoreInv'
    BY <1>2, <1>5, ForgetAgrees
<1>7. QED
    BY <1>4, <1>6 DEF CollectorInv

\* A clean stop: the tables are consistent if no transaction was cancelled,
\* whether the last one is taken or not.
LEMMA CleanStopKeeps ==
    ASSUME CollectorInv, CleanStop
    PROVE  CollectorInv'
<1>1. TypeInv /\ StoreInv /\ GapInv
    BY DEF CollectorInv
<1>2. PICK sent \in {FALSE} \cup {writes # <<>> /\ ~Rejected(db, Head(writes))} :
          LET base == IF sent THEN Applied(db, Head(writes)) ELSE db
              seen == SafeLastSeen(maxTs, <<>>)
              write == [gaps |-> <<>>, groups |-> TrackAll(trk, InOrder(Asm!FlushReturns)).ops,
                        seen |-> IF seen > writtenTs THEN seen ELSE Never]
          IN  db' = IF Rejected(base, write) THEN base ELSE Applied(base, write)
    BY DEF CleanStop
<1> DEFINE base == IF sent THEN Applied(db, Head(writes)) ELSE db
           groups == InOrder(Asm!FlushReturns)
           seen == SafeLastSeen(maxTs, <<>>)
           write == [gaps |-> <<>>, groups |-> TrackAll(trk, groups).ops,
                     seen |-> IF seen > writtenTs THEN seen ELSE Never]
<1>3. db' = IF Rejected(base, write) THEN base ELSE Applied(base, write)
    BY <1>2
<1>4. sent => writes # <<>> /\ Accepted(Applied(db, Head(writes)))
    BY <1>2 DEF Rejected
<1>5. /\ Forget /\ UNCHANGED plcVars /\ up
      /\ excused' = (IF writes = <<>> THEN excused ELSE excused \cup {"write cancelled"})
      /\ watchedFrom' = IF db'.lastSeen = Never THEN Never ELSE watchedFrom
    BY DEF CleanStop
<1>6. write.gaps = <<>> /\ write.groups = TrackAll(trk, groups).ops /\ write.seen \in 0..MaxTs
  <2>1. DOMAIN <<>> = {} /\ maxTs \in 0..MaxTs /\ 0 \in 0..MaxTs
      BY <1>1, Bounds DEF TypeInv
  <2>2. seen \in 0..MaxTs
      BY <2>1, SafeSeen
  <2> HIDE DEF seen
  <2>3. QED
      BY <2>1, <2>2
<1>7. Len(groups) \in Nat /\ \A i \in 1..Len(groups) : IsGroup(MaxTs, Readings, groups[i])
  <2>1. Asm!AssemblerTypeOK(Held)
      BY <1>1 DEF TypeInv
  <2>2. \A g \in Asm!FlushReturns : IsGroup(MaxTs, Readings, g)
      BY <2>1, FlushFits
  <2>3. QED
      BY <2>2, InOrderFits
<1> HIDE DEF groups, write
<1>8. Stored(base)
  <2>1. Stored(db) /\ AtMostTwo
      BY <1>1 DEF TypeInv
  <2>2. CASE ~sent
      BY <2>1, <2>2
  <2>3. CASE sent
    <3>1. Carries(Head(writes)) /\ Accepted(Applied(db, Head(writes)))
        BY <1>4, <2>1, <2>3, FirstWaiting
    <3>2. Stored(Applied(db, Head(writes)))
        BY <2>1, <3>1, AppliedFits
    <3>3. QED
        BY <2>3, <3>2
  <2>4. QED
      BY <2>2, <2>3
<1> HIDE DEF base
<1>9. Carries(write)
  <2>1. MemoryShaped(trk)
      BY <1>1 DEF TypeInv
  <2>2. /\ Len(TrackAll(trk, groups).ops) = Len(groups)
        /\ \A i \in 1..Len(groups) : TrackAll(trk, groups).ops[i].ts \in Instant
      BY <1>7, <2>1, TrackedFits
  <2>3. QED
      BY <1>6, <1>7, <2>2 DEF Carries, GapOps
<1>10. Stored(db')
  <2>1. Accepted(Applied(base, write)) => Stored(Applied(base, write))
      BY <1>8, <1>9, AppliedFits
  <2>2. QED
      BY <1>3, <1>8, <2>1 DEF Rejected
<1>11. excused' \subseteq Excuses /\ watchedFrom' \in 0..MaxTs
  <2>1. excused \subseteq Excuses /\ watchedFrom \in 0..MaxTs /\ 0 \in 0..MaxTs
      BY <1>1, Bounds DEF TypeInv
  <2>2. watchedFrom' \in 0..MaxTs
      BY <1>5, <2>1
  <2>3. excused' \subseteq Excuses
      BY <1>5, <2>1 DEF Excuses
  <2>4. QED
      BY <2>2, <2>3
<1>12. TypeInv' /\ GapInv'
    BY <1>1, <1>5, <1>10, <1>11, ForgetFits
<1>13. ASSUME "write cancelled" \notin excused'
       PROVE  Consistent(MaxTs, Readings, db')
  <2>1. writes = <<>> /\ "write cancelled" \notin excused
      BY <1>5, <1>13
  <2>2. base = db
      BY <1>4, <2>1 DEF base
  <2>3. Consistent(MaxTs, Readings, db) /\ Remembers(trk, db)
      BY <1>1, <1>5, <2>1, AgreeNow
  <2>4. Shaped(MaxTs, db) /\ KnownTags(Readings, trk.latest)
      BY <1>1 DEF TypeInv, Stored, MemoryShaped
  <2>5. Consistent(MaxTs, Readings, Applied(db, write))
      BY <1>6, <1>7, <2>3, <2>4, TrackedAgrees
  <2>6. QED
      BY <1>3, <2>2, <2>3, <2>5
<1>14. StoreInv'
    BY <1>5, <1>13, ForgetAgrees
<1>15. QED
    BY <1>12, <1>14 DEF CollectorInv

\* What the tracker resumes from stored rows has its types.
LEMMA ResumeFits ==
    ASSUME NEW d, Stored(d)
    PROVE  MemoryShaped(Resume(d))
<1>1. Shaped(MaxTs, d)
    BY DEF Stored
<1>2. /\ Resume(d).openStop = OpenIn(d.stops) /\ Resume(d).latest = <<>>
      /\ \A s \in Scope : Resume(d).last[s] = LastEvent(d.events[s])
  <2>1. Remembers(Resume(d), d) /\ Resume(d).latest = <<>>
      BY ResumeRemembers
  <2>2. QED
      BY <2>1 DEF Remembers
<1>3. OpenIn(d.stops) \in 0..MaxTs
    BY <1>1, OpenInterval DEF Shaped, Instant
<1>4. ASSUME NEW s \in Scope
      PROVE  LastEvent(d.events[s]).ts \in 0..MaxTs
  <2> DEFINE S == DOMAIN d.events[s]
  <2>1. S \in SUBSET (1..MaxTs)
      BY <1>1 DEF Shaped
  <2>2. LastEvent(d.events[s]).ts = IF S = {} THEN 0 ELSE Max(S)
      BY DEF LastEvent, NoEvent
  <2> HIDE DEF S
  <2>3. S # {} => Max(S) \in S
      BY <2>1, Bounds, MaxOfBounded
  <2>4. S # {} => Max(S) \in 0..MaxTs
    <3>1. \A t \in S : t \in 0..MaxTs
        BY <2>1, Bounds
    <3>2. QED
        BY <2>3, <3>1
  <2>5. 0 \in 0..MaxTs
      BY Bounds
  <2>6. QED
      BY <2>2, <2>4, <2>5
<1>5. KnownTags(Readings, <<>>)
    BY DEF KnownTags
<1>6. QED
    BY <1>2, <1>3, <1>4, <1>5 DEF MemoryShaped

\* A new process resumes from the tables.
LEMMA StartKeeps ==
    ASSUME CollectorInv, Start
    PROVE  CollectorInv'
<1>1. TypeInv /\ StoreInv /\ GapInv
    BY DEF CollectorInv
<1>2. /\ ~up /\ up' = TRUE /\ db' = Repair(db) /\ trk' = Resume(db')
      /\ wd' = Wd!NewWatchdog(db.lastSeen, OpenIn(db.gaps))
      /\ maxTs' = db.lastSeen /\ writtenTs' = db.lastSeen
      /\ UNCHANGED <<plc, link, wire, pending, waited, releasedUpTo, writes, watchedFrom, excused>>
    BY DEF Start, plcVars, netVars, asmVars, aux
<1>3. writes = <<>> /\ link = "down"
    BY <1>1, <1>2 DEF TypeInv
<1>4. Stored(db)
    BY <1>1 DEF TypeInv
<1>5. Stored(db') /\ db'.gaps = db.gaps
  <2>1. MaxTs \in Nat /\ Shaped(MaxTs, db) /\ Accepted(db)
      BY <1>4, Bounds DEF Stored
  <2> DEFINE r == Repair(db)
  <2>2. /\ Shaped(MaxTs, r) /\ Accepted(r)
        /\ r.events = db.events /\ r.gaps = db.gaps /\ r.lastSeen = db.lastSeen
      BY <2>1, RepairFits
  <2> HIDE DEF r
  <2>3. Stored(r)
      BY <1>4, <2>2 DEF Stored
  <2>4. QED
      BY <1>2, <2>2, <2>3 DEF r
<1>6. db.lastSeen \in 0..MaxTs
    BY <1>4, Bounds DEF Stored, Shaped
<1>7. wd' \in Watchdogs /\ wd'.gapStart = OpenIn(db.gaps)
  <2>1. OpenIn(db.gaps) \in 0..MaxTs
      BY <1>4, OpenInterval DEF Stored
  <2>2. QED
      BY <1>2, <1>6, <2>1, Bounds DEF Wd!NewWatchdog, Watchdogs
<1>8. MemoryShaped(trk')
    BY <1>2, <1>5, ResumeFits
<1>9. AtMostTwo'
    BY <1>2, <1>3 DEF AtMostTwo
<1>10. TypeInv'
    BY <1>1, <1>2, <1>5, <1>6, <1>7, <1>8, <1>9 DEF TypeInv, Asm!AssemblerTypeOK, Clock
<1>11. StoreInv'
  <2>1. SUFFICES ASSUME "write cancelled" \notin excused
                 PROVE  Agree(db', <<>>, trk', TRUE)
      BY <1>2, <1>3 DEF StoreInv
  <2>2. Consistent(MaxTs, Readings, db)
      BY <1>1, <2>1, AgreeNow
  <2>3. db' = db
      BY <1>2, <2>2, Bounds, RepairChangesNothing
  <2>4. Remembers(trk', db')
      BY <1>2, ResumeRemembers
  <2>5. Consistent(MaxTs, Readings, db')
      BY <2>2, <2>3
  <2>6. QED
      BY <2>4, <2>5, AgreeCases
<1>12. GapInv'
  <2>1. SUFFICES KnowsGap(OpenIn(db'.gaps), <<>>, wd'.gapStart)
      BY <1>2, <1>3 DEF GapInv
  <2>2. QED
      BY <1>5, <1>7, KnowsGapCases
<1>13. QED
    BY <1>10, <1>11, <1>12 DEF CollectorInv

\* The first process has nothing to remember.
LEMMA InitFits == Init => CollectorInv
<1>1. SUFFICES ASSUME Init PROVE CollectorInv
    OBVIOUS
<1>2. MaxTs \in Nat \ {0, 1} /\ 0 \in 0..MaxTs /\ DOMAIN <<>> = {}
    BY CollectorAssumption
<1>3. plc \in Seq(CellImage) /\ plc # <<>> /\ Clock <= MaxTs
  <2>1. PICK image \in CellImage : plc = <<image>>
      BY <1>1 DEF Init
  <2>2. plc \in Seq(CellImage) /\ plc # <<>> /\ Len(plc) = 1
      BY <2>1
  <2>3. QED
      BY <1>2, <2>2 DEF Clock
<1>4. Asm!AssemblerTypeOK(Held)
  <2>1. <<>> \in [{} -> 0..SettleTime]
      BY <1>2
  <2>2. QED
      BY <1>1, <1>2, <2>1 DEF Init, Asm!AssemblerInit, Asm!AssemblerTypeOK
<1>5. MemoryShaped(trk)
  <2>1. /\ EmptyTracker.openStop = 0 /\ EmptyTracker.latest = <<>>
        /\ \A s \in Scope : EmptyTracker.last[s].ts = 0
      BY DEF EmptyTracker, NoEvent
  <2>2. QED
      BY <1>1, <1>2, <2>1 DEF Init, MemoryShaped, KnownTags
<1>6. wd \in Watchdogs
    BY <1>1, Bounds DEF Init, Wd!NewWatchdog, Watchdogs
<1>7. Stored(db)
  <2>1. /\ db = EmptyDb /\ DOMAIN EmptyDb.events = Scope
        /\ \A s \in Scope : DOMAIN EmptyDb.events[s] = {}
        /\ DOMAIN EmptyDb.stops = {} /\ DOMAIN EmptyDb.gaps = {} /\ EmptyDb.lastSeen = 0
      BY <1>1, <1>2 DEF Init, EmptyDb
  <2>2. Shaped(MaxTs, db) /\ db.lastSeen <= MaxTs /\ DOMAIN db.gaps \subseteq Instant
      BY <1>2, <2>1 DEF Shaped
  <2>3. SingleOpen(db.gaps)
      BY <2>1, <2>2, OneGap
  <2>4. SingleOpen(db.stops)
    <3>1. DOMAIN db.stops \subseteq Instant
        BY <2>1
    <3>2. QED
        BY <2>1, <3>1, OneGap
  <2>5. QED
      BY <2>2, <2>3, <2>4 DEF Stored, Accepted
<1>8. TypeInv
  <2>1. /\ link \in Links /\ up \in BOOLEAN /\ wire = <<>> /\ link = "down" /\ writes = <<>>
        /\ maxTs = 0 /\ writtenTs = 0 /\ watchedFrom = 0 /\ excused \subseteq Excuses
      BY <1>1 DEF Init, Links
  <2>2. wire \in Seq(Notices)
      BY <2>1
  <2>3. AtMostTwo
      BY <2>1 DEF AtMostTwo
  <2>4. QED
      BY <1>2, <1>3, <1>4, <1>5, <1>6, <1>7, <2>1, <2>2, <2>3 DEF TypeInv
<1>9. StoreInv
  <2>1. SUFFICES Agree(db, <<>>, trk, FALSE)
      BY <1>1 DEF Init, StoreInv
  <2>2. Consistent(MaxTs, Readings, EmptyDb)
      BY <1>2, EmptyDbConsistent
  <2>3. Consistent(MaxTs, Readings, db)
      BY <1>1, <2>2 DEF Init
  <2>4. QED
      BY <2>3, AgreeCases
<1>10. GapInv
    BY <1>1 DEF Init, GapInv
<1>11. QED
    BY <1>8, <1>9, <1>10 DEF CollectorInv

\* A step that changes nothing.
LEMMA StutterKeeps ==
    ASSUME CollectorInv, UNCHANGED vars
    PROVE  CollectorInv'
<1>1. TypeInv /\ StoreInv /\ GapInv
    BY DEF CollectorInv
<1>2. TypeInv'
    BY <1>1 DEF TypeInv, vars, plcVars, netVars, asmVars, memVars, aux, AtMostTwo, Clock,
       Asm!AssemblerTypeOK
<1>3. UNCHANGED <<up, trk, writes, db, excused, wd>>
    BY DEF vars, memVars, aux
<1>4. StoreInv' /\ GapInv'
    BY <1>1, <1>3, NothingIssued
<1>5. QED
    BY <1>2, <1>4 DEF CollectorInv

-----------------------------------------------------------------------------

(* What follows for every state.                                           *)

\* The inductive invariant: the types, what the tables and the tracker agree
\* on, and the gap that the watchdog knows.
THEOREM CollectorInvariant == Spec => []CollectorInv
<1>1. Init => CollectorInv
    BY InitFits
<1>2. CollectorInv /\ [Next]_vars => CollectorInv'
  <2>1. SUFFICES ASSUME CollectorInv, [Next]_vars
                 PROVE  CollectorInv'
      OBVIOUS
  <2>2. CASE PlcStep
      BY <2>1, <2>2, PlcStepKeeps
  <2>3. CASE SubscribeFast
      BY <2>1, <2>3, SubscribeFastKeeps
  <2>4. CASE SubscribeEvents
      BY <2>1, <2>4, SubscribeEventsKeeps
  <2>5. CASE OnConnected
      BY <2>1, <2>5, OnConnectedKeeps
  <2>6. CASE Disconnect
      BY <2>1, <2>6, DisconnectKeeps
  <2>7. CASE Process
      BY <2>1, <2>7, ProcessKeeps
  <2>8. CASE Tick
      BY <2>1, <2>8, TickKeeps
  <2>9. CASE Elapse
      BY <2>1, <2>9, ElapseKeeps
  <2>10. CASE Commit
      BY <2>1, <2>10, CommitKeeps
  <2>11. CASE Refuse
      BY <2>1, <2>11, RefuseKeeps
  <2>12. CASE Crash
      BY <2>1, <2>12, CrashKeeps
  <2>13. CASE CleanStop
      BY <2>1, <2>13, CleanStopKeeps
  <2>14. CASE Start
      BY <2>1, <2>14, StartKeeps
  <2>15. CASE UNCHANGED vars
      BY <2>1, <2>15, StutterKeeps
  <2>16. QED
      BY <2>1, <2>2, <2>3, <2>4, <2>5, <2>6, <2>7, <2>8, <2>9, <2>10, <2>11, <2>12, <2>13,
         <2>14, <2>15 DEF Next
<1>3. QED
    BY <1>1, <1>2, PTL DEF Spec

\* Memory, wire and tables hold what the code puts there, and each of the two
\* tasks waits for one transaction at most.
THEOREM TypeCorrect == Spec => []TypeOK
<1>1. CollectorInv => TypeOK
  <2>1. SUFFICES ASSUME CollectorInv PROVE TypeOK
      OBVIOUS
  <2>2. TypeInv
      BY <2>1 DEF CollectorInv
  <2>3. \A i \in DOMAIN wire : wire[i].ts \in Instant
    <3>1. wire \in Seq(Notices)
        BY <2>2 DEF TypeInv
    <3>2. \A i \in DOMAIN wire : wire[i] \in Notices
        BY <3>1
    <3>3. QED
        BY <3>2 DEF Notices, CellNotices
  <2>4. Asm!AssemblerTypeOK(UNION {[S -> Readings] : S \in SUBSET TagsOf["CELL"]})
      BY <2>2 DEF TypeInv, Held
  <2>5. {trk.openStop, trk.last["CELL"].ts, wd.lastHb, wd.gapStart, maxTs, writtenTs,
         db.lastSeen, watchedFrom} \subseteq Instant \cup {Never}
    <3>1. wd.lastHb \in 0..MaxTs /\ wd.gapStart \in 0..MaxTs
        BY <2>2, WatchdogFields DEF TypeInv
    <3>2. trk.openStop \in 0..MaxTs /\ trk.last["CELL"].ts \in 0..MaxTs
        BY <2>2, TrackerAssumption DEF TypeInv, MemoryShaped
    <3>3. db.lastSeen \in 0..MaxTs
        BY <2>2, Bounds DEF TypeInv, Stored, Shaped
    <3>4. maxTs \in 0..MaxTs /\ writtenTs \in 0..MaxTs /\ watchedFrom \in 0..MaxTs
        BY <2>2 DEF TypeInv
    <3>5. \A t \in 0..MaxTs : t \in Instant \cup {Never}
        BY Bounds DEF Instant
    <3>6. QED
        BY <3>1, <3>2, <3>3, <3>4, <3>5
  <2>6. wd.silence \in 0..(Timeout + 1)
      BY <2>2, WatchdogFields DEF TypeInv
  <2>7. Len(writes) <= 2
    <3>1. \A w, x : Len(<<>>) <= 2 /\ Len(<<w>>) <= 2 /\ Len(<<w, x>>) <= 2
        OBVIOUS
    <3>2. QED
        BY <2>2, <3>1 DEF TypeInv, AtMostTwo
  <2>8. QED
      BY <2>2, <2>3, <2>4, <2>5, <2>6, <2>7 DEF TypeInv, TypeOK
<1>2. QED
    BY <1>1, CollectorInvariant, PTL

\* The stops of the database are those of its events, unless a clean stop
\* cancelled a transaction (_drain_on_shutdown).
THEOREM StopsAreRight == Spec => []StopsFollowEvents
<1>1. CollectorInv => StopsFollowEvents
  <2>1. SUFFICES ASSUME CollectorInv, "write cancelled" \notin excused
                 PROVE  StopsFollow(CellEvents, db.stops)
      BY DEF StopsFollowEvents
  <2>2. Consistent(MaxTs, Readings, db)
      BY <2>1, AgreeNow DEF CollectorInv
  <2>3. QED
      BY <2>2 DEF Consistent, CellEvents
<1>2. QED
    BY <1>1, CollectorInvariant, PTL

\* Between transactions the watchdog knows the gap that comm_gaps holds open.
THEOREM GapsAreKnown == Spec => []GapIsKnown
<1>1. CollectorInv => GapIsKnown
  <2>1. SUFFICES ASSUME CollectorInv, up, writes = <<>>, excused = {}
                 PROVE  OpenIn(db.gaps) = wd.gapStart
      BY DEF GapIsKnown
  <2>2. KnowsGap(OpenIn(db.gaps), <<>>, wd.gapStart)
      BY <2>1 DEF CollectorInv, GapInv
  <2>3. QED
      BY <2>2, KnowsGapCases
<1>2. QED
    BY <1>1, CollectorInvariant, PTL

\* The schema refuses no transaction: no second stop and no second gap is ever
\* open, whichever of the tasks commits first.
THEOREM NothingIsRefused == Spec => []NeverRefused
<1>1. CollectorInv => NeverRefused
  <2>1. SUFFICES ASSUME CollectorInv, writes # <<>>, excused = {}
                 PROVE  Accepted(Applied(db, Head(writes)))
      BY DEF NeverRefused, Rejected
  <2> DEFINE w == Head(writes)
             rest == Tail(writes)
             e == Applied(db, w)
             open == OpenIn(db.gaps)
  <2>2. TypeInv /\ StoreInv /\ GapInv /\ AtMostTwo /\ Stored(db) /\ up = TRUE
      BY <2>1 DEF CollectorInv, TypeInv
  <2>3. /\ Carries(w) /\ writes = <<w>> \o rest
        /\ rest = <<>> \/ \E x : rest = <<x>>
      BY <2>1, <2>2, FirstWaiting
  <2> HIDE DEF w, rest
  <2>4. SingleOpen(e.stops)
    <3>1. Agree(db, writes, trk, TRUE)
        BY <2>1, <2>2 DEF StoreInv
    <3>2. Agree(e, rest, trk, TRUE)
        BY <2>3, <3>1, CommitAgrees
    <3> HIDE DEF e
    <3>3. 0 \in 0..Len(rest)
        BY <2>3, AheadOf
    <3>4. Consistent(MaxTs, Readings, e)
        BY <3>2, <3>3 DEF Agree, Ahead
    <3>5. e.events["CELL"] \in Tables(MaxTs, Images(Readings, "CELL")) /\ StopsFollow(e.events["CELL"], e.stops)
        BY <3>4, TrackerAssumption DEF Consistent
    <3>6. QED
        BY <3>5, Bounds, StopsAreAdmitted
  <2>5. SingleOpen(e.gaps)
    <3>1. KnowsGap(open, writes, wd.gapStart)
        BY <2>1, <2>2 DEF GapInv
    <3> HIDE DEF open
    <3>2. Legal(open, w.gaps)
        BY <2>3, <3>1, CommitKnowsGap
    <3>3. w.gaps \in GapOps /\ DOMAIN db.gaps \subseteq Instant /\ SingleOpen(db.gaps)
        BY <2>2, <2>3 DEF Carries, Stored, Accepted
    <3>4. SingleOpen(WriteGaps(db.gaps, w.gaps))
        BY <3>2, <3>3, GapsWritten DEF open
    <3>5. e.gaps = WriteGaps(db.gaps, w.gaps)
        BY <2>2, <2>3, AppliedFits
    <3>6. QED
        BY <3>4, <3>5
  <2>6. QED
      BY <2>4, <2>5 DEF Accepted, w
<1>2. QED
    BY <1>1, CollectorInvariant, PTL
=============================================================================
