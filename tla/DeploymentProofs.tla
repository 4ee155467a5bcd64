-------------------------- MODULE DeploymentProofs --------------------------
(***************************************************************************)
(* The processes around the database and the state file, for any length of *)
(* the seeded history, any batch, any interval between saves, any states   *)
(* and counters, whatever stops and starts again: the state keeps its      *)
(* types, and a simulator is behind the database only where that is        *)
(* excused.  At the end, what a delta of its counters says of the parts    *)
(* that the cell made.                                                     *)
(***************************************************************************)
EXTENDS Deployment, StoreProofs, FiniteSetTheorems

USE DEF Never

(* The types of what the processes share.                                  *)

Files == [clean : BOOLEAN, simTime : StartTs..MaxTs, highWater : Nat, good : Nat, scrap : Nat]

CellImages ==
    {im \in [State : CellStates, good : Nat, scrap : Nat] : im.good + im.scrap <= MaxParts}

Sims == [on : {TRUE}, now : StartTs..MaxTs, image : CellImages, since : [Tags -> StartTs..MaxTs],
         origin : Files, saved : BOOLEAN]

\* What was lived at an instant, and the instants that were.
IsMoment(m) == "image" \in DOMAIN m /\ m.image \in CellImages
IsPast(p) == DOMAIN p \subseteq StartTs..MaxTs /\ \A t \in DOMAIN p : IsMoment(p[t])

\* What a tag may hold.
Values == CellStates \cup Nat

GroupsUpTo(N) == [ts : 1..N, values : UNION {[T -> Values] : T \in SUBSET Tags}]

(* The inductive invariant.                                                *)

TypeInv ==
    /\ phase \in {"down", "seeding", "up"}
    /\ sim = Off \/ sim \in Sims
    /\ phase = "down" => sim = Off /\ col = NoCol
    /\ phase = "seeding" => sim \in Sims /\ sim.now <= SeedUntil
    /\ DOMAIN seeder = {"trk", "groups"} /\ seeder.groups \in Seq(GroupsUpTo(SeedUntil))
    /\ DOMAIN col = DOMAIN NoCol /\ col.on \in BOOLEAN /\ col.linked \in BOOLEAN
    /\ col.linked => col.on /\ sim.on
    /\ file \in Files /\ file.good + file.scrap <= MaxParts
    /\ Shaped(MaxTs, db) /\ Accepted(db)
    /\ StartTs <= ResumeTs(file)
    /\ IsPast(past)
    /\ sim.on => /\ sim.now \in DOMAIN past /\ sim.image = past[sim.now].image
                 /\ \A tag \in Tags : sim.since[tag] <= sim.now
    /\ failures \subseteq MayFail /\ excused \subseteq Excuses
    /\ live \in BOOLEAN

\* Until a simulator runs, there is the history that the seed writes, up to its
\* end, and the file that it leaves there or none.
SeedInv ==
    /\ live => phase # "seeding"
    /\ live \/ phase = "up" => AlreadySeeded
    /\ ~live => /\ db.lastSeen <= SeedUntil /\ db.gaps = <<>> /\ col = NoCol
                /\ file = Fresh \/ (file.clean /\ file.simTime = SeedUntil)
                /\ phase = "up" => ~sim.on
    /\ ~AlreadySeeded =>
          /\ db = EmptyDb
          /\ phase = "seeding" => /\ seeder.trk = EmptyTracker /\ seeder.groups # <<>>
                                  /\ DOMAIN seeder.groups[1].values = Tags

\* The first seed, as long as it was not interrupted, is its own only writer:
\* the schema never refuses what it flushes, and nothing is written before the
\* file is, for which up would not seed again.
FirstSeedInv ==
    excused \cap Behind = {} /\ ~live /\ file = Fresh =>
        /\ phase # "up"
        /\ phase = "down" => db = EmptyDb
        /\ phase = "seeding" => /\ Consistent(MaxTs, Values, db) /\ Remembers(seeder.trk, db)
                                /\ KnownTags(Values, seeder.trk.latest)

\* What the file says is ahead of what the simulator has published since it
\* saved.
FileInv ==
    /\ ~sim.on \/ phase = "seeding" => ResumeTs(file) <= MaxTs
    /\ phase = "up" /\ sim.on /\ sim.saved =>
          /\ ~file.clean /\ file.highWater = file.simTime + Lookahead
          /\ sim.now <= file.simTime + SaveEvery

\* The simulator, or the one that will start from the file, is not behind.
TimeInv ==
    excused \cap Behind = {} /\ phase # "seeding" =>
        db.lastSeen <= IF sim.on THEN sim.now ELSE ResumeTs(file)

DeploymentInv == TypeInv /\ SeedInv /\ FirstSeedInv /\ FileInv /\ TimeInv

-----------------------------------------------------------------------------

(* Groups of changes.                                                      *)

\* What changed of a simulation, as groups: their instants are among those up
\* to which its tags changed.
LEMMA GroupsOfFit ==
    ASSUME NEW N \in Nat, NEW s, s.image \in CellImages,
           NEW tags \in SUBSET Tags, \A tag \in tags : s.since[tag] \in 1..N
    PROVE  GroupsOf(s, tags) \in Seq(GroupsUpTo(N))
<1> DEFINE stamps == {s.since[tag] : tag \in tags}
           values(ts) == [tag \in {u \in tags : s.since[u] = ts} |-> s.image[tag]]
           n == Cardinality(stamps)
<1>1. stamps \in SUBSET (1..N)
    OBVIOUS
<1>2. n \in Nat
  <2> HIDE DEF stamps
  <2>1. QED
      BY <1>1, FiniteInstants
<1>3. \A tag \in Tags : s.image[tag] \in Values
    BY DEF Tags, CellImages, Values
<1>4. ASSUME NEW ts
      PROVE  values(ts) \in UNION {[T -> Values] : T \in SUBSET Tags}
  <2>1. {u \in tags : s.since[u] = ts} \in SUBSET Tags
      OBVIOUS
  <2>2. values(ts) \in [{u \in tags : s.since[u] = ts} -> Values]
      BY <1>3
  <2> HIDE DEF values
  <2>3. QED
      BY <2>1, <2>2
<1> HIDE DEF stamps, values
<1>5. ASSUME NEW i \in 1..n
      PROVE  [ts |-> Nth(stamps, i), values |-> values(Nth(stamps, i))] \in GroupsUpTo(N)
  <2>1. Nth(stamps, i) \in 1..N
      BY <1>1, NthExists
  <2>2. QED
      BY <1>4, <2>1 DEF GroupsUpTo
<1>6. GroupsOf(s, tags) = [i \in 1..n |-> [ts |-> Nth(stamps, i), values |-> values(Nth(stamps, i))]]
    BY DEF GroupsOf, stamps, values
<1>7. QED
    BY <1>2, <1>5, <1>6

\* Its first image is one group, of every tag.
LEMMA FirstGroup ==
    ASSUME NEW s, NEW ts \in Nat, \A tag \in Tags : s.since[tag] = ts
    PROVE  GroupsOf(s, Tags) # <<>> /\ DOMAIN GroupsOf(s, Tags)[1].values = Tags
<1> DEFINE stamps == {s.since[tag] : tag \in Tags}
<1>1. stamps = {ts} /\ Cardinality(stamps) = 1
  <2>1. stamps = {ts}
      BY DEF Tags
  <2> HIDE DEF stamps
  <2>2. QED
      BY <2>1, FS_Singleton
<1>2. Nth(stamps, 1) = ts
  <2>1. {ts} \in SUBSET (1..(ts + 1)) \/ ts = 0
      OBVIOUS
  <2>2. {u \in {ts} : u < ts} = {}
      OBVIOUS
  <2>3. Cardinality({u \in {ts} : u < ts}) = 1 - 1
      BY <2>2, FS_EmptySet
  <2>4. QED
      BY <1>1, <2>3 DEF Nth
<1> DEFINE n == Cardinality(stamps)
           values(t) == [tag \in {u \in Tags : s.since[u] = t} |-> s.image[tag]]
<1>3. GroupsOf(s, Tags) = [i \in 1..n |-> [ts |-> Nth(stamps, i), values |-> values(Nth(stamps, i))]]
    BY DEF GroupsOf
<1>4. DOMAIN values(ts) = Tags
    OBVIOUS
<1> HIDE DEF stamps, values
<1>5. n = 1
    BY <1>1
<1> HIDE DEF n
<1>6. DOMAIN GroupsOf(s, Tags) = 1..1 /\ GroupsOf(s, Tags)[1].values = values(Nth(stamps, 1))
    BY <1>3, <1>5
<1>7. QED
    BY <1>2, <1>4, <1>6

-----------------------------------------------------------------------------

(* What the simulation lives through.                                      *)

\* A remainder is no larger than what is divided.
LEMMA ModuloBound ==
    ASSUME NEW a \in Nat, NEW b \in Nat \ {0}
    PROVE  a % b \in Nat /\ a % b <= a
OBVIOUS

\* A part counted, with any state, is again an image of the cell.
LEMMA CountedFits ==
    ASSUME NEW im \in CellImages, NEW part \in {NoPart, "good", "scrap"},
           part # NoPart => im.good + im.scrap < MaxParts, NEW state \in CellStates
    PROVE  [Counted(im, part) EXCEPT !.State = state] \in CellImages
<1> DEFINE plus(n) == (n + 1) % CounterRange
           good == IF part = "good" THEN plus(im.good) ELSE im.good
           scrap == IF part = "scrap" THEN plus(im.scrap) ELSE im.scrap
           new == [Counted(im, part) EXCEPT !.State = state]
<1>1. /\ im.good \in Nat /\ im.scrap \in Nat /\ im.good + im.scrap <= MaxParts
      /\ DOMAIN im = {"State", "good", "scrap"}
      /\ MaxParts \in Nat
    BY RetentiveAssumption DEF CellImages
<1>2. \A n \in Nat : plus(n) \in Nat /\ plus(n) <= n + 1
  <2>1. CounterRange \in Nat \ {0}
      BY RetentiveAssumption
  <2>2. QED
      BY <2>1, ModuloBound
<1>3. /\ DOMAIN new = {"State", "good", "scrap"}
      /\ new.State = state /\ new.good = good /\ new.scrap = scrap
      /\ new = [field \in DOMAIN new |-> new[field]]
    BY <1>1 DEF Counted
<1> HIDE DEF plus, new
<1>4. good \in Nat /\ scrap \in Nat /\ good + scrap <= MaxParts
    BY <1>1, <1>2 DEF NoPart
<1> HIDE DEF good, scrap
<1>5. new = [State |-> state, good |-> good, scrap |-> scrap]
    BY <1>3
<1>6. new \in CellImages
    BY <1>4, <1>5 DEF CellImages
<1>7. QED
    BY <1>6 DEF new

\* A start: from the file, at the instant that it says.
LEMMA StartFits ==
    ASSUME NEW p, IsPast(p), NEW f \in Files, f.good + f.scrap <= MaxParts,
           StartTs <= ResumeTs(f), ResumeTs(f) <= MaxTs,
           NEW m \in FirstMoments(p, f)
    PROVE  /\ IsMoment(m)
           /\ Started(f, m) \in Sims
           /\ Started(f, m).now = ResumeTs(f) /\ Started(f, m).image = m.image
           /\ \A tag \in Tags : Started(f, m).since[tag] = ResumeTs(f)
           /\ ~Started(f, m).saved
<1>1. ResumeTs(f) \in StartTs..MaxTs
    BY RetentiveAssumption DEF Files, ResumeTs
<1>2. IsMoment(m)
  <2>1. CASE Lived(p, f, ResumeTs(f))
      BY <2>1 DEF FirstMoments, Lived, IsPast
  <2>2. CASE ~Lived(p, f, ResumeTs(f))
    <3>1. PICK state \in StartStates : m.image = [State |-> state, good |-> f.good, scrap |-> f.scrap]
                                       /\ "image" \in DOMAIN m
        BY <2>2 DEF FirstMoments
    <3>2. state \in CellStates
        BY RetentiveAssumption
    <3>3. QED
        BY <3>1, <3>2 DEF IsMoment, CellImages, Files
  <2>3. QED
      BY <2>1, <2>2
<1>3. QED
    BY <1>1, <1>2 DEF Started, Sims, IsMoment

\* A step of a simulation.
LEMMA StepFits ==
    ASSUME NEW p, IsPast(p), NEW s \in Sims, s.now < MaxTs, \A tag \in Tags : s.since[tag] <= s.now,
           NEW m \in NextMoments(p, s)
    PROVE  /\ IsMoment(m)
           /\ Advanced(s, m) \in Sims
           /\ Advanced(s, m).now = s.now + 1 /\ Advanced(s, m).image = m.image
           /\ Advanced(s, m).saved = s.saved
           /\ \A tag \in Tags : Advanced(s, m).since[tag] <= s.now + 1
<1>1. s.now + 1 \in StartTs..MaxTs
    BY RetentiveAssumption DEF Sims
<1>2. IsMoment(m)
  <2>1. CASE Lived(p, s.origin, s.now + 1)
      BY <2>1 DEF NextMoments, Lived, IsPast
  <2>2. CASE ~Lived(p, s.origin, s.now + 1)
    <3>1. PICK state \in CellStates, part \in {NoPart, "good", "scrap"} :
              /\ m.image = [Counted(s.image, part) EXCEPT !.State = state]
              /\ "image" \in DOMAIN m
              /\ part # NoPart => s.image.good + s.image.scrap < MaxParts
      <4> DEFINE states(idle) == IF idle < MaxIdle THEN CellStates ELSE Working
                 parts == {NoPart} \cup IF s.image.State \in Working /\ s.image.good + s.image.scrap < MaxParts
                                        THEN PartKinds ELSE {}
      <4>1. \A idle : states(idle) \subseteq CellStates
          BY RetentiveAssumption
      <4>2. /\ parts \subseteq {NoPart, "good", "scrap"}
            /\ \A part \in parts : part # NoPart => s.image.good + s.image.scrap < MaxParts
          BY RetentiveAssumption
      <4> HIDE DEF states
      <4>3. PICK state \in states(Cardinality({t \in DOMAIN p : p[t].image.State \notin Working})),
                 part \in parts :
                m = [image |-> [Counted(s.image, part) EXCEPT !.State = state],
                     before |-> state, part |-> part, origin |-> s.origin, observed |-> FALSE]
          BY <2>2 DEF NextMoments, states
      <4>4. QED
          BY <4>1, <4>2, <4>3
    <3>2. s.image \in CellImages
        BY DEF Sims
    <3>3. QED
        BY <3>1, <3>2, CountedFits DEF IsMoment
  <2>3. QED
      BY <2>1, <2>2
<1> DEFINE a == Advanced(s, m)
<1>3. /\ DOMAIN a = {"on", "now", "image", "since", "origin", "saved"}
      /\ a = [field \in DOMAIN a |-> a[field]]
      /\ a.on = s.on /\ a.now = s.now + 1 /\ a.image = m.image /\ a.origin = s.origin /\ a.saved = s.saved
      /\ a.since = [tag \in Tags |-> IF tag \in Changed(s, m) THEN s.now + 1 ELSE s.since[tag]]
  <2> DEFINE changed == Changed(s, m)
             since == [tag \in Tags |-> IF tag \in changed THEN s.now + 1 ELSE s.since[tag]]
  <2>1. DOMAIN s = {"on", "now", "image", "since", "origin", "saved"}
      BY DEF Sims
  <2>2. a = [s EXCEPT !.now = s.now + 1, !.image = m.image, !.since = since]
      BY DEF Advanced
  <2> HIDE DEF a, since
  <2>3. /\ DOMAIN a = {"on", "now", "image", "since", "origin", "saved"}
        /\ a = [field \in DOMAIN a |-> a[field]]
        /\ a.on = s.on /\ a.now = s.now + 1 /\ a.image = m.image /\ a.origin = s.origin /\ a.saved = s.saved
        /\ a.since = since
      BY <2>1, <2>2
  <2>4. QED
      BY <2>3 DEF since
<1>4. /\ s.on = TRUE /\ s.origin \in Files /\ s.saved \in BOOLEAN
      /\ s.since \in [Tags -> StartTs..MaxTs]
      /\ s.now \in Int
  <2> HIDE DEF a
  <2>1. s.now \in StartTs..MaxTs /\ StartTs \in Int /\ MaxTs \in Int
      BY RetentiveAssumption DEF Sims
  <2>2. s.on = TRUE /\ s.origin \in Files /\ s.saved \in BOOLEAN /\ s.since \in [Tags -> StartTs..MaxTs]
      BY DEF Sims
  <2>3. QED
      BY <2>1, <2>2
<1>5. /\ a.since \in [Tags -> StartTs..MaxTs]
      /\ \A tag \in Tags : a.since[tag] <= s.now + 1
  <2> DEFINE changed == Changed(s, m)
  <2>1. a.since = [tag \in Tags |-> IF tag \in changed THEN s.now + 1 ELSE s.since[tag]]
      BY <1>3
  <2> HIDE DEF a, changed
  <2>2. QED
      BY <1>1, <1>4, <2>1, RetentiveAssumption
<1> HIDE DEF a
<1>6. a = [on |-> a.on, now |-> a.now, image |-> a.image, since |-> a.since, origin |-> a.origin,
           saved |-> a.saved]
    BY <1>3
<1>7. a \in Sims
    BY <1>1, <1>2, <1>3, <1>4, <1>5, <1>6 DEF Sims, IsMoment
<1>8. QED
    BY <1>2, <1>3, <1>5, <1>7 DEF a

\* The past, with one more instant.
LEMMA PastFits ==
    ASSUME NEW p, IsPast(p), NEW ts \in StartTs..MaxTs, NEW m, IsMoment(m)
    PROVE  /\ IsPast(Extended(p, ts, m)) /\ IsPast(Extended(p, ts, Observed(m)))
           /\ IsMoment(Observed(m)) /\ Observed(m).image = m.image
           /\ ts \in DOMAIN Extended(p, ts, m) /\ ts \in DOMAIN Extended(p, ts, Observed(m))
           /\ Extended(p, ts, m)[ts] = m /\ Extended(p, ts, Observed(m))[ts] = Observed(m)
<1>1. IsMoment(Observed(m)) /\ Observed(m).image = m.image
    BY DEF Observed, IsMoment
<1>2. ASSUME NEW o, IsMoment(o)
      PROVE  IsPast(Extended(p, ts, o)) /\ ts \in DOMAIN Extended(p, ts, o) /\ Extended(p, ts, o)[ts] = o
    BY <1>2 DEF Extended, IsPast
<1>3. QED
    BY <1>1, <1>2

-----------------------------------------------------------------------------

(* What each process does to the database.                                 *)

\* The tracker over groups issues one record of operations for each, at its
\* instant.
LEMMA Tracked ==
    ASSUME NEW N \in Nat, N <= MaxTs, NEW trk, NEW groups \in Seq(GroupsUpTo(N))
    PROVE  /\ TrackAll(trk, groups).ops = OpsOver(trk, groups)
           /\ TrackAll(trk, groups).trk = MemoriesOf(trk, groups)[Len(groups)]
           /\ Len(OpsOver(trk, groups)) = Len(groups)
           /\ \A i \in 1..Len(groups) : /\ OpsOver(trk, groups)[i].ts \in 1..MaxTs
                                        /\ IsGroup(MaxTs, Values, groups[i])
<1>1. MaxTs \in Nat /\ Len(groups) \in Nat
    BY RetentiveAssumption
<1>2. ASSUME NEW i \in 1..Len(groups)
      PROVE  IsGroup(MaxTs, Values, groups[i])
  <2>1. groups[i] \in GroupsUpTo(N)
      OBVIOUS
  <2>2. groups[i].ts \in 1..MaxTs
      BY <1>1, <2>1 DEF GroupsUpTo
  <2>3. \A tag \in DOMAIN groups[i].values : groups[i].values[tag] \in Values
    <3>1. PICK T \in SUBSET Tags : groups[i].values \in [T -> Values]
        BY <2>1 DEF GroupsUpTo
    <3>2. QED
        BY <3>1
  <2>4. QED
      BY <2>2, <2>3 DEF IsGroup
<1>3. \A i \in 1..Len(groups) : IsGroup(MaxTs, Values, groups[i])
    BY <1>2
<1>4. /\ TrackAll(trk, groups).ops = OpsOver(trk, groups)
      /\ TrackAll(trk, groups).trk = MemoriesOf(trk, groups)[Len(groups)]
      /\ Len(OpsOver(trk, groups)) = Len(groups)
      /\ \A i \in 1..Len(groups) : OpsOver(trk, groups)[i].ts \in 1..MaxTs
    BY <1>1, <1>3, OpsOfGroups
<1>5. QED
    BY <1>3, <1>4

\* The first group of a history, with every tag, makes a cell event.
LEMMA FirstEvent ==
    ASSUME NEW N \in Nat, NEW groups \in Seq(GroupsUpTo(N)), groups # <<>>,
           DOMAIN groups[1].values = Tags
    PROVE  "CELL" \in DOMAIN OpsOver(EmptyTracker, groups)[1].events
<1> DEFINE g == groups[1]
           trk == EmptyTracker
           latest == Observe(trk.latest, g)
           changed == {s \in Scope : Changes(trk, latest, g, s)}
<1>1. 1 \in 1..Len(groups) /\ g \in GroupsUpTo(N) /\ g.ts > 0
  <2>1. 1 \in 1..Len(groups)
      OBVIOUS
  <2>2. g \in GroupsUpTo(N)
      BY <2>1
  <2> HIDE DEF g
  <2>3. g.ts \in 1..N
      BY <2>2 DEF GroupsUpTo
  <2>4. QED
      BY <2>1, <2>2, <2>3
<1>2. MemoriesOf(trk, groups)[0] = trk
    BY MemoriesExist DEF MemoryByMemory
<1>3. OpsOver(trk, groups)[1] = OpsFor(trk, g)
    BY <1>1, <1>2 DEF OpsOver
<1>4. /\ "CELL" \in Scope /\ TagsOf["CELL"] # {} /\ TagsOf["CELL"] \subseteq Tags
    BY TrackerAssumption, DeploymentAssumption
<1>5. /\ trk.latest = <<>> /\ trk.last["CELL"] = NoEvent
    BY <1>4 DEF EmptyTracker
<1>6. Known(latest, "CELL")
  <2>1. DOMAIN latest = DOMAIN trk.latest \cup DOMAIN g.values
      BY DEF Observe
  <2> HIDE DEF latest, trk, g
  <2>2. QED
      BY <1>4, <2>1 DEF Known, g
<1>7. Image(latest, "CELL") # <<>>
  <2>1. DOMAIN Image(latest, "CELL") = TagsOf["CELL"]
      BY DEF Image
  <2>2. DOMAIN <<>> = {}
      OBVIOUS
  <2> HIDE DEF latest
  <2>3. QED
      BY <1>4, <2>1, <2>2
<1>8. DOMAIN g.values \cap TagsOf["CELL"] # {}
    BY <1>4
<1>9. "CELL" \in changed
  <2> HIDE DEF latest, trk, g
  <2>1. QED
      BY <1>1, <1>4, <1>5, <1>6, <1>7, <1>8 DEF Changes, NoEvent
<1>10. DOMAIN OpsFor(trk, g).events = changed
    BY DEF OpsFor
<1>11. QED
  <2> HIDE DEF changed, trk, g
  <2>1. QED
      BY <1>3, <1>9, <1>10 DEF trk

\* What a tracker issues for a database that it remembers, the schema admits,
\* as long as there are no gaps.
LEMMA FlushAdmitted ==
    ASSUME NEW d, Shaped(MaxTs, d), Consistent(MaxTs, Values, d), d.gaps = <<>>,
           NEW trk, Remembers(trk, d), KnownTags(Values, trk.latest),
           NEW N \in Nat, N <= MaxTs, NEW groups \in Seq(GroupsUpTo(N)), NEW seen \in Nat
    PROVE  LET tracked == TrackAll(trk, groups)
               t == Transaction(d, tracked.ops, <<>>, seen)
           IN  /\ Accepted(t)
               /\ Consistent(MaxTs, Values, t) /\ Remembers(tracked.trk, t)
               /\ KnownTags(Values, tracked.trk.latest)
<1> DEFINE tracked == TrackAll(trk, groups)
           t == Transaction(d, tracked.ops, <<>>, seen)
<1>1. /\ tracked.ops = OpsOver(trk, groups) /\ Len(tracked.ops) = Len(groups)
      /\ \A i \in 1..Len(groups) : tracked.ops[i].ts \in 1..MaxTs /\ IsGroup(MaxTs, Values, groups[i])
    BY Tracked
<1>2. MaxTs \in Nat /\ Len(groups) \in Nat
    BY RetentiveAssumption
<1>3. /\ Consistent(MaxTs, Values, t) /\ Remembers(tracked.trk, t)
      /\ KnownTags(Values, tracked.trk.latest)
  <2>1. \A i \in 1..Len(groups) : IsGroup(MaxTs, Values, groups[i])
      BY <1>1
  <2> HIDE DEF tracked, t
  <2>2. QED
      BY <1>2, <2>1, TransactionTracked DEF tracked, t
<1>4. t.gaps = <<>>
  <2> DEFINE ops == tracked.ops
  <2>1. Len(ops) \in Nat /\ \A i \in 1..Len(ops) : ops[i].ts \in 1..MaxTs
      BY <1>1, <1>2
  <2> HIDE DEF ops
  <2>2. Committed(MaxTs, Transaction(d, ops, <<>>, seen), d, ops, <<>>, seen)
      BY <1>2, <2>1, TransactionShaped
  <2>3. QED
      BY <2>2, NoGapWritten DEF Committed, ops
<1> HIDE DEF t
<1>5. SingleOpen(t.stops)
  <2>1. t.events["CELL"] \in Tables(MaxTs, Images(Values, "CELL")) /\ StopsFollow(t.events["CELL"], t.stops)
      BY <1>3, TrackerAssumption DEF Consistent
  <2>2. QED
      BY <1>2, <2>1, StopsAreAdmitted
<1>6. SingleOpen(t.gaps)
  <2>1. DOMAIN <<>> = {} /\ {} \subseteq 1..MaxTs
      OBVIOUS
  <2>2. QED
      BY <1>2, <1>4, <2>1, OneOpen
<1>7. QED
    BY <1>3, <1>5, <1>6 DEF Accepted, t

\* A session: whatever it brings, the database stays admissible, loses no event
\* and has seen no more than the heartbeat.
LEMMA ReceiveFits ==
    ASSUME Shaped(MaxTs, db), Accepted(db), NEW c, NEW beat \in Nat,
           NEW groups \in Seq(GroupsUpTo(MaxTs)), Receive(c, beat, groups)
    PROVE  /\ Shaped(MaxTs, db') /\ Accepted(db')
           /\ DOMAIN col' = DOMAIN NoCol /\ col'.on \in BOOLEAN /\ col'.linked \in BOOLEAN
           /\ col'.linked => col'.on
           /\ db'.lastSeen \in {db.lastSeen, Seen(db.lastSeen, beat)}
           /\ DOMAIN db.events["CELL"] \subseteq DOMAIN db'.events["CELL"]
<1> DEFINE tracked == TrackAll(c.trk, groups)
           gapOps == Wd!HeartbeatOps(c.wd, beat)
           tables == Transaction(db, tracked.ops, gapOps, beat)
           next == [on |-> TRUE, linked |-> TRUE, trk |-> tracked.trk,
                    wd |-> Wd!AfterHeartbeat(c.wd, beat)]
<1>1. IF Accepted(tables) THEN db' = tables /\ col' = next
                          ELSE col' = NoCol /\ db' = db
    BY DEF Receive
<1>2. Committed(MaxTs, tables, db, tracked.ops, gapOps, beat)
  <2>1. /\ Len(tracked.ops) \in Nat
        /\ \A i \in 1..Len(tracked.ops) : tracked.ops[i].ts \in 1..MaxTs
    <3>1. MaxTs \in Nat /\ MaxTs <= MaxTs /\ Len(groups) \in Nat
        BY RetentiveAssumption
    <3>2. /\ tracked.ops = OpsOver(c.trk, groups)
          /\ Len(OpsOver(c.trk, groups)) = Len(groups)
          /\ \A i \in 1..Len(groups) : OpsOver(c.trk, groups)[i].ts \in 1..MaxTs
        BY <3>1, Tracked
    <3> HIDE DEF tracked
    <3>3. QED
        BY <3>1, <3>2
  <2> DEFINE ops == tracked.ops
  <2>2. Len(ops) \in Nat /\ \A i \in 1..Len(ops) : ops[i].ts \in 1..MaxTs
      BY <2>1
  <2> HIDE DEF ops, tracked, gapOps
  <2>3. Committed(MaxTs, Transaction(db, ops, gapOps, beat), db, ops, gapOps, beat)
    <3>1. MaxTs \in Nat
        BY RetentiveAssumption
    <3>2. QED
        BY <2>2, <3>1, TransactionShaped
  <2>4. QED
      BY <2>3 DEF ops
<1>3. DOMAIN NoCol = {"on", "linked", "trk", "wd"} /\ NoCol.on = FALSE /\ NoCol.linked = FALSE
    BY DEF NoCol
<1> HIDE DEF tables, tracked, gapOps
<1>4. /\ Shaped(MaxTs, tables) /\ tables.lastSeen = Seen(db.lastSeen, beat)
      /\ DOMAIN db.events["CELL"] \subseteq DOMAIN tables.events["CELL"]
    BY <1>2 DEF Committed
<1>5. CASE Accepted(tables)
  <2>1. db' = tables /\ col' = next
      BY <1>1, <1>5
  <2>2. QED
      BY <1>3, <1>4, <1>5, <2>1
<1>6. CASE ~Accepted(tables)
  <2>1. db' = db /\ col' = NoCol
      BY <1>1, <1>6
  <2>2. QED
      BY <1>3, <2>1
<1>7. QED
    BY <1>5, <1>6

-----------------------------------------------------------------------------

(* Every step keeps the invariant.                                         *)

\* The constants.
LEMMA Instants ==
    /\ StartTs \in Nat /\ StartTs > 0 /\ SeedUntil \in Nat /\ MaxTs \in Nat
    /\ StartTs <= SeedUntil /\ SeedUntil <= MaxTs
    /\ MaxParts \in Nat /\ Batch \in Nat /\ Batch > 0
    /\ Lookahead \in Nat /\ SaveEvery \in Nat /\ Lookahead > SaveEvery
BY RetentiveAssumption, DeploymentAssumption

\* What there is before a state file.
LEMMA FreshFits ==
    /\ Fresh \in Files /\ Fresh.good + Fresh.scrap <= MaxParts
    /\ ResumeTs(Fresh) = StartTs
BY Instants DEF Fresh, Files, ResumeTs

\* What is saved.
LEMMA SnapshotFits ==
    ASSUME NEW s \in Sims, NEW clean \in BOOLEAN
    PROVE  LET f == Snapshot(s, clean)
           IN  /\ f \in Files /\ f.good + f.scrap <= MaxParts /\ f # Fresh
               /\ f.clean = clean /\ f.simTime = s.now
               /\ ResumeTs(f) = IF clean THEN s.now ELSE s.now + Lookahead
               /\ ~clean => f.highWater = s.now + Lookahead
<1> DEFINE f == Snapshot(s, clean)
           high == s.now + (IF clean THEN 0 ELSE Lookahead)
<1>1. s.now \in StartTs..MaxTs /\ s.image \in CellImages
    BY DEF Sims
<1>2. s.image.good \in Nat /\ s.image.scrap \in Nat /\ s.image.good + s.image.scrap <= MaxParts
    BY <1>1 DEF CellImages
<1>3. high \in Nat /\ high > 0
    BY <1>1, Instants
<1>4. f = [clean |-> clean, simTime |-> s.now, highWater |-> high,
           good |-> s.image.good, scrap |-> s.image.scrap]
    BY DEF Snapshot
<1> HIDE DEF f
<1>5. f \in Files
    BY <1>1, <1>2, <1>3, <1>4 DEF Files
<1>6. f # Fresh
    BY <1>3, <1>4 DEF Fresh
<1>7. QED
    BY <1>1, <1>2, <1>3, <1>4, <1>5, <1>6, Instants DEF f, ResumeTs

\* A simulation that runs.
LEMMA Running ==
    ASSUME TypeInv, sim.on
    PROVE  sim \in Sims /\ sim.now \in StartTs..MaxTs /\ sim.saved \in BOOLEAN
<1>1. sim \in Sims
    BY DEF TypeInv, Off
<1>2. QED
    BY <1>1 DEF Sims

\* No seed.
LEMMA NoSeederFits ==
    DOMAIN NoSeeder = {"trk", "groups"} /\ NoSeeder.groups \in Seq(GroupsUpTo(SeedUntil))
<1>1. DOMAIN NoSeeder = {"trk", "groups"} /\ NoSeeder.groups = <<>>
    BY DEF NoSeeder
<1>2. <<>> \in Seq(GroupsUpTo(SeedUntil))
    OBVIOUS
<1>3. QED
    BY <1>1, <1>2

\* docker compose up: it seeds only what is empty, or what nobody used yet.
LEMMA UpKeeps == DeploymentInv /\ Up => DeploymentInv'
<1> SUFFICES ASSUME DeploymentInv, Up
             PROVE  DeploymentInv'
    OBVIOUS
<1>1. /\ TypeInv /\ SeedInv /\ FirstSeedInv /\ FileInv /\ TimeInv
      /\ phase = "down" /\ sim = Off /\ ~sim.on /\ col = NoCol
      /\ UNCHANGED <<col, file, db, failures, live, excused>>
  <2>1. TypeInv /\ SeedInv /\ FirstSeedInv /\ FileInv /\ TimeInv
      BY DEF DeploymentInv
  <2>2. phase = "down" /\ UNCHANGED <<col, file, db, failures, live, excused>>
      BY DEF Up
  <2>3. QED
      BY <2>1, <2>2 DEF TypeInv, Off
<1>2. CASE AlreadySeeded /\ phase' = "up" /\ UNCHANGED <<sim, seeder, past>>
  <2>1. TypeInv'
      BY <1>1, <1>2 DEF TypeInv, Shaped, Accepted, IsPast, IsMoment
  <2>2. SeedInv'
      BY <1>1, <1>2 DEF SeedInv, AlreadySeeded, CellEvents
  <2>3. FirstSeedInv'
    <3>1. DOMAIN <<>> = {} /\ "CELL" \in Scope
        BY TrackerAssumption
    <3>2. db # EmptyDb
        BY <1>2, <3>1 DEF AlreadySeeded, CellEvents, EmptyDb
    <3>3. QED
        BY <1>1, <3>2 DEF FirstSeedInv
  <2>4. FileInv'
      BY <1>1, <1>2 DEF FileInv
  <2>5. TimeInv'
      BY <1>1, <1>2 DEF TimeInv
  <2>6. QED
      BY <2>1, <2>2, <2>3, <2>4, <2>5 DEF DeploymentInv
<1>3. CASE ~(AlreadySeeded /\ phase' = "up" /\ UNCHANGED <<sim, seeder, past>>)
  <2>1. /\ AlreadySeeded => ~live
        /\ phase' = "seeding"
        /\ seeder' = [NoSeeder EXCEPT !.groups = GroupsOf(sim', Tags)]
      BY <1>3 DEF Up
  <2>2. PICK moment \in FirstMoments(past, Fresh) :
            sim' = Started(Fresh, moment) /\ past' = Extended(past, StartTs, Observed(moment))
      BY <1>3 DEF Up
  <2>3. ~live
      BY <1>1, <2>1 DEF SeedInv
  <2>4. /\ IsMoment(moment) /\ sim' \in Sims /\ sim'.now = StartTs /\ sim'.image = moment.image
        /\ \A tag \in Tags : sim'.since[tag] = StartTs
        /\ ~sim'.saved
    <3>1. IsPast(past)
        BY <1>1 DEF TypeInv
    <3>2. StartTs <= ResumeTs(Fresh) /\ ResumeTs(Fresh) <= MaxTs
        BY FreshFits, Instants
    <3>3. QED
        BY <2>2, <3>1, <3>2, FreshFits, StartFits
  <2>5. /\ IsPast(past') /\ StartTs \in DOMAIN past' /\ past'[StartTs].image = moment.image
    <3>1. StartTs \in StartTs..MaxTs /\ IsPast(past)
        BY <1>1, Instants DEF TypeInv
    <3>2. QED
        BY <2>2, <2>4, <3>1, PastFits
  <2>6. /\ DOMAIN seeder' = {"trk", "groups"} /\ seeder'.trk = EmptyTracker
        /\ seeder'.groups \in Seq(GroupsUpTo(SeedUntil)) /\ seeder'.groups # <<>>
        /\ DOMAIN seeder'.groups[1].values = Tags
    <3>1. sim'.image \in CellImages
        BY <2>4 DEF Sims
    <3>2. \A tag \in Tags : sim'.since[tag] \in 1..SeedUntil
        BY <2>4, Instants
    <3>3. GroupsOf(sim', Tags) \in Seq(GroupsUpTo(SeedUntil))
        BY <3>1, <3>2, Instants, GroupsOfFit
    <3>4. GroupsOf(sim', Tags) # <<>> /\ DOMAIN GroupsOf(sim', Tags)[1].values = Tags
        BY <2>4, Instants, FirstGroup
    <3>5. seeder'.trk = EmptyTracker /\ seeder'.groups = GroupsOf(sim', Tags)
          /\ DOMAIN seeder' = {"trk", "groups"}
        BY <2>1 DEF NoSeeder
    <3>6. QED
        BY <3>3, <3>4, <3>5
  <2>7. sim'.on
      BY <2>4 DEF Sims
  <2>8. TypeInv'
    <3>1. \A tag \in Tags : sim'.since[tag] <= sim'.now
        BY <2>4, Instants
    <3>2. sim'.now <= SeedUntil
        BY <2>4, Instants
    <3>3. Shaped(MaxTs, db') /\ Accepted(db')
        BY <1>1 DEF TypeInv
    <3>4. sim'.now \in DOMAIN past' /\ sim'.image = past'[sim'.now].image
        BY <2>4, <2>5
    <3>5. QED
        BY <1>1, <2>1, <2>4, <2>5, <2>6, <2>7, <3>1, <3>2, <3>3, <3>4 DEF TypeInv, NoCol
  <2>9. SeedInv'
      BY <1>1, <2>1, <2>3, <2>6 DEF SeedInv, AlreadySeeded, CellEvents
  <2>10. FirstSeedInv'
    <3>1. SUFFICES ASSUME excused \cap Behind = {}, file = Fresh
                   PROVE  Consistent(MaxTs, Values, db) /\ Remembers(EmptyTracker, db)
                          /\ KnownTags(Values, EmptyTracker.latest)
        BY <1>1, <2>1, <2>3, <2>6 DEF FirstSeedInv
    <3>2. db = EmptyDb
        BY <1>1, <2>3, <3>1 DEF FirstSeedInv
    <3>3. QED
        BY <3>2, EmptyDbConsistent, EmptyRemembers, Instants
  <2>11. FileInv'
      BY <1>1, <2>1 DEF FileInv
  <2>12. TimeInv'
      BY <2>1 DEF TimeInv
  <2>13. QED
      BY <2>8, <2>9, <2>10, <2>11, <2>12 DEF DeploymentInv
<1>4. QED
    BY <1>2, <1>3

\* The seed simulates one more instant.
LEMMA SeedStepKeeps == DeploymentInv /\ SeedStep => DeploymentInv'
<1> SUFFICES ASSUME DeploymentInv, SeedStep
             PROVE  DeploymentInv'
    OBVIOUS
<1>1. TypeInv /\ SeedInv /\ FirstSeedInv /\ FileInv /\ TimeInv
    BY DEF DeploymentInv
<1>2. /\ phase = "seeding" /\ sim.now < SeedUntil
      /\ UNCHANGED <<phase, col, file, db, failures, live, excused>>
    BY DEF SeedStep
<1>3. PICK moment \in NextMoments(past, sim) :
          /\ sim' = Advanced(sim, moment)
          /\ past' = Extended(past, sim.now + 1, Observed(moment))
          /\ seeder' = [seeder EXCEPT !.groups = @ \o GroupsOf(sim', Changed(sim, moment))]
    BY DEF SeedStep
<1>4. sim \in Sims /\ sim.on /\ sim.now \in StartTs..MaxTs /\ \A tag \in Tags : sim.since[tag] <= sim.now
  <2>1. sim \in Sims
      BY <1>1, <1>2 DEF TypeInv
  <2>2. sim.on = TRUE /\ sim.now \in StartTs..MaxTs
      BY <2>1 DEF Sims
  <2>3. QED
      BY <1>1, <2>1, <2>2 DEF TypeInv
<1>5. /\ IsMoment(moment) /\ sim' \in Sims /\ sim'.now = sim.now + 1 /\ sim'.image = moment.image
      /\ \A tag \in Tags : sim'.since[tag] <= sim.now + 1
  <2>1. IsPast(past)
      BY <1>1 DEF TypeInv
  <2>2. sim.now < MaxTs
      BY <1>2, <1>4, Instants
  <2>3. QED
      BY <1>3, <1>4, <2>1, <2>2, StepFits
<1>6. /\ IsPast(past') /\ sim.now + 1 \in DOMAIN past' /\ past'[sim.now + 1].image = moment.image
  <2>1. sim.now + 1 \in StartTs..MaxTs /\ IsPast(past)
      BY <1>1, <1>2, <1>4, Instants DEF TypeInv
  <2>2. QED
      BY <1>3, <1>5, <2>1, PastFits
<1> DEFINE new == GroupsOf(sim', Changed(sim, moment))
<1>7. new \in Seq(GroupsUpTo(SeedUntil))
  <2>1. Changed(sim, moment) \in SUBSET Tags
      BY DEF Changed
  <2>2. sim'.image \in CellImages
      BY <1>5 DEF Sims
  <2>3. \A tag \in Tags : sim'.since[tag] \in 1..SeedUntil
    <3>1. sim'.since \in [Tags -> StartTs..MaxTs]
        BY <1>5 DEF Sims
    <3>2. QED
        BY <1>2, <1>4, <1>5, <3>1, Instants
  <2>4. QED
      BY <2>1, <2>2, <2>3, Instants, GroupsOfFit
<1>8. DOMAIN seeder = {"trk", "groups"} /\ seeder.groups \in Seq(GroupsUpTo(SeedUntil))
    BY <1>1 DEF TypeInv
<1> HIDE DEF new
<1>9. /\ DOMAIN seeder' = {"trk", "groups"} /\ seeder'.trk = seeder.trk
      /\ seeder'.groups = seeder.groups \o new
    BY <1>3, <1>8 DEF new
<1>10. /\ seeder'.groups \in Seq(GroupsUpTo(SeedUntil))
       /\ seeder.groups # <<>> => seeder'.groups # <<>> /\ seeder'.groups[1] = seeder.groups[1]
  <2> DEFINE old == seeder.groups
             G == GroupsUpTo(SeedUntil)
  <2>1. old \in Seq(G) /\ new \in Seq(G) /\ seeder'.groups = old \o new
      BY <1>7, <1>8, <1>9
  <2> HIDE DEF old, G
  <2>2. old \o new \in Seq(G) /\ (old # <<>> => old \o new # <<>> /\ (old \o new)[1] = old[1])
      BY <2>1
  <2>3. QED
      BY <2>1, <2>2 DEF old, G
<1>11. TypeInv'
  <2>1. sim'.on /\ sim'.now <= SeedUntil
    <3>1. sim'.on = TRUE
        BY <1>5 DEF Sims
    <3>2. QED
        BY <1>2, <1>4, <1>5, <3>1, Instants
  <2>2. sim'.now \in DOMAIN past' /\ sim'.image = past'[sim'.now].image
      BY <1>5, <1>6
  <2>3. \A tag \in Tags : sim'.since[tag] <= sim'.now
      BY <1>5
  <2>4. Shaped(MaxTs, db') /\ Accepted(db')
      BY <1>1, <1>2 DEF TypeInv
  <2>5. QED
      BY <1>1, <1>2, <1>5, <1>6, <1>9, <1>10, <2>1, <2>2, <2>3, <2>4 DEF TypeInv
<1>12. SeedInv'
    BY <1>1, <1>2, <1>9, <1>10 DEF SeedInv, AlreadySeeded, CellEvents
<1>13. FirstSeedInv'
    BY <1>1, <1>2, <1>9 DEF FirstSeedInv
<1>14. FileInv'
    BY <1>1, <1>2 DEF FileInv
<1>15. TimeInv'
    BY <1>2 DEF TimeInv
<1>16. QED
    BY <1>11, <1>12, <1>13, <1>14, <1>15 DEF DeploymentInv

\* The seed writes a batch: the first one stores a cell event, and the schema
\* refuses none of them while the seed is the only writer there ever was.
LEMMA SeedFlushKeeps == DeploymentInv /\ SeedFlush => DeploymentInv'
<1> SUFFICES ASSUME DeploymentInv, SeedFlush
             PROVE  DeploymentInv'
    OBVIOUS
<1> DEFINE groups == seeder.groups
           ts == Last(groups).ts
           tracked == TrackAll(seeder.trk, groups)
           ops == tracked.ops
           tables == Transaction(db, ops, <<>>, ts)
<1>1. TypeInv /\ SeedInv /\ FirstSeedInv /\ FileInv /\ TimeInv
    BY DEF DeploymentInv
<1>2. /\ phase = "seeding" /\ DueToFlush
      /\ UNCHANGED <<col, file, failures, past, live, excused>>
    BY DEF SeedFlush, MayFlush
<1>3. IF Accepted(tables)
      THEN db' = tables /\ seeder' = [trk |-> tracked.trk, groups |-> <<>>] /\ UNCHANGED <<phase, sim>>
      ELSE phase' = "down" /\ sim' = Off /\ seeder' = NoSeeder /\ UNCHANGED db
    BY DEF SeedFlush
<1>4. /\ ~live /\ col = NoCol /\ db.gaps = <<>> /\ db.lastSeen <= SeedUntil
      /\ file = Fresh \/ (file.clean /\ file.simTime = SeedUntil)
    BY <1>1, <1>2 DEF SeedInv
<1>5. groups \in Seq(GroupsUpTo(SeedUntil)) /\ groups # <<>> /\ Len(groups) \in Nat /\ Len(groups) > 0
  <2>1. groups \in Seq(GroupsUpTo(SeedUntil))
      BY <1>1 DEF TypeInv
  <2>2. Len(<<>>) = 0 /\ ~(0 >= Batch)
      BY Instants
  <2>3. groups # <<>>
      BY <1>2, <2>2 DEF DueToFlush
  <2> HIDE DEF groups
  <2>4. QED
      BY <2>1, <2>3
<1>6. ts \in 1..SeedUntil
  <2>1. groups[Len(groups)] \in GroupsUpTo(SeedUntil)
    <3> HIDE DEF groups
    <3>1. QED
        BY <1>5
  <2>2. QED
      BY <2>1 DEF Last, GroupsUpTo
<1>7. /\ ops = OpsOver(seeder.trk, groups) /\ Len(ops) = Len(groups)
      /\ \A i \in 1..Len(ops) : ops[i].ts \in 1..MaxTs
  <2> HIDE DEF groups
  <2>1. /\ TrackAll(seeder.trk, groups).ops = OpsOver(seeder.trk, groups)
        /\ Len(OpsOver(seeder.trk, groups)) = Len(groups)
        /\ \A i \in 1..Len(groups) : OpsOver(seeder.trk, groups)[i].ts \in 1..MaxTs
      BY <1>5, Instants, Tracked
  <2>2. QED
      BY <2>1
<1>8. Shaped(MaxTs, db) /\ Accepted(db)
    BY <1>1 DEF TypeInv
<1>9. Committed(MaxTs, tables, db, ops, <<>>, ts)
  <2>1. Len(ops) \in Nat /\ ts \in Nat /\ MaxTs \in Nat
      BY <1>5, <1>6, <1>7, Instants
  <2> HIDE DEF ops, ts, groups
  <2>2. QED
      BY <1>7, <1>8, <2>1, TransactionShaped
<1> HIDE DEF tables, ts, ops
<1>10. CASE Accepted(tables)
  <2>1. /\ db' = tables /\ seeder' = [trk |-> tracked.trk, groups |-> <<>>]
        /\ phase' = phase /\ sim' = sim
      BY <1>3, <1>10
  <2>2. /\ Shaped(MaxTs, db') /\ Accepted(db')
        /\ db'.lastSeen = Seen(db.lastSeen, ts) /\ db'.gaps = <<>>
        /\ DOMAIN db.events["CELL"] \subseteq DOMAIN db'.events["CELL"]
        /\ Len(ops) > 0 /\ "CELL" \in DOMAIN ops[1].events => DOMAIN db'.events["CELL"] # {}
    <3>1. WriteGaps(db.gaps, <<>>) = db.gaps
        BY NoGapWritten
    <3>2. QED
        BY <1>4, <1>9, <1>10, <2>1, <3>1 DEF Committed
  <2>3. db'.lastSeen <= SeedUntil
      BY <1>4, <1>6, <2>2 DEF Seen
  <2>4. DOMAIN db'.events["CELL"] # {}
    <3>1. CASE AlreadySeeded
        BY <2>2, <3>1 DEF AlreadySeeded, CellEvents
    <3>2. CASE ~AlreadySeeded
      <4>1. seeder.trk = EmptyTracker /\ DOMAIN groups[1].values = Tags
          BY <1>1, <1>2, <3>2 DEF SeedInv
      <4> HIDE DEF groups
      <4>2. "CELL" \in DOMAIN ops[1].events
          BY <1>5, <1>7, <4>1, Instants, FirstEvent
      <4>3. QED
          BY <1>5, <1>7, <2>2, <4>2
    <3>3. QED
        BY <3>1, <3>2
  <2>5. TypeInv'
    <3>1. DOMAIN seeder' = {"trk", "groups"} /\ seeder'.groups \in Seq(GroupsUpTo(SeedUntil))
        BY <2>1
    <3>2. QED
        BY <1>1, <1>2, <2>1, <2>2, <3>1 DEF TypeInv
  <2>6. SeedInv'
      BY <1>1, <1>2, <1>4, <2>1, <2>2, <2>3, <2>4 DEF SeedInv, AlreadySeeded, CellEvents
  <2>7. FirstSeedInv'
    <3>1. SUFFICES ASSUME excused \cap Behind = {}, file = Fresh
                   PROVE  /\ Consistent(MaxTs, Values, db') /\ Remembers(tracked.trk, db')
                          /\ KnownTags(Values, tracked.trk.latest)
      <4> HIDE DEF tracked
      <4>1. QED
          BY <1>2, <1>4, <2>1 DEF FirstSeedInv
    <3>2. /\ Consistent(MaxTs, Values, db) /\ Remembers(seeder.trk, db)
          /\ KnownTags(Values, seeder.trk.latest)
        BY <1>1, <1>2, <1>4, <3>1 DEF FirstSeedInv
    <3> HIDE DEF groups
    <3>3. ts \in Nat
        BY <1>6
    <3>4. LET t == Transaction(db, TrackAll(seeder.trk, groups).ops, <<>>, ts)
          IN  /\ Accepted(t)
              /\ Consistent(MaxTs, Values, t) /\ Remembers(TrackAll(seeder.trk, groups).trk, t)
              /\ KnownTags(Values, TrackAll(seeder.trk, groups).trk.latest)
        BY <1>4, <1>5, <1>8, <3>2, <3>3, Instants, FlushAdmitted
    <3>5. QED
        BY <2>1, <3>4 DEF tables, ops
  <2>8. FileInv'
      BY <1>1, <1>2, <2>1 DEF FileInv
  <2>9. TimeInv'
      BY <1>2, <2>1 DEF TimeInv
  <2>10. QED
      BY <2>5, <2>6, <2>7, <2>8, <2>9 DEF DeploymentInv
<1>11. CASE ~Accepted(tables)
  <2>1. phase' = "down" /\ sim' = Off /\ seeder' = NoSeeder /\ UNCHANGED db
      BY <1>3, <1>11
  <2>2. ~sim'.on
      BY <2>1 DEF Off
  <2>3. ~(excused \cap Behind = {} /\ file = Fresh)
    <3>1. SUFFICES ASSUME excused \cap Behind = {}, file = Fresh
                   PROVE  FALSE
        OBVIOUS
    <3>2. /\ Consistent(MaxTs, Values, db) /\ Remembers(seeder.trk, db)
          /\ KnownTags(Values, seeder.trk.latest)
        BY <1>1, <1>2, <1>4, <3>1 DEF FirstSeedInv
    <3> HIDE DEF groups
    <3>3. ts \in Nat
        BY <1>6
    <3>4. LET t == Transaction(db, TrackAll(seeder.trk, groups).ops, <<>>, ts)
          IN  /\ Accepted(t)
              /\ Consistent(MaxTs, Values, t) /\ Remembers(TrackAll(seeder.trk, groups).trk, t)
              /\ KnownTags(Values, TrackAll(seeder.trk, groups).trk.latest)
        BY <1>4, <1>5, <1>8, <3>2, <3>3, Instants, FlushAdmitted
    <3>5. QED
        BY <1>11, <3>4 DEF tables, ops
  <2>4. TypeInv'
    <3>1. DOMAIN seeder' = {"trk", "groups"} /\ seeder'.groups \in Seq(GroupsUpTo(SeedUntil))
        BY <2>1, NoSeederFits
    <3>2. Shaped(MaxTs, db') /\ Accepted(db')
        BY <1>8, <2>1
    <3>3. col'.linked = FALSE
        BY <1>2, <1>4 DEF NoCol
    <3>4. QED
        BY <1>1, <1>2, <1>4, <2>1, <2>2, <3>1, <3>2, <3>3 DEF TypeInv
  <2>5. SeedInv'
      BY <1>1, <1>2, <1>4, <2>1 DEF SeedInv, AlreadySeeded, CellEvents
  <2>6. FirstSeedInv'
      BY <1>2, <2>3 DEF FirstSeedInv
  <2>7. FileInv'
      BY <1>1, <1>2, <2>1, <2>2 DEF FileInv
  <2>8. TimeInv'
    <3>1. excused \cap Behind = {} => ResumeTs(file) = SeedUntil
        BY <1>4, <2>3 DEF ResumeTs
    <3>2. QED
        BY <1>2, <1>4, <2>1, <2>2, <3>1 DEF TimeInv
  <2>9. QED
      BY <2>4, <2>5, <2>6, <2>7, <2>8 DEF DeploymentInv
<1>12. QED
    BY <1>10, <1>11

\* The seed leaves the file, at the end of the history that it wrote.
LEMMA HandOverKeeps == DeploymentInv /\ HandOver => DeploymentInv'
<1> SUFFICES ASSUME DeploymentInv, HandOver
             PROVE  DeploymentInv'
    OBVIOUS
<1>1. TypeInv /\ SeedInv /\ FirstSeedInv /\ FileInv /\ TimeInv
    BY DEF DeploymentInv
<1>2. /\ phase = "seeding" /\ sim.now = SeedUntil /\ ~DueToFlush
      /\ file' = Snapshot(sim, TRUE)
      /\ phase' = "up" /\ sim' = Off /\ seeder' = NoSeeder
      /\ excused' = excused \ {"seed interrupted"}
      /\ UNCHANGED <<col, db, failures, past, live>>
    BY DEF HandOver
<1>3. ~live /\ col = NoCol /\ db.gaps = <<>> /\ db.lastSeen <= SeedUntil
    BY <1>1, <1>2 DEF SeedInv
<1>4. AlreadySeeded
  <2>1. seeder.groups = <<>>
      BY <1>2 DEF DueToFlush
  <2>2. QED
      BY <1>1, <1>2, <2>1 DEF SeedInv
<1>5. /\ file' \in Files /\ file'.good + file'.scrap <= MaxParts /\ file' # Fresh
      /\ file'.clean /\ file'.simTime = SeedUntil /\ ResumeTs(file') = SeedUntil
  <2>1. sim \in Sims
      BY <1>1, <1>2 DEF TypeInv
  <2>2. QED
      BY <1>2, <2>1, SnapshotFits
<1>6. ~sim'.on
    BY <1>2 DEF Off
<1>7. TypeInv'
  <2>1. DOMAIN seeder' = {"trk", "groups"} /\ seeder'.groups \in Seq(GroupsUpTo(SeedUntil))
      BY <1>2, NoSeederFits
  <2>2. Shaped(MaxTs, db') /\ Accepted(db')
      BY <1>1, <1>2 DEF TypeInv
  <2>3. col'.linked = FALSE
      BY <1>2, <1>3 DEF NoCol
  <2>4. StartTs <= ResumeTs(file')
      BY <1>5, Instants
  <2>5. QED
      BY <1>1, <1>2, <1>3, <1>5, <1>6, <2>1, <2>2, <2>3, <2>4 DEF TypeInv
<1>8. SeedInv'
    BY <1>1, <1>2, <1>3, <1>4, <1>5, <1>6 DEF SeedInv, AlreadySeeded, CellEvents
<1>9. FirstSeedInv'
    BY <1>5 DEF FirstSeedInv
<1>10. FileInv'
    BY <1>2, <1>5, <1>6, Instants DEF FileInv
<1>11. TimeInv'
    BY <1>2, <1>3, <1>5, <1>6 DEF TimeInv
<1>12. QED
    BY <1>7, <1>8, <1>9, <1>10, <1>11 DEF DeploymentInv

\* The seed dies: what it had committed is excused, or there is none.
LEMMA SeedDiesKeeps == DeploymentInv /\ SeedDies => DeploymentInv'
<1> SUFFICES ASSUME DeploymentInv, SeedDies
             PROVE  DeploymentInv'
    OBVIOUS
<1>1. TypeInv /\ SeedInv /\ FirstSeedInv /\ FileInv /\ TimeInv
    BY DEF DeploymentInv
<1>2. /\ "seed" \in MayFail /\ phase = "seeding"
      /\ phase' = "down" /\ sim' = Off /\ seeder' = NoSeeder
      /\ failures' = failures \cup {"seed"}
      /\ excused' = excused \cup (IF AlreadySeeded THEN {"seed interrupted"} ELSE {})
      /\ UNCHANGED <<col, file, db, past, live>>
    BY DEF SeedDies
<1>3. ~live /\ col = NoCol
    BY <1>1, <1>2 DEF SeedInv
<1>4. ~sim'.on
    BY <1>2 DEF Off
<1>5. excused' \cap Behind = {} => excused \cap Behind = {} /\ ~AlreadySeeded /\ db = EmptyDb
    BY <1>1, <1>2 DEF Behind, SeedInv
<1>6. TypeInv'
  <2>1. DOMAIN seeder' = {"trk", "groups"} /\ seeder'.groups \in Seq(GroupsUpTo(SeedUntil))
      BY <1>2, NoSeederFits
  <2>2. Shaped(MaxTs, db') /\ Accepted(db')
      BY <1>1, <1>2 DEF TypeInv
  <2>3. col'.linked = FALSE
      BY <1>2, <1>3 DEF NoCol
  <2>4. excused' \subseteq Excuses
      BY <1>1, <1>2 DEF TypeInv, Excuses
  <2>5. QED
      BY <1>1, <1>2, <1>3, <1>4, <2>1, <2>2, <2>3, <2>4 DEF TypeInv
<1>7. SeedInv'
    BY <1>1, <1>2, <1>3 DEF SeedInv, AlreadySeeded, CellEvents
<1>8. FirstSeedInv'
    BY <1>2, <1>5 DEF FirstSeedInv
<1>9. FileInv'
    BY <1>1, <1>2, <1>4 DEF FileInv
<1>10. TimeInv'
  <2>1. SUFFICES ASSUME excused' \cap Behind = {}
                 PROVE  db.lastSeen <= ResumeTs(file)
      BY <1>2, <1>4 DEF TimeInv
  <2>2. db.lastSeen = 0
      BY <1>5, <2>1 DEF EmptyDb
  <2>3. ResumeTs(file) \in Nat
      BY <1>1, Instants DEF TypeInv, Files, ResumeTs
  <2>4. QED
      BY <2>2, <2>3
<1>11. QED
    BY <1>6, <1>7, <1>8, <1>9, <1>10 DEF DeploymentInv

\* The collector starts, repairing the open stop.
LEMMA CollectorStartsKeeps == DeploymentInv /\ CollectorStarts => DeploymentInv'
<1> SUFFICES ASSUME DeploymentInv, CollectorStarts
             PROVE  DeploymentInv'
    OBVIOUS
<1>1. TypeInv /\ SeedInv /\ FirstSeedInv /\ FileInv /\ TimeInv
    BY DEF DeploymentInv
<1>2. /\ phase = "up" /\ live
      /\ db' = Repair(db)
      /\ DOMAIN col' = {"on", "linked", "trk", "wd"} /\ col'.on = TRUE /\ col'.linked = FALSE
      /\ UNCHANGED <<phase, sim, seeder, file, failures, past, live, excused>>
    BY DEF CollectorStarts
<1>3. Shaped(MaxTs, db) /\ Accepted(db)
    BY <1>1 DEF TypeInv
<1>4. /\ Shaped(MaxTs, db') /\ Accepted(db')
      /\ db'.events = db.events /\ db'.gaps = db.gaps /\ db'.lastSeen = db.lastSeen
    BY <1>2, <1>3, Instants, RepairFits
<1>5. AlreadySeeded
    BY <1>1, <1>2 DEF SeedInv
<1>6. TypeInv'
  <2>1. DOMAIN col' = DOMAIN NoCol
      BY <1>2 DEF NoCol
  <2>2. QED
      BY <1>1, <1>2, <1>4, <2>1 DEF TypeInv
<1>7. SeedInv'
    BY <1>1, <1>2, <1>4, <1>5 DEF SeedInv, AlreadySeeded, CellEvents
<1>8. FirstSeedInv'
    BY <1>2 DEF FirstSeedInv
<1>9. FileInv'
    BY <1>1, <1>2 DEF FileInv
<1>10. TimeInv'
    BY <1>1, <1>2, <1>4 DEF TimeInv
<1>11. QED
    BY <1>6, <1>7, <1>8, <1>9, <1>10 DEF DeploymentInv

\* It connects, and receives the present values.
LEMMA ConnectKeeps == DeploymentInv /\ Connect => DeploymentInv'
<1> SUFFICES ASSUME DeploymentInv, Connect
             PROVE  DeploymentInv'
    OBVIOUS
<1> DEFINE c == [col EXCEPT !.wd = Wd!Connected(@)]
           groups == GroupsOf(sim, Tags)
<1>1. TypeInv /\ SeedInv /\ FirstSeedInv /\ FileInv /\ TimeInv
    BY DEF DeploymentInv
<1>2. /\ phase = "up" /\ sim.on
      /\ Receive(c, sim.now, groups)
      /\ past' = Extended(past, sim.now, Observed(past[sim.now]))
      /\ UNCHANGED <<phase, sim, seeder, file, failures, live, excused>>
    BY DEF Connect, MayConnect
<1>3. /\ sim \in Sims /\ sim.now \in StartTs..MaxTs /\ sim.now \in DOMAIN past
      /\ sim.image = past[sim.now].image /\ sim.image \in CellImages
  <2>1. sim \in Sims
      BY <1>1, <1>2 DEF TypeInv, Off
  <2>2. QED
      BY <1>1, <1>2, <2>1 DEF TypeInv, Sims
<1>4. groups \in Seq(GroupsUpTo(MaxTs))
  <2>1. \A tag \in Tags : sim.since[tag] \in 1..MaxTs
    <3>1. sim.since \in [Tags -> StartTs..MaxTs]
        BY <1>3 DEF Sims
    <3>2. QED
        BY <3>1, Instants
  <2>2. QED
      BY <1>3, <2>1, Instants, GroupsOfFit
<1>5. live /\ AlreadySeeded
    BY <1>1, <1>2 DEF SeedInv
<1> HIDE DEF c, groups
<1>6. /\ Shaped(MaxTs, db') /\ Accepted(db')
      /\ DOMAIN col' = DOMAIN NoCol /\ col'.on \in BOOLEAN /\ col'.linked \in BOOLEAN
      /\ col'.linked => col'.on
      /\ db'.lastSeen \in {db.lastSeen, Seen(db.lastSeen, sim.now)}
      /\ DOMAIN db.events["CELL"] \subseteq DOMAIN db'.events["CELL"]
  <2>1. Shaped(MaxTs, db) /\ Accepted(db) /\ sim.now \in Nat
      BY <1>1, <1>3, Instants DEF TypeInv
  <2>2. QED
      BY <1>2, <1>4, <2>1, ReceiveFits
<1>7. AlreadySeeded'
    BY <1>5, <1>6 DEF AlreadySeeded, CellEvents
<1>8. TypeInv'
  <2>1. /\ IsPast(past') /\ sim.now \in DOMAIN past'
        /\ past'[sim.now].image = sim.image
    <3>1. IsPast(past) /\ IsMoment(past[sim.now])
        BY <1>1, <1>3 DEF TypeInv, IsPast
    <3>2. QED
        BY <1>2, <1>3, <3>1, PastFits
  <2>2. QED
      BY <1>1, <1>2, <1>3, <1>6, <2>1 DEF TypeInv
<1>9. SeedInv'
    BY <1>2, <1>5, <1>7 DEF SeedInv
<1>10. FirstSeedInv'
    BY <1>2, <1>5 DEF FirstSeedInv
<1>11. FileInv'
    BY <1>1, <1>2 DEF FileInv
<1>12. TimeInv'
  <2>1. db.lastSeen <= sim.now => db'.lastSeen <= sim.now
      BY <1>3, <1>6, Instants DEF Seen
  <2>2. QED
      BY <1>1, <1>2, <2>1 DEF TimeInv
<1>13. QED
    BY <1>8, <1>9, <1>10, <1>11, <1>12 DEF DeploymentInv

\* It opens a gap.
LEMMA SilenceKeeps == DeploymentInv /\ Silence => DeploymentInv'
<1> SUFFICES ASSUME DeploymentInv, Silence
             PROVE  DeploymentInv'
    OBVIOUS
<1> DEFINE silent == [col.wd EXCEPT !.silence = Timeout + 1]
           gapOps == Wd!PollOps(silent)
           tables == Transaction(db, <<>>, gapOps, Never)
<1>1. TypeInv /\ SeedInv /\ FirstSeedInv /\ FileInv /\ TimeInv
    BY DEF DeploymentInv
<1>2. /\ phase = "up" /\ col.on
      /\ IF Accepted(tables)
         THEN db' = tables /\ col' = [col EXCEPT !.wd = Wd!AfterPoll(silent)]
         ELSE col' = NoCol /\ UNCHANGED db
      /\ UNCHANGED <<phase, sim, seeder, file, failures, past, live, excused>>
    BY DEF Silence
<1>3. Shaped(MaxTs, db) /\ Accepted(db) /\ db.lastSeen \in Nat
    BY <1>1 DEF TypeInv, Shaped
<1> HIDE DEF silent, gapOps
<1>4. /\ Shaped(MaxTs, tables) /\ tables.lastSeen = db.lastSeen
      /\ DOMAIN db.events["CELL"] \subseteq DOMAIN tables.events["CELL"]
  <2> DEFINE ops == <<>>
  <2>1. Len(ops) \in Nat /\ \A i \in 1..Len(ops) : ops[i].ts \in 1..MaxTs
      OBVIOUS
  <2> HIDE DEF ops
  <2>2. Committed(MaxTs, Transaction(db, ops, gapOps, 0), db, ops, gapOps, 0)
      BY <1>3, <2>1, Instants, TransactionShaped
  <2>3. Shaped(MaxTs, tables) /\ tables.lastSeen = Seen(db.lastSeen, 0)
        /\ DOMAIN db.events["CELL"] \subseteq DOMAIN tables.events["CELL"]
      BY <2>2 DEF Committed, ops
  <2> HIDE DEF tables
  <2>4. QED
      BY <1>3, <2>3 DEF Seen
<1>5. live /\ AlreadySeeded
  <2>1. NoCol.on = FALSE
      BY DEF NoCol
  <2>2. QED
      BY <1>1, <1>2, <2>1 DEF SeedInv
<1> HIDE DEF tables
<1>6. /\ Shaped(MaxTs, db') /\ Accepted(db') /\ db'.lastSeen = db.lastSeen
      /\ DOMAIN db.events["CELL"] \subseteq DOMAIN db'.events["CELL"]
    BY <1>2, <1>3, <1>4
<1>7. /\ DOMAIN col' = DOMAIN NoCol /\ col'.on \in BOOLEAN /\ col'.linked \in BOOLEAN
      /\ col'.linked => col'.on /\ sim.on
  <2>1. /\ DOMAIN NoCol = {"on", "linked", "trk", "wd"}
        /\ NoCol.on = FALSE /\ NoCol.linked = FALSE
      BY DEF NoCol
  <2>2. /\ DOMAIN col = DOMAIN NoCol /\ col.on \in BOOLEAN /\ col.linked \in BOOLEAN
        /\ col.linked => col.on /\ sim.on
      BY <1>1 DEF TypeInv
  <2>3. CASE col' = NoCol
      BY <2>1, <2>3
  <2>4. CASE col' = [col EXCEPT !.wd = Wd!AfterPoll(silent)]
    <3>1. DOMAIN col' = DOMAIN col /\ col'.on = col.on /\ col'.linked = col.linked
        BY <2>1, <2>2, <2>4
    <3>2. QED
        BY <2>2, <3>1
  <2>5. QED
      BY <1>2, <2>3, <2>4
<1>8. AlreadySeeded'
    BY <1>5, <1>6 DEF AlreadySeeded, CellEvents
<1>9. TypeInv'
    BY <1>1, <1>2, <1>6, <1>7 DEF TypeInv
<1>10. SeedInv'
    BY <1>2, <1>5, <1>8 DEF SeedInv
<1>11. FirstSeedInv'
    BY <1>2, <1>5 DEF FirstSeedInv
<1>12. FileInv'
    BY <1>1, <1>2 DEF FileInv
<1>13. TimeInv'
    BY <1>1, <1>2, <1>6 DEF TimeInv
<1>14. QED
    BY <1>9, <1>10, <1>11, <1>12, <1>13 DEF DeploymentInv

\* It dies.
LEMMA CollectorDiesKeeps == DeploymentInv /\ CollectorDies => DeploymentInv'
<1> SUFFICES ASSUME DeploymentInv, CollectorDies
             PROVE  DeploymentInv'
    OBVIOUS
<1>1. TypeInv /\ SeedInv /\ FirstSeedInv /\ FileInv /\ TimeInv
    BY DEF DeploymentInv
<1>2. /\ phase = "up" /\ col.on /\ "collector" \in MayFail
      /\ col' = NoCol /\ failures' = failures \cup {"collector"}
      /\ UNCHANGED <<phase, sim, seeder, file, db, past, live, excused>>
    BY DEF CollectorDies, MayStop
<1>3. NoCol.on = FALSE /\ NoCol.linked = FALSE
    BY DEF NoCol
<1>4. Shaped(MaxTs, db') /\ Accepted(db')
    BY <1>1, <1>2 DEF TypeInv
<1>5. TypeInv'
    BY <1>1, <1>2, <1>3, <1>4 DEF TypeInv
<1>6. SeedInv'
    BY <1>1, <1>2 DEF SeedInv, AlreadySeeded, CellEvents
<1>7. FirstSeedInv'
    BY <1>1, <1>2 DEF FirstSeedInv
<1>8. FileInv'
    BY <1>1, <1>2 DEF FileInv
<1>9. TimeInv'
    BY <1>1, <1>2 DEF TimeInv
<1>10. QED
    BY <1>5, <1>6, <1>7, <1>8, <1>9 DEF DeploymentInv

\* The simulator starts from the file, which is not behind.
LEMMA PlcStartsKeeps == DeploymentInv /\ PlcStarts => DeploymentInv'
<1> SUFFICES ASSUME DeploymentInv, PlcStarts
             PROVE  DeploymentInv'
    OBVIOUS
<1>1. TypeInv /\ SeedInv /\ FirstSeedInv /\ FileInv /\ TimeInv
    BY DEF DeploymentInv
<1>2. /\ phase = "up" /\ ~sim.on /\ live' = TRUE
      /\ UNCHANGED <<phase, seeder, col, file, db, failures>>
    BY DEF PlcStarts, MayRestart
<1>3. PICK moment \in FirstMoments(past, file) :
          /\ sim' = Started(file, moment)
          /\ past' = Extended(past, ResumeTs(file), moment)
    BY DEF PlcStarts
<1>4. excused \subseteq excused' /\ excused' \subseteq Excuses
  <2>1. PICK anew \in {{}, {"same instant"}}, other \in {{}, {"lives anew"}} :
            excused' = excused \cup anew \cup other
      BY DEF PlcStarts
  <2>2. excused \subseteq Excuses
      BY <1>1 DEF TypeInv
  <2>3. QED
      BY <2>1, <2>2 DEF Excuses
<1>5. file \in Files /\ file.good + file.scrap <= MaxParts /\ ResumeTs(file) \in StartTs..MaxTs
      /\ IsPast(past)
  <2>1. file \in Files /\ file.good + file.scrap <= MaxParts /\ StartTs <= ResumeTs(file) /\ IsPast(past)
      BY <1>1 DEF TypeInv
  <2>2. ResumeTs(file) <= MaxTs
      BY <1>1, <1>2 DEF FileInv
  <2>3. ResumeTs(file) \in Nat
      BY <2>1, Instants DEF Files, ResumeTs
  <2>4. QED
      BY <2>1, <2>2, <2>3, Instants
<1>6. /\ IsMoment(moment) /\ sim' \in Sims /\ sim'.now = ResumeTs(file) /\ sim'.image = moment.image
      /\ \A tag \in Tags : sim'.since[tag] = ResumeTs(file)
      /\ ~sim'.saved
  <2>1. StartTs <= ResumeTs(file) /\ ResumeTs(file) <= MaxTs
      BY <1>5, Instants
  <2>2. QED
      BY <1>3, <1>5, <2>1, StartFits
<1>7. /\ IsPast(past') /\ sim'.now \in DOMAIN past' /\ sim'.image = past'[sim'.now].image
    BY <1>3, <1>5, <1>6, PastFits
<1>8. sim'.on
    BY <1>6 DEF Sims
<1>9. TypeInv'
  <2>1. \A tag \in Tags : sim'.since[tag] <= sim'.now
      BY <1>5, <1>6, Instants
  <2>2. Shaped(MaxTs, db') /\ Accepted(db')
      BY <1>1, <1>2 DEF TypeInv
  <2>3. QED
      BY <1>1, <1>2, <1>4, <1>6, <1>7, <1>8, <2>1, <2>2 DEF TypeInv
<1>10. SeedInv'
    BY <1>1, <1>2 DEF SeedInv, AlreadySeeded, CellEvents
<1>11. FirstSeedInv'
    BY <1>2 DEF FirstSeedInv
<1>12. FileInv'
    BY <1>2, <1>6, <1>8 DEF FileInv
<1>13. TimeInv'
  <2>1. excused' \cap Behind = {} => excused \cap Behind = {}
      BY <1>4
  <2>2. QED
      BY <1>1, <1>2, <1>6, <1>8, <2>1 DEF TimeInv
<1>14. QED
    BY <1>9, <1>10, <1>11, <1>12, <1>13 DEF DeploymentInv

\* It publishes an instant, which is within what the last save allows for.
LEMMA PlcStepKeeps == DeploymentInv /\ PlcStep => DeploymentInv'
<1> SUFFICES ASSUME DeploymentInv, PlcStep
             PROVE  DeploymentInv'
    OBVIOUS
<1>1. TypeInv /\ SeedInv /\ FirstSeedInv /\ FileInv /\ TimeInv
    BY DEF DeploymentInv
<1>2. /\ phase = "up" /\ sim.on /\ sim.now < MaxTs /\ ~SaveIsDue
      /\ UNCHANGED <<phase, seeder, file, failures, live, excused>>
    BY DEF PlcStep, MayStep
<1>3. PICK moment \in NextMoments(past, sim) :
          /\ sim' = Advanced(sim, moment)
          /\ past' = Extended(past, sim.now + 1, IF col.linked THEN Observed(moment) ELSE moment)
          /\ IF col.linked
             THEN Receive(col, sim.now + 1, GroupsOf(sim', Changed(sim, moment)))
             ELSE col' = col /\ db' = db
    BY DEF PlcStep
<1>4. /\ sim \in Sims /\ sim.now \in StartTs..MaxTs /\ \A tag \in Tags : sim.since[tag] <= sim.now
      /\ IsPast(past)
  <2>1. sim \in Sims /\ IsPast(past)
      BY <1>1, <1>2 DEF TypeInv, Off
  <2>2. QED
      BY <1>1, <1>2, <2>1 DEF TypeInv, Sims
<1>5. /\ IsMoment(moment) /\ sim' \in Sims /\ sim'.now = sim.now + 1 /\ sim'.image = moment.image
      /\ sim'.saved = sim.saved
      /\ \A tag \in Tags : sim'.since[tag] <= sim.now + 1
    BY <1>2, <1>3, <1>4, StepFits
<1>6. /\ IsPast(past') /\ sim.now + 1 \in DOMAIN past' /\ past'[sim.now + 1].image = moment.image
  <2>1. sim.now + 1 \in StartTs..MaxTs
      BY <1>2, <1>4, Instants
  <2>2. QED
      BY <1>3, <1>4, <1>5, <2>1, PastFits
<1>7. live /\ AlreadySeeded /\ sim'.on
    BY <1>1, <1>2, <1>5 DEF SeedInv, Sims
<1> DEFINE groups == GroupsOf(sim', Changed(sim, moment))
<1>8. groups \in Seq(GroupsUpTo(MaxTs))
  <2>1. Changed(sim, moment) \in SUBSET Tags
      BY DEF Changed
  <2>2. sim'.image \in CellImages
      BY <1>5 DEF Sims
  <2>3. \A tag \in Tags : sim'.since[tag] \in 1..MaxTs
    <3>1. sim'.since \in [Tags -> StartTs..MaxTs]
        BY <1>5 DEF Sims
    <3>2. QED
        BY <3>1, Instants
  <2>4. QED
      BY <2>1, <2>2, <2>3, Instants, GroupsOfFit
<1> HIDE DEF groups
<1>9. /\ Shaped(MaxTs, db') /\ Accepted(db')
      /\ DOMAIN col' = DOMAIN NoCol /\ col'.on \in BOOLEAN /\ col'.linked \in BOOLEAN
      /\ col'.linked => col'.on
      /\ db'.lastSeen \in {db.lastSeen, Seen(db.lastSeen, sim.now + 1)}
      /\ DOMAIN db.events["CELL"] \subseteq DOMAIN db'.events["CELL"]
  <2>1. /\ Shaped(MaxTs, db) /\ Accepted(db)
        /\ DOMAIN col = DOMAIN NoCol /\ col.on \in BOOLEAN /\ col.linked \in BOOLEAN
        /\ col.linked => col.on
      BY <1>1 DEF TypeInv
  <2>2. CASE col.linked
    <3>1. Receive(col, sim.now + 1, groups)
        BY <1>3, <2>2 DEF groups
    <3>2. sim.now + 1 \in Nat
        BY <1>4, Instants
    <3>3. QED
        BY <1>8, <2>1, <3>1, <3>2, ReceiveFits
  <2>3. CASE ~col.linked
    <3>1. col' = col /\ db' = db
        BY <1>3, <2>3
    <3>2. QED
        BY <2>1, <3>1
  <2>4. QED
      BY <2>2, <2>3
<1>10. AlreadySeeded'
    BY <1>7, <1>9 DEF AlreadySeeded, CellEvents
<1>11. TypeInv'
  <2>1. sim'.now \in DOMAIN past' /\ sim'.image = past'[sim'.now].image
      BY <1>5, <1>6
  <2>2. \A tag \in Tags : sim'.since[tag] <= sim'.now
      BY <1>5
  <2>3. QED
      BY <1>1, <1>2, <1>5, <1>6, <1>7, <1>9, <2>1, <2>2 DEF TypeInv
<1>12. SeedInv'
    BY <1>2, <1>7, <1>10 DEF SeedInv
<1>13. FirstSeedInv'
    BY <1>2, <1>7 DEF FirstSeedInv
<1>14. FileInv'
  <2>1. sim.saved => sim.now + 1 <= file.simTime + SaveEvery
    <3>1. file.simTime \in Nat
        BY <1>1, Instants DEF TypeInv, Files
    <3>2. QED
        BY <1>2, <1>4, <3>1, Instants DEF SaveIsDue
  <2>2. QED
      BY <1>1, <1>2, <1>5, <1>7, <2>1 DEF FileInv
<1>15. TimeInv'
  <2>1. db.lastSeen <= sim.now => db'.lastSeen <= sim.now + 1
    <3>1. db.lastSeen \in Nat
        BY <1>1 DEF TypeInv, Shaped
    <3>2. QED
        BY <1>4, <1>9, <3>1, Instants DEF Seen
  <2>2. QED
      BY <1>1, <1>2, <1>5, <1>7, <2>1 DEF TimeInv
<1>16. QED
    BY <1>11, <1>12, <1>13, <1>14, <1>15 DEF DeploymentInv

\* It saves.
LEMMA PlcSavesKeeps == DeploymentInv /\ PlcSaves => DeploymentInv'
<1> SUFFICES ASSUME DeploymentInv, PlcSaves
             PROVE  DeploymentInv'
    OBVIOUS
<1>1. TypeInv /\ SeedInv /\ FirstSeedInv /\ FileInv /\ TimeInv
    BY DEF DeploymentInv
<1>2. /\ phase = "up" /\ sim.on
      /\ file' = Snapshot(sim, FALSE) /\ sim' = [sim EXCEPT !.saved = TRUE]
      /\ UNCHANGED <<phase, seeder, col, db, failures, past, live, excused>>
    BY DEF PlcSaves
<1>3. sim \in Sims /\ sim.now \in StartTs..MaxTs
    BY <1>1, <1>2, Running
<1>4. /\ file' \in Files /\ file'.good + file'.scrap <= MaxParts
      /\ file'.clean = FALSE /\ file'.simTime = sim.now
      /\ ResumeTs(file') = sim.now + Lookahead /\ file'.highWater = sim.now + Lookahead
    BY <1>2, <1>3, SnapshotFits
<1>5. /\ sim' \in Sims /\ sim'.on /\ sim'.now = sim.now /\ sim'.image = sim.image
      /\ sim'.since = sim.since
    BY <1>2, <1>3 DEF Sims
<1>6. live
    BY <1>1, <1>2 DEF SeedInv
<1>7. TypeInv'
  <2>1. StartTs <= ResumeTs(file')
      BY <1>3, <1>4, Instants
  <2>2. Shaped(MaxTs, db') /\ Accepted(db')
      BY <1>1, <1>2 DEF TypeInv
  <2>3. QED
      BY <1>1, <1>2, <1>4, <1>5, <2>1, <2>2 DEF TypeInv
<1>8. SeedInv'
    BY <1>1, <1>2, <1>6 DEF SeedInv, AlreadySeeded, CellEvents
<1>9. FirstSeedInv'
    BY <1>2, <1>6 DEF FirstSeedInv
<1>10. FileInv'
  <2>1. sim'.now <= file'.simTime + SaveEvery
      BY <1>3, <1>4, <1>5, Instants
  <2>2. QED
      BY <1>2, <1>4, <1>5, <2>1 DEF FileInv
<1>11. TimeInv'
    BY <1>1, <1>2, <1>5 DEF TimeInv
<1>12. QED
    BY <1>7, <1>8, <1>9, <1>10, <1>11 DEF DeploymentInv

\* It stops cleanly, and the file is where it stopped.
LEMMA PlcStopsKeeps == DeploymentInv /\ PlcStops => DeploymentInv'
<1> SUFFICES ASSUME DeploymentInv, PlcStops
             PROVE  DeploymentInv'
    OBVIOUS
<1>1. TypeInv /\ SeedInv /\ FirstSeedInv /\ FileInv /\ TimeInv
    BY DEF DeploymentInv
<1>2. /\ phase = "up" /\ sim.on /\ "plc stops" \in MayFail
      /\ file' = Snapshot(sim, TRUE)
      /\ sim' = Off /\ col' = Unlinked
      /\ failures' = failures \cup {"plc stops"}
      /\ UNCHANGED <<phase, seeder, db, past, live, excused>>
    BY DEF PlcStops, MayStop
<1>3. sim \in Sims /\ sim.now \in StartTs..MaxTs
    BY <1>1, <1>2, Running
<1>4. /\ file' \in Files /\ file'.good + file'.scrap <= MaxParts /\ ResumeTs(file') = sim.now
    BY <1>2, <1>3, SnapshotFits
<1>5. live /\ ~sim'.on
    BY <1>1, <1>2 DEF SeedInv, Off
<1>6. DOMAIN col' = DOMAIN NoCol /\ col'.on \in BOOLEAN /\ col'.linked = FALSE
  <2>1. DOMAIN col = DOMAIN NoCol /\ col.on \in BOOLEAN
      BY <1>1 DEF TypeInv
  <2>2. DOMAIN NoCol = {"on", "linked", "trk", "wd"}
      BY DEF NoCol
  <2>3. QED
      BY <1>2, <2>1, <2>2 DEF Unlinked
<1>7. TypeInv'
  <2>1. StartTs <= ResumeTs(file')
      BY <1>3, <1>4, Instants
  <2>2. Shaped(MaxTs, db') /\ Accepted(db')
      BY <1>1, <1>2 DEF TypeInv
  <2>3. QED
      BY <1>1, <1>2, <1>4, <1>5, <1>6, <2>1, <2>2 DEF TypeInv
<1>8. SeedInv'
    BY <1>1, <1>2, <1>5 DEF SeedInv, AlreadySeeded, CellEvents
<1>9. FirstSeedInv'
    BY <1>2, <1>5 DEF FirstSeedInv
<1>10. FileInv'
    BY <1>3, <1>4, <1>5, Instants DEF FileInv
<1>11. TimeInv'
    BY <1>1, <1>2, <1>4, <1>5 DEF TimeInv
<1>12. QED
    BY <1>7, <1>8, <1>9, <1>10, <1>11 DEF DeploymentInv

\* It dies: the file looks ahead by more than the time between two saves,
\* unless it never saved.
LEMMA PlcDiesKeeps == DeploymentInv /\ PlcDies => DeploymentInv'
<1> SUFFICES ASSUME DeploymentInv, PlcDies
             PROVE  DeploymentInv'
    OBVIOUS
<1>1. TypeInv /\ SeedInv /\ FirstSeedInv /\ FileInv /\ TimeInv
    BY DEF DeploymentInv
<1>2. /\ phase = "up" /\ sim.on /\ "plc crashes" \in MayFail /\ ResumeTs(file) <= MaxTs
      /\ sim' = Off /\ col' = Unlinked
      /\ failures' = failures \cup {"plc crashes"}
      /\ excused' = excused \cup (IF ~sim.saved /\ sim.now > ResumeTs(file) THEN {"never saved"} ELSE {})
      /\ UNCHANGED <<phase, seeder, file, db, past, live>>
    BY DEF PlcDies, MayStop
<1>3. sim.now \in StartTs..MaxTs /\ sim.saved \in BOOLEAN
    BY <1>1, <1>2, Running
<1>4. live /\ ~sim'.on
    BY <1>1, <1>2 DEF SeedInv, Off
<1>5. DOMAIN col' = DOMAIN NoCol /\ col'.on \in BOOLEAN /\ col'.linked = FALSE
  <2>1. DOMAIN col = DOMAIN NoCol /\ col.on \in BOOLEAN
      BY <1>1 DEF TypeInv
  <2>2. DOMAIN NoCol = {"on", "linked", "trk", "wd"}
      BY DEF NoCol
  <2>3. QED
      BY <1>2, <2>1, <2>2 DEF Unlinked
<1>6. TypeInv'
  <2>1. Shaped(MaxTs, db') /\ Accepted(db')
      BY <1>1, <1>2 DEF TypeInv
  <2>2. excused' \subseteq Excuses
      BY <1>1, <1>2 DEF TypeInv, Excuses
  <2>3. QED
      BY <1>1, <1>2, <1>4, <1>5, <2>1, <2>2 DEF TypeInv
<1>7. SeedInv'
    BY <1>1, <1>2, <1>4 DEF SeedInv, AlreadySeeded, CellEvents
<1>8. FirstSeedInv'
    BY <1>2, <1>4 DEF FirstSeedInv
<1>9. FileInv'
    BY <1>2, <1>4 DEF FileInv
<1>10. TimeInv'
  <2>1. SUFFICES ASSUME excused' \cap Behind = {}
                 PROVE  db.lastSeen <= ResumeTs(file)
      BY <1>2, <1>4 DEF TimeInv
  <2>2. excused \cap Behind = {} /\ (sim.saved \/ sim.now <= ResumeTs(file))
    <3>1. file \in Files
        BY <1>1 DEF TypeInv
    <3>2. ResumeTs(file) \in Nat
        BY <3>1, Instants DEF Files, ResumeTs
    <3>3. excused \subseteq excused' /\ "never saved" \notin excused'
        BY <1>2, <2>1 DEF Behind
    <3>4. ~(~sim.saved /\ sim.now > ResumeTs(file))
      <4> DEFINE unsaved == ~sim.saved /\ sim.now > ResumeTs(file)
      <4>1. excused' = excused \cup (IF unsaved THEN {"never saved"} ELSE {})
          BY <1>2
      <4> HIDE DEF unsaved
      <4>2. ~unsaved
          BY <3>3, <4>1
      <4>3. QED
          BY <4>2 DEF unsaved
    <3>5. excused \cap Behind = {}
        BY <2>1, <3>3
    <3>6. sim.now > ResumeTs(file) \/ sim.now <= ResumeTs(file)
        BY <1>3, <3>2, Instants
    <3>7. QED
        BY <3>4, <3>5, <3>6
  <2>3. db.lastSeen <= sim.now /\ db.lastSeen \in Nat
      BY <1>1, <1>2, <2>2 DEF TimeInv, TypeInv, Shaped
  <2>4. sim.now <= ResumeTs(file) /\ ResumeTs(file) \in Nat
    <3>1. file \in Files
        BY <1>1 DEF TypeInv
    <3>2. file.simTime \in Nat /\ ResumeTs(file) \in Nat
        BY <3>1, Instants DEF Files, ResumeTs
    <3>3. CASE sim.saved
      <4>1. ResumeTs(file) = file.simTime + Lookahead /\ sim.now <= file.simTime + SaveEvery
          BY <1>1, <1>2, <3>3 DEF FileInv, ResumeTs
      <4>2. QED
          BY <1>3, <3>2, <4>1, Instants
    <3>4. QED
        BY <2>2, <3>2, <3>3
  <2>5. QED
      BY <1>3, <2>3, <2>4, Instants
<1>11. QED
    BY <1>6, <1>7, <1>8, <1>9, <1>10 DEF DeploymentInv

\* Everything stops, cleanly.
LEMMA DownKeeps == DeploymentInv /\ Down => DeploymentInv'
<1> SUFFICES ASSUME DeploymentInv, Down
             PROVE  DeploymentInv'
    OBVIOUS
<1>1. TypeInv /\ SeedInv /\ FirstSeedInv /\ FileInv /\ TimeInv
    BY DEF DeploymentInv
<1>2. /\ phase = "up" /\ phase' = "down" /\ "all" \in MayFail
      /\ file' = IF sim.on THEN Snapshot(sim, TRUE) ELSE file
      /\ sim' = Off /\ col' = NoCol
      /\ failures' = failures \cup {"all"}
      /\ UNCHANGED <<seeder, db, past, live, excused>>
    BY DEF Down, MayStop
<1>3. ~sim'.on /\ NoCol.on = FALSE /\ NoCol.linked = FALSE /\ DOMAIN col' = DOMAIN NoCol
    BY <1>2 DEF Off, NoCol
<1>4. AlreadySeeded /\ (~live => ~sim.on)
    BY <1>1, <1>2 DEF SeedInv
<1>5. /\ file' \in Files /\ file'.good + file'.scrap <= MaxParts
      /\ ResumeTs(file') = IF sim.on THEN sim.now ELSE ResumeTs(file)
      /\ StartTs <= ResumeTs(file') /\ ResumeTs(file') <= MaxTs
  <2>1. CASE sim.on
    <3>1. sim \in Sims
        BY <1>1, <2>1 DEF TypeInv, Off
    <3>2. sim.now \in StartTs..MaxTs
        BY <3>1 DEF Sims
    <3>3. /\ file' \in Files /\ file'.good + file'.scrap <= MaxParts /\ ResumeTs(file') = sim.now
        BY <1>2, <2>1, <3>1, SnapshotFits
    <3>4. QED
        BY <2>1, <3>2, <3>3, Instants
  <2>2. CASE ~sim.on
    <3>1. file' = file
        BY <1>2, <2>2
    <3>2. QED
        BY <1>1, <2>2, <3>1 DEF TypeInv, FileInv
  <2>3. QED
      BY <2>1, <2>2
<1>6. TypeInv'
  <2>1. Shaped(MaxTs, db') /\ Accepted(db')
      BY <1>1, <1>2 DEF TypeInv
  <2>2. QED
      BY <1>1, <1>2, <1>3, <1>5, <2>1 DEF TypeInv
<1>7. SeedInv'
    BY <1>1, <1>2, <1>4 DEF SeedInv, AlreadySeeded, CellEvents
<1>8. FirstSeedInv'
    BY <1>1, <1>2, <1>4 DEF FirstSeedInv
<1>9. FileInv'
    BY <1>2, <1>3, <1>5 DEF FileInv
<1>10. TimeInv'
    BY <1>1, <1>2, <1>3, <1>5 DEF TimeInv
<1>11. QED
    BY <1>6, <1>7, <1>8, <1>9, <1>10 DEF DeploymentInv

\* The first docker compose up finds nothing.
LEMMA InitFits == Init => DeploymentInv
<1> SUFFICES ASSUME Init
             PROVE  DeploymentInv
    OBVIOUS
<1>1. /\ phase = "down" /\ sim = Off /\ seeder = NoSeeder /\ col = NoCol
      /\ file = Fresh /\ db = EmptyDb
      /\ failures = {} /\ past = <<>> /\ live = FALSE /\ excused = {}
    BY DEF Init
<1>2. DOMAIN <<>> = {} /\ "CELL" \in Scope
    BY TrackerAssumption
<1>3. ~sim.on /\ NoCol.on = FALSE /\ NoCol.linked = FALSE
    BY <1>1 DEF Off, NoCol
<1>4. Shaped(MaxTs, EmptyDb) /\ EmptyDb.lastSeen = 0 /\ EmptyDb.gaps = <<>>
    BY <1>2 DEF Shaped, EmptyDb
<1>5. Accepted(EmptyDb)
  <2>1. SingleOpen(<<>>)
      BY <1>2, Instants, OneOpen
  <2>2. QED
      BY <2>1 DEF Accepted, EmptyDb
<1>6. ~AlreadySeeded
    BY <1>1, <1>2 DEF AlreadySeeded, CellEvents, EmptyDb
<1>7. TypeInv
  <2>1. IsPast(past)
      BY <1>1, <1>2 DEF IsPast
  <2>2. file \in Files /\ file.good + file.scrap <= MaxParts /\ StartTs <= ResumeTs(file)
      BY <1>1, FreshFits, Instants
  <2>3. DOMAIN seeder = {"trk", "groups"} /\ seeder.groups \in Seq(GroupsUpTo(SeedUntil))
      BY <1>1, NoSeederFits
  <2>4. DOMAIN col = DOMAIN NoCol /\ col.on = FALSE /\ col.linked = FALSE
      BY <1>1, <1>3
  <2>5. Shaped(MaxTs, db) /\ Accepted(db)
      BY <1>1, <1>4, <1>5
  <2>6. failures \subseteq MayFail /\ excused \subseteq Excuses /\ live \in BOOLEAN
      BY <1>1
  <2>7. QED
      BY <1>1, <1>3, <2>1, <2>2, <2>3, <2>4, <2>5, <2>6 DEF TypeInv
<1>8. SeedInv
    BY <1>1, <1>3, <1>4, <1>6, Instants DEF SeedInv
<1>9. FirstSeedInv
    BY <1>1 DEF FirstSeedInv
<1>10. FileInv
    BY <1>1, <1>3, FreshFits, Instants DEF FileInv
<1>11. TimeInv
    BY <1>1, <1>3, <1>4, FreshFits, Instants DEF TimeInv
<1>12. QED
    BY <1>7, <1>8, <1>9, <1>10, <1>11 DEF DeploymentInv

\* A step that changes nothing.
LEMMA StutterKeeps == DeploymentInv /\ UNCHANGED vars => DeploymentInv'
<1> SUFFICES ASSUME DeploymentInv, UNCHANGED vars
             PROVE  DeploymentInv'
    OBVIOUS
<1>1. UNCHANGED <<phase, sim, seeder, col, file, db, failures, past, live, excused>>
    BY DEF vars
<1>2. TypeInv /\ SeedInv /\ FirstSeedInv /\ FileInv /\ TimeInv
    BY DEF DeploymentInv
<1>3. TypeInv'
  <2>1. Shaped(MaxTs, db') /\ Accepted(db')
      BY <1>1, <1>2 DEF TypeInv
  <2>2. QED
      BY <1>1, <1>2, <2>1 DEF TypeInv
<1>4. SeedInv' /\ FirstSeedInv' /\ FileInv' /\ TimeInv'
    BY <1>1, <1>2 DEF SeedInv, FirstSeedInv, FileInv, TimeInv, AlreadySeeded, CellEvents
<1>5. QED
    BY <1>3, <1>4 DEF DeploymentInv

-----------------------------------------------------------------------------

(* What holds whatever stops and starts again.                             *)

\* The invariant of the processes, the file and the database.
THEOREM DeploymentInvariant == Spec => []DeploymentInv
<1>1. DeploymentInv /\ [Next]_vars => DeploymentInv'
  <2> SUFFICES ASSUME DeploymentInv, [Next]_vars
               PROVE  DeploymentInv'
      OBVIOUS
  <2>1. CASE Up
      BY <2>1, UpKeeps
  <2>2. CASE SeedStep
      BY <2>2, SeedStepKeeps
  <2>3. CASE SeedFlush
      BY <2>3, SeedFlushKeeps
  <2>4. CASE HandOver
      BY <2>4, HandOverKeeps
  <2>5. CASE SeedDies
      BY <2>5, SeedDiesKeeps
  <2>6. CASE CollectorStarts
      BY <2>6, CollectorStartsKeeps
  <2>7. CASE Connect
      BY <2>7, ConnectKeeps
  <2>8. CASE Silence
      BY <2>8, SilenceKeeps
  <2>9. CASE CollectorDies
      BY <2>9, CollectorDiesKeeps
  <2>10. CASE PlcStarts
      BY <2>10, PlcStartsKeeps
  <2>11. CASE PlcStep
      BY <2>11, PlcStepKeeps
  <2>12. CASE PlcSaves
      BY <2>12, PlcSavesKeeps
  <2>13. CASE PlcStops
      BY <2>13, PlcStopsKeeps
  <2>14. CASE PlcDies
      BY <2>14, PlcDiesKeeps
  <2>15. CASE Down
      BY <2>15, DownKeeps
  <2>16. CASE UNCHANGED vars
      BY <2>16, StutterKeeps
  <2>17. QED
      BY <2>1, <2>2, <2>3, <2>4, <2>5, <2>6, <2>7, <2>8, <2>9, <2>10, <2>11, <2>12, <2>13,
         <2>14, <2>15, <2>16 DEF Next
<1>2. QED
    BY <1>1, InitFits, PTL DEF Spec

\* Types, and what they say of the processes: none runs while everything is
\* down, a session needs both its ends, the schema admits what is stored.
THEOREM TypeCorrect == Spec => []TypeOK
<1>1. DeploymentInv => TypeOK
  <2> SUFFICES ASSUME DeploymentInv
               PROVE  TypeOK
      OBVIOUS
  <2>1. TypeInv
      BY DEF DeploymentInv
  <2>2. sim \in Sims => sim.on = TRUE /\ sim.now \in StartTs..MaxTs /\ sim.since \in [Tags -> StartTs..MaxTs]
      BY DEF Sims
  <2>3. NoCol.on = FALSE /\ Off.on = FALSE
      BY DEF NoCol, Off
  <2>4. phase = "seeding" => sim.on /\ sim.now \in StartTs..SeedUntil
      BY <2>1, <2>2, Instants DEF TypeInv
  <2>5. sim.on => /\ sim.image = past[sim.now].image
                  /\ \A tag \in Tags : sim.since[tag] \in StartTs..sim.now
      BY <2>1, <2>2, <2>3, Instants DEF TypeInv
  <2>6. file.simTime \in StartTs..MaxTs /\ file.good + file.scrap \in 0..MaxParts
    <3>1. file \in Files /\ file.good + file.scrap <= MaxParts
        BY <2>1 DEF TypeInv
    <3>2. QED
        BY <3>1, Instants DEF Files
  <2>7. QED
      BY <2>1, <2>3, <2>4, <2>5, <2>6 DEF TypeInv, TypeOK, IsPast
<1>2. QED
    BY <1>1, DeploymentInvariant, PTL

\* However the processes stop and start again: a simulator that runs is not
\* behind the database, unless the seed was interrupted or the simulator died
\* before it had saved.
THEOREM TimeNeverGoesBack == Spec => []TimeGoesOn
<1>1. DeploymentInv => TimeGoesOn
  <2> SUFFICES ASSUME DeploymentInv, excused \cap Behind = {}, phase = "up", sim.on
               PROVE  db.lastSeen <= sim.now
      BY DEF TimeGoesOn, PlcIsNotBehind
  <2>1. TimeInv
      BY DEF DeploymentInv
  <2>2. QED
      BY <2>1 DEF TimeInv
<1>2. QED
    BY <1>1, DeploymentInvariant, PTL

-----------------------------------------------------------------------------

(* What the delta of two readings of a counter says, for every width of    *)
(* the counter and every rollover window.                                  *)

\* The width of a counter and its window are numbers.
LEMMA CounterConstants == CounterRange \in Nat \ {0} /\ RolloverWindow \in Nat
BY RetentiveAssumption, DeploymentAssumption

Reading == 0..(CounterRange - 1)

\* A sum of a reading and fewer parts than the counter's range wraps at most
\* once.
LEMMA WrapsOnce ==
    ASSUME NEW prev \in Reading, NEW parts \in 0..(CounterRange - 1)
    PROVE  (prev + parts) % CounterRange =
              IF prev + parts < CounterRange THEN prev + parts ELSE prev + parts - CounterRange
<1>1. CounterRange \in Nat /\ CounterRange > 0
    BY CounterConstants
<1>2. CASE prev + parts < CounterRange
    BY <1>1, <1>2, SMTT(30) DEF Reading
<1>3. CASE prev + parts >= CounterRange
    BY <1>1, <1>3, SMTT(30) DEF Reading
<1>4. QED
    BY <1>1, <1>2, <1>3 DEF Reading

\* Whatever two readings, production is never negative (counters.py: "without
\* ever going negative"), and fits the counter.
THEOREM NeverNegative ==
    ASSUME NEW prev \in Reading, NEW cur \in Reading
    PROVE  Count!Delta(prev, cur) \in Reading
    BY CounterConstants DEF Count!Delta, Reading

\* A counter that went on from one reading to the next has its parts counted
\* exactly, across a wrap too, as long as there are no more of them than the
\* rollover window (and than the counter can tell apart).
THEOREM DeltaIsExact ==
    ASSUME NEW prev \in Reading, NEW parts \in 0..(CounterRange - 1), parts <= RolloverWindow
    PROVE  Count!Delta(prev, (prev + parts) % CounterRange) = parts
<1>1. CounterRange \in Nat /\ CounterRange > 0 /\ RolloverWindow \in Nat
    BY CounterConstants
<1>2. CASE prev + parts < CounterRange
    BY <1>1, <1>2, WrapsOnce DEF Count!Delta, Reading
<1>3. CASE prev + parts >= CounterRange
  <2>1. (prev + parts) % CounterRange = prev + parts - CounterRange
      BY <1>1, <1>3, WrapsOnce DEF Reading
  <2>2. prev + parts - CounterRange < prev
      BY <1>1 DEF Reading
  <2>3. prev >= CounterRange - RolloverWindow /\ prev + parts - CounterRange <= RolloverWindow
      BY <1>1, <1>3 DEF Reading
  <2>4. QED
      BY <1>1, <2>1, <2>2, <2>3 DEF Count!Delta, Reading
<1>4. QED
    BY <1>1, <1>2, <1>3 DEF Reading

\* A counter that restarted from zero, away from the wrap, loses what was made
\* around the restart and nothing more: it is counted as nothing.
THEOREM ResetCountsNothing ==
    ASSUME NEW prev \in Reading, NEW cur \in Reading,
           cur < prev, prev < CounterRange - RolloverWindow
    PROVE  Count!Delta(prev, cur) = 0
    BY CounterConstants DEF Count!Delta, Reading
=============================================================================
