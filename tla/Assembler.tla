----------------------------- MODULE Assembler -----------------------------
(***************************************************************************)
(* ChangeAssembler (backend/app/collector/assembler.py): notifications     *)
(* are grouped by SourceTimestamp, and a group is released once it has     *)
(* waited SettleTime ticks of wall-clock time, oldest timestamp first.     *)
(*                                                                         *)
(* This module holds the assembler's state and its operations only.        *)
(* AssemblerHistory runs it alone, against every order of arrival, and     *)
(* Collector runs it between the OPC UA client and the tracker.            *)
(*                                                                         *)
(* Timestamps are positive numbers, so that Never = 0 stands for None: it  *)
(* is older than every timestamp, which is how the code's                  *)
(* `is not None and ...` tests behave.  The code only ever compares        *)
(* `now - arrived` with settle_s, so a group's arrival time is kept as     *)
(* the time it has waited, which stops growing at SettleTime.              *)
(*                                                                         *)
(* Some definitions are preceded by a faulty variant of theirs (a bug that *)
(* would be easy to write).  No specification uses it: put in the place of *)
(* the definition it must make a property of the runs fail.                *)
(***************************************************************************)
EXTENDS Integers, Sequences, FiniteSetsExt

CONSTANTS
    MaxTs,        \* the last simulated instant of the model
    SettleTime    \* assembler_settle_s, in ticks of wall-clock time

ASSUME BoundsAssumption == MaxTs \in Nat /\ SettleTime \in Nat

Never  == 0
Instant == 1..MaxTs

VARIABLES
    pending,      \* _pending: instant -> (tag -> value)
    waited,       \* _arrived: instant -> ticks since the group was first seen
    releasedUpTo  \* _released_up_to

assemblerVars == <<pending, waited, releasedUpTo>>

AssemblerInit ==
    /\ pending = <<>>
    /\ waited = <<>>
    /\ releasedUpTo = Never

-----------------------------------------------------------------------------

\* d | e: the dict d with the entries of e put over it.
Updated(d, e) == [k \in DOMAIN d \cup DOMAIN e |-> IF k \in DOMAIN e THEN e[k] ELSE d[k]]

(* A batch is a sequence of changes [tag, value, ts], in the order in      *)
(* which the client received them.                                         *)
StampsOf(batch) == {batch[i].ts : i \in DOMAIN batch}

\* The values a batch gives for one instant.  For a tag it names twice the
\* last one stays, as in a Python dict.
ValuesOfTags(batch, t) ==
    LET at(tag) == {i \in DOMAIN batch : batch[i].tag = tag}
    IN  [tag \in {batch[i].tag : i \in {j \in DOMAIN batch : batch[j].ts = t}} |->
            batch[Max(at(tag))].value]
ValuesAt(batch, t) ==
    LET at(tag) == {i \in DOMAIN batch : batch[i].ts = t /\ batch[i].tag = tag}
    IN  [tag \in {batch[i].tag : i \in {j \in DOMAIN batch : batch[j].ts = t}} |->
            batch[Max(at(tag))].value]

\* A timestamp that was released, or overtaken, cannot be reordered anymore.
TooLateForPending(t) == t <= releasedUpTo \/ \E u \in DOMAIN pending : t < u
TooLate(t) == t <= releasedUpTo

\* The groups of late changes that feed() returns at once.
LateGroups(batch) ==
    {[ts |-> t, values |-> ValuesAt(batch, t), late |-> TRUE] :
        t \in {u \in StampsOf(batch) : TooLate(u)}}

\* The pending groups once the changes that are in time have joined them.
JoinedByReplacing(batch) ==
    Updated(pending, [t \in {u \in StampsOf(batch) : ~TooLate(u)} |-> ValuesAt(batch, t)])
Joined(batch) ==
    LET inTime == {u \in StampsOf(batch) : ~TooLate(u)}
    IN  [t \in DOMAIN pending \cup inTime |->
            IF t \notin inTime THEN pending[t]
            ELSE IF t \notin DOMAIN pending THEN ValuesAt(batch, t)
            ELSE Updated(pending[t], ValuesAt(batch, t))]

\* Only the first change of a group starts its waiting time.
JoinedWaitRestarted(batch) ==
    [t \in DOMAIN Joined(batch) |-> IF t \in StampsOf(batch) THEN 0 ELSE waited[t]]
JoinedWait(batch) ==
    [t \in DOMAIN Joined(batch) |-> IF t \in DOMAIN pending THEN waited[t] ELSE 0]

\* poll(): the instants to release, given the groups and their waiting times.
\* It stops at the first group that has not waited long enough.
ReadyOutOfOrder(groups, wait) == {t \in DOMAIN groups : wait[t] >= SettleTime}
Ready(groups, wait) ==
    {t \in DOMAIN groups : \A u \in DOMAIN groups : u <= t => wait[u] >= SettleTime}

\* What is returned for a set of released instants.  Every call returns its
\* groups sorted by timestamp, so the set determines the list.
GroupsOf(groups, S) == {[ts |-> t, values |-> groups[t], late |-> FALSE] : t \in S}

ReleaseKeepingArrival(groups, wait, S) ==
    /\ pending' = [t \in DOMAIN groups \ S |-> groups[t]]
    /\ waited' = wait
    /\ releasedUpTo' = IF S = {} THEN releasedUpTo ELSE Max(S)
Release(groups, wait, S) ==
    /\ pending' = [t \in DOMAIN groups \ S |-> groups[t]]
    /\ waited' = [t \in DOMAIN groups \ S |-> wait[t]]
    /\ releasedUpTo' = IF S = {} THEN releasedUpTo ELSE Max(S)

-----------------------------------------------------------------------------

(* The operations, and what each returns.                                  *)

Feed(batch) ==
    Release(Joined(batch), JoinedWait(batch), Ready(Joined(batch), JoinedWait(batch)))

FeedReturns(batch) ==
    LateGroups(batch)
        \cup GroupsOf(Joined(batch), Ready(Joined(batch), JoinedWait(batch)))

Poll == Release(pending, waited, Ready(pending, waited))

PollReturns == GroupsOf(pending, Ready(pending, waited))

Flush == Release(pending, waited, DOMAIN pending)

FlushReturns == GroupsOf(pending, DOMAIN pending)

\* oldest_pending
OldestPending == IF pending = <<>> THEN Never ELSE Min(DOMAIN pending)

\* One tick of wall-clock time: now - arrived grows for every pending group.
AssemblerWaits ==
    waited' = [t \in DOMAIN waited |->
                  IF waited[t] < SettleTime THEN waited[t] + 1 ELSE waited[t]]

\* Readings: the values that a group can carry.
AssemblerTypeOK(Readings) ==
    /\ DOMAIN pending \subseteq Instant
    /\ \A t \in DOMAIN pending : pending[t] \in Readings
    /\ waited \in [DOMAIN pending -> 0..SettleTime]
    /\ releasedUpTo \in Instant \cup {Never}
=============================================================================
