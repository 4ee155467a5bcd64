-------------------------- MODULE AssemblerHistory --------------------------
(***************************************************************************)
(* The assembler on its own.  Any change may arrive at any time, in any    *)
(* batch, any number of times: this covers notifications of one instant    *)
(* split over publish responses, and the initial values of a subscription, *)
(* which carry old timestamps in any order.                                *)
(*                                                                         *)
(* Two auxiliary variables remember what went in and what came out.        *)
(***************************************************************************)
EXTENDS Assembler

CONSTANTS
    Tag,          \* the tags of the address space
    Value,        \* what a tag can hold
    Change,       \* the notifications that can arrive
    MaxBatch      \* bound on the changes in one call of feed()

ASSUME ChangeAssumption ==
    /\ Change \subseteq [tag : Tag, value : Value, ts : Instant]
    /\ MaxBatch \in Nat

VARIABLES
    received,     \* every change that was fed
    handed        \* every group that was returned

vars == <<pending, waited, releasedUpTo, received, handed>>

Batches == UNION {[1..n -> Change] : n \in 1..MaxBatch}

Init ==
    /\ AssemblerInit
    /\ received = {}
    /\ handed = {}

FeedBatch(batch) ==
    /\ Feed(batch)
    /\ received' = received \cup {batch[i] : i \in DOMAIN batch}
    /\ handed' = handed \cup FeedReturns(batch)

PollGroups ==
    /\ Poll
    /\ handed' = handed \cup PollReturns
    /\ UNCHANGED received

FlushGroups ==
    /\ Flush
    /\ handed' = handed \cup FlushReturns
    /\ UNCHANGED received

\* Wall-clock time passes: the assembler is not running.
Elapse ==
    /\ AssemblerWaits
    /\ UNCHANGED <<pending, releasedUpTo, received, handed>>

Next ==
    \/ \E batch \in Batches : FeedBatch(batch)
    \/ PollGroups
    \/ FlushGroups
    \/ Elapse

\* The collector polls every 0.25 s and time passes; nothing has to arrive.
Fairness == WF_vars(PollGroups) /\ WF_vars(Elapse)

Spec == Init /\ [][Next]_vars

FairSpec == Spec /\ Fairness

-----------------------------------------------------------------------------

Readings == UNION {[S -> Value] : S \in SUBSET Tag}

Group == [ts : Instant, values : Readings, late : BOOLEAN]

TypeOK ==
    /\ AssemblerTypeOK(Readings)
    /\ received \subseteq Change
    /\ handed \subseteq Group

\* "History is never reordered" (assembler.py, module docstring): a group that
\* is not flagged late is newer than everything handed over by earlier calls,
\* so a group never overtakes an older one and no instant is released twice.
HistoryInOrder ==
    [][\A g \in handed' \ handed :
          ~g.late => \A h \in handed : h.ts < g.ts]_vars

\* Every change that was fed is still pending at its instant or was handed over
\* in a group of its instant: no straggler and no replay is dropped on the way.
NothingLost ==
    \A c \in received :
        \/ c.ts \in DOMAIN pending /\ c.tag \in DOMAIN pending[c.ts]
        \/ \E g \in handed : g.ts = c.ts /\ c.tag \in DOMAIN g.values

\* Nothing is made up: every value pending or handed over was received, for
\* that tag and that instant.
NothingInvented ==
    /\ \A t \in DOMAIN pending : \A tag \in DOMAIN pending[t] :
           [tag |-> tag, value |-> pending[t][tag], ts |-> t] \in received
    /\ \A g \in handed : \A tag \in DOMAIN g.values :
           [tag |-> tag, value |-> g.values[tag], ts |-> g.ts] \in received

\* A group is flagged late only when the instant had been released or overtaken
\* by a newer one; while an instant is pending its stragglers still join it.
LateMeansOvertaken ==
    \A g \in handed : g.late => \E h \in handed : ~h.late /\ h.ts >= g.ts

\* What is pending is newer than everything released in time.
PendingIsNewer ==
    \A t \in DOMAIN pending : t > releasedUpTo

\* Every pending group is eventually released: a stream of stragglers for it
\* cannot keep it waiting.
EventuallyReleased ==
    \A t \in Instant : t \in DOMAIN pending ~> t \notin DOMAIN pending
=============================================================================
