------------------------------ MODULE LiveHub ------------------------------
(***************************************************************************)
(* The hub of the live view (backend/app/api/live_hub.py): it listens to   *)
(* the notifications of the collector, refreshes its snapshot of the       *)
(* database and puts it in the queue of a WebSocket client.                *)
(*                                                                         *)
(* What the database says of the cell is the number of transactions        *)
(* committed so far (rev).  fetch_live_snapshot reads last_seen_ts, then   *)
(* the rest, in statements that each see what is committed when they run:  *)
(* rev is what the first of the rest saw, and the others saw at least it.  *)
(* The OEE that a message carries along (_oee_loop) is left out.           *)
(***************************************************************************)
EXTENDS Integers, Sequences

CONSTANTS
    None,         \* no timestamp, no message
    NotSubscribed,\* the queue of a client that has none
    FirstSeen     \* last_seen_ts when the API starts for the first time

VARIABLES
    db,           \* the database: [seen: last_seen_ts, rev]
    listener,     \* its LISTEN connection: "down", "sent", or "on" once execute returned
    channel,      \* payloads notified to that connection and not yet taken
    hub,          \* see HubAtStart
    reader,       \* the refreshes that may be under way: the hub's and a request's
    queue         \* the queue of the client: NotSubscribed, None or a message

dbVars == <<db>>
listenVars == <<listener, channel>>
hubVars == <<hub, reader, queue>>

\* tasks: run() is in its initial refresh, has started its tasks, or is over;
\* fast: whether _fast_loop is in (or on its way to) a wait, in a refresh, or over.
HubAtStart ==
    [now |-> None, dirty |-> TRUE, latest |-> None, tasks |-> "starting",
     fast |-> "refreshing"]

Readers == {"hub", "request"}

\* A refresh under way, which begins with reading last_seen_ts; at: what it
\* reads next, "out" when it has read it all.
Idle == [at |-> "idle", seen |-> None, rev |-> 0]
Reading == [at |-> "rev", seen |-> db.seen, rev |-> 0]

\* The latest of two timestamps, either of which may be None.
Later(a, b) == IF a = None THEN b ELSE IF b = None \/ b < a THEN a ELSE b

-----------------------------------------------------------------------------

(* The listener (_listen, _on_notify).                                     *)

\* The server receives LISTEN: from here on it notifies this connection.
Listen ==
    /\ hub.tasks = "running" /\ listener = "down"
    /\ listener' = "sent"
    /\ UNCHANGED <<db, channel, hubVars>>

\* execute returns; without catching up.
ListeningOnly ==
    /\ listener = "sent"
    /\ listener' = "on"
    /\ UNCHANGED <<db, channel, hubVars>>

\* execute returns: catch up on anything missed.
Listening ==
    /\ listener = "sent"
    /\ listener' = "on"
    /\ hub' = [hub EXCEPT !.dirty = TRUE]
    /\ UNCHANGED <<db, channel, reader, queue>>

\* The connection is lost; and with what was on it left for the next one.
ListenerLostAlone ==
    /\ listener # "down"
    /\ listener' = "down"
    /\ UNCHANGED <<db, channel, hubVars>>

\* The connection is lost, and the notifications on it with it.
ListenerLost ==
    /\ listener # "down"
    /\ listener' = "down" /\ channel' = <<>>
    /\ UNCHANGED <<db, hubVars>>

OnNotify ==
    /\ listener = "on" /\ channel # <<>>
    /\ channel' = Tail(channel)
    /\ hub' = [hub EXCEPT !.now = Later(@, Head(channel)), !.dirty = TRUE]
    /\ UNCHANGED <<db, listener, reader, queue>>

-----------------------------------------------------------------------------

(* Refreshes (_refresh, _fast_loop, run).                                  *)

\* _fast_loop without the fallback.
WakeUpWhenDirty ==
    /\ hub.tasks = "running" /\ hub.fast = "waiting" /\ hub.dirty
    /\ hub' = [hub EXCEPT !.dirty = FALSE, !.fast = "refreshing"]
    /\ reader' = [reader EXCEPT !["hub"] = Reading]
    /\ UNCHANGED <<db, listenVars, queue>>

\* _fast_loop wakes up, because of dirty or after _POLL_FALLBACK_S.  (The
\* pause between two refreshes is part of the wait.)
WakeUp ==
    /\ hub.tasks = "running" /\ hub.fast = "waiting"
    /\ hub' = [hub EXCEPT !.dirty = FALSE, !.fast = "refreshing"]
    /\ reader' = [reader EXCEPT !["hub"] = Reading]
    /\ UNCHANGED <<db, listenVars, queue>>

\* fetch_live_snapshot goes on to the events.
Read(who) ==
    /\ reader[who].at = "rev"
    /\ reader' = [reader EXCEPT ![who] = [@ EXCEPT !.rev = db.rev, !.at = "out"]]
    /\ UNCHANGED <<db, listenVars, hub, queue>>

\* The message that a refresh publishes when it has read everything.
MessageOf(who) ==
    [now |-> Later(hub.now, reader[who].seen), rev |-> reader[who].rev]

\* What is in the queue of a client after a message, if a full one takes none.
QueuedIfRoom(q, message) == IF q = None THEN message ELSE q

\* What _publish leaves in it: the newest snapshot always wins over a stale one.
Queued(q, message) == IF q = NotSubscribed THEN q ELSE message

\* The hub when a refresh has published, if it clears dirty only then.
HubAfterClearing(who, message) ==
    [hub EXCEPT !.now = message.now, !.latest = message, !.dirty = FALSE,
        !.fast = IF who = "hub" THEN "waiting" ELSE @,
        !.tasks = IF who = "hub" THEN "running" ELSE @]

\* ... as it is: its own refresh goes back to waiting (and run, after the
\* initial one, starts the tasks).
HubAfter(who, message) ==
    [hub EXCEPT !.now = message.now, !.latest = message,
        !.fast = IF who = "hub" THEN "waiting" ELSE @,
        !.tasks = IF who = "hub" THEN "running" ELSE @]

\* The rest of _refresh, _publish included.
Publish(who) ==
    /\ reader[who].at = "out"
    /\ hub' = HubAfter(who, MessageOf(who))
    /\ queue' = Queued(queue, MessageOf(who))
    /\ reader' = [reader EXCEPT ![who] = Idle]
    /\ UNCHANGED <<db, listenVars>>

\* The database fails the hub's refresh.  Nothing catches it: the task is over,
\* _fast_loop or, in the initial refresh, run with all the others.
RefreshFails ==
    /\ reader["hub"].at = "rev"
    /\ reader' = [reader EXCEPT !["hub"] = Idle]
    /\ hub' = [hub EXCEPT !.fast = "over", !.tasks = IF @ = "starting" THEN "over" ELSE @]
    /\ UNCHANGED <<db, listenVars, queue>>

-----------------------------------------------------------------------------

\* subscribe: the queue of a new client.
NewQueue == hub.latest

HubInit ==
    /\ db = [seen |-> FirstSeen, rev |-> 0]
    /\ listener = "down" /\ channel = <<>>
    /\ hub = HubAtStart
    /\ reader = [who \in Readers |-> IF who = "hub" THEN Reading ELSE Idle]
    /\ queue = NotSubscribed
=============================================================================
