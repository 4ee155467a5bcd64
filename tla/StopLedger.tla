----------------------------- MODULE StopLedger -----------------------------
(***************************************************************************)
(* What the stops table promises, without the collector: a ledger of cell  *)
(* states that only grows at its newer end, each entry different from the  *)
(* one before it, and the stops that can be read off that ledger.          *)
(***************************************************************************)
EXTENDS Integers

CONSTANTS
    Times,        \* the timestamps, positive numbers
    Images,       \* the values an entry can have
    Stopped(_)    \* whether a stop starts with such an entry

VARIABLES
    history,      \* timestamp -> image
    stops         \* start -> end, 0 while the stop lasts

ledgerVars == <<history, stops>>

\* v is the entry that follows t.
Follows(h, v, t) == t < v /\ \A u \in DOMAIN h : t < u => v <= u

\* One stop for every stopped entry; the entry that follows ends it.
StopsOf(h) ==
    [t \in {u \in DOMAIN h : Stopped(h[u])} |->
        IF \E v \in DOMAIN h : t < v
        THEN CHOOSE v \in DOMAIN h : Follows(h, v, t)
        ELSE 0]

Init ==
    /\ history = <<>>
    /\ stops = <<>>

Enter(t, image) ==
    /\ \A u \in DOMAIN history : u < t
    /\ \A u \in DOMAIN history :
           (\A v \in DOMAIN history : v <= u) => history[u] # image
    /\ history' = [u \in DOMAIN history \cup {t} |->
                      IF u = t THEN image ELSE history[u]]
    /\ stops' = StopsOf(history')

Next == \E t \in Times, image \in Images : Enter(t, image)

Spec == Init /\ [][Next]_ledgerVars
=============================================================================
