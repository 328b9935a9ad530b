---------------------------- MODULE AircraftLanes ----------------------------
(***************************************************************************)
(* What the position dispatcher promises to the connection that uses it    *)
(* (shared/position_dispatcher.go, "Work for one key is FIFO; work for     *)
(* different keys may run concurrently").                                  *)
(*                                                                         *)
(* One lane per aircraft: reports of an aircraft are applied one at a time *)
(* and in the order of their receipt, those of different aircraft in any   *)
(* interleaving.  An aircraft disconnect has the connection to itself.     *)
(* Workers, slots, batches, counters, limits and cancellation are not      *)
(* visible here.                                                           *)
(***************************************************************************)
EXTENDS Naturals

CONSTANT Keys   \* aircraft of the connection

VARIABLES
    pending,      \* accepted reports nobody applies yet
    applying,     \* reports being applied
    accepted,     \* reports accepted so far; the number of the last one
    closed,       \* no report is accepted any more
    disconnect    \* an aircraft disconnect is "none", "waiting" or "handled"

lanes == <<pending, applying, accepted, closed, disconnect>>

Lane(k) == {j \in pending \cup applying : j.key = k}

Init ==
    /\ pending = {} /\ applying = {} /\ accepted = 0
    /\ closed = FALSE /\ disconnect = "none"

\* A report is received: it is last in its lane.
Accept(k) ==
    /\ ~closed
    /\ accepted' = accepted + 1
    /\ pending' = pending \cup {[id |-> accepted + 1, key |-> k]}
    /\ UNCHANGED <<applying, closed, disconnect>>

\* Reports that are each the eldest unfinished one of their aircraft begin
\* together; none does while a disconnect is handled.
Apply(js) ==
    /\ disconnect # "handled"
    /\ \A j \in js : \A i \in Lane(j.key) : i = j \/ j.id < i.id
    /\ pending' = pending \ js
    /\ applying' = applying \cup js
    /\ UNCHANGED <<accepted, closed, disconnect>>

Finish(j) ==
    /\ applying' = applying \ {j}
    /\ UNCHANGED <<pending, accepted, closed, disconnect>>

Disconnect ==
    /\ disconnect = "none" /\ disconnect' = "waiting"
    /\ UNCHANGED <<pending, applying, accepted, closed>>

\* The disconnect is handled when everything received before it is finished.
Handle ==
    /\ disconnect = "waiting" /\ disconnect' = "handled"
    /\ pending = {} /\ applying = {}
    /\ UNCHANGED <<pending, applying, accepted, closed>>

Handled ==
    /\ disconnect = "handled" /\ disconnect' = "none"
    /\ UNCHANGED <<pending, applying, accepted, closed>>

Close ==
    /\ ~closed /\ closed' = TRUE
    /\ UNCHANGED <<pending, applying, accepted, disconnect>>

Next ==
    \/ \E k \in Keys : Accept(k)
    \/ \E js \in SUBSET pending : Apply(js)
    \/ \E j \in applying : Finish(j)
    \/ Disconnect \/ Handle \/ Handled \/ Close

Spec == Init /\ [][Next]_lanes

==============================================================================
