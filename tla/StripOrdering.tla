--------------------------- MODULE StripOrdering ---------------------------
(***************************************************************************)
(* The order of the strips of one session within their bays.  A bay holds  *)
(* flight strips (table strips) and tactical strips (table                 *)
(* tactical_strips); the order a controller sees is the order of the       *)
(* sequence numbers of both tables taken together.                         *)
(*                                                                         *)
(* Two families of operations assign sequence numbers:                     *)
(*                                                                         *)
(*  - appends (AppendToBay, PersistAtEndOfBay, CreateAtEndOfBay,           *)
(*    UpdateAircraftPositionAndAppendBay) run in a transaction that first  *)
(*    locks the session's row, read the largest number of the bay and      *)
(*    write that number plus Spacing;                                      *)
(*  - a controller's move (MoveStripBetween, MoveTacticalStripBetween)     *)
(*    reads the predecessor's number, reads the next number of the bay,    *)
(*    and writes the midpoint, one statement each, with no transaction     *)
(*    and no lock.  When the gap is too small the strip is written with    *)
(*    number 0 and the whole bay is renumbered, again statement by         *)
(*    statement.                                                           *)
(*                                                                         *)
(* Every handler runs on the goroutine of its client's websocket, so the   *)
(* statements of different threads interleave.  Overlap says whether those *)
(* of a move do; FALSE is the schedule in which a move runs by itself and  *)
(* only the transactions of appends meet each other and deletions.         *)
(***************************************************************************)
EXTENDS Integers, FiniteSets

CONSTANTS
    Flights,    \* strips of table strips
    Tacticals,  \* strips of table tactical_strips
    Bays,
    Threads,    \* the goroutines that run handlers
    Spacing,    \* InitialOrderSpacing
    MinGap,     \* MinOrderGap
    MaxSeq,     \* bound: no operation that would exceed it starts its write
    Ops,        \* the operations this instance runs
    Overlap,    \* other operations may run between the statements of a move
    Failing,    \* the statements of a move that may return an error
    None

Strips == Flights \cup Tacticals
Step == {"idle", "next", "write", "flights", "tacticals", "renumber", "commit"}

ASSUME OrderingAssumption ==
    /\ Flights \cap Tacticals = {} /\ IsFiniteSet(Flights) /\ IsFiniteSet(Tacticals)
    /\ None \notin Strips \cup Bays \cup Threads \cup Nat
    /\ Spacing \in Nat /\ MinGap \in Nat /\ MaxSeq \in Nat
    /\ 1 <= MinGap /\ MinGap < Spacing
    /\ Overlap \in BOOLEAN /\ Ops \subseteq {"move", "append"}
    /\ Failing \subseteq Step \ {"idle", "commit"}

VARIABLES
    bay,    \* the bay of each strip, None for a strip that has no row
    seq,    \* its sequence number
    op,     \* the operation each thread is in
    lock    \* the thread whose transaction holds the session's row lock

vars == <<bay, seq, op, lock>>

\* An operation in progress: pc is the statement the thread runs next.  list
\* and num are the strips of a recalculation and their numbers, first as read,
\* then as they are to be written; before is a history field, the board order
\* when the operation began.
NoNumbers == [s \in Strips |-> 0]

Idle == [pc |-> "idle", x |-> None, after |-> None, to |-> None, prev |-> 0,
         order |-> 0, recalc |-> FALSE, list |-> {}, num |-> NoNumbers,
         before |-> {}]

Operation == [pc : Step, x : Strips \cup {None}, after : Strips \cup {None},
              to : Bays \cup {None}, prev : Nat, order : Nat, recalc : BOOLEAN,
              list : SUBSET Strips, num : [Strips -> Nat], before : SUBSET (Strips \X Strips)]

In(b) == {s \in Strips : bay[s] = b}

SeqsIn(b) == {seq[s] : s \in In(b)}

\* The pairs <<a, b>> such that a stands above b in the same bay.
Above == {p \in Strips \X Strips :
             /\ bay[p[1]] # None
             /\ bay[p[1]] = bay[p[2]]
             /\ seq[p[1]] < seq[p[2]]}

Init ==
    /\ bay = [s \in Strips |-> None]
    /\ seq = [s \in Strips |-> 0]
    /\ op = [t \in Threads |-> Idle]
    /\ lock = None

\* The schedule lets an operation begin while the others are at these steps.
Admits(steps) == Overlap \/ \A u \in Threads : op[u].pc \in steps

-----------------------------------------------------------------------------
\* calculateOrderBetween: the number of a strip put between prev and next, or
\* a request to renumber the bay.  next is None at the end of the bay.

NeedsRecalc(prev, next) == next # None /\ next - prev <= MinGap

OrderBetween(prev, next) ==
    IF next = None THEN prev + Spacing ELSE prev + ((next - prev) \div 2)

\* Mutant: the next number is looked up among the flights only.
FollowingFlights(b, prev) == {n \in {seq[s] : s \in In(b) \cap Flights} : n > prev}

\* GetNextSequenceUnified: the smallest number above prev, of either table;
\* None stands for ErrNoRows.
Following(b, prev) == {n \in SeqsIn(b) : n > prev}

IsNextSequence(next, b, prev) ==
    IF Following(b, prev) = {} THEN next = None
    ELSE next \in Following(b, prev) /\ \A m \in Following(b, prev) : next <= m

\* GetMaxSequenceInBayUnified, 0 for an empty bay.
IsMaxSequence(m, b) ==
    /\ m \in SeqsIn(b) \cup {0}
    /\ \A n \in SeqsIn(b) : n <= m

\* Mutant: a predecessor that is a tactical strip counts as none.
RefFlightsOnly(after) == IF after \in Flights THEN seq[after] ELSE 0

\* resolveRefSequence: a flight must be in the bay, a tactical strip is looked
\* up by its id alone.  No reference stands for the top of the bay.
Resolvable(after, b) ==
    \/ after = None
    \/ after \in Flights /\ bay[after] = b
    \/ after \in Tacticals /\ bay[after] # None

RefSequence(after) == IF after = None THEN 0 ELSE seq[after]

-----------------------------------------------------------------------------
(* A controller's move.                                                    *)

\* The handler has found the strip and resolves the predecessor; a reference
\* it cannot resolve ends the handler with nothing written.
MoveResolve(t, x, after, b) ==
    /\ "move" \in Ops
    /\ op[t].pc = "idle" /\ Admits({"idle"})
    /\ bay[x] # None
    /\ after # x
    /\ Resolvable(after, b)
    /\ RefSequence(after) + Spacing <= MaxSeq
    /\ op' = [op EXCEPT ![t] = [Idle EXCEPT !.pc = "next", !.x = x, !.after = after,
                                            !.to = b, !.prev = RefSequence(after),
                                            !.before = Above]]
    /\ UNCHANGED <<bay, seq, lock>>

MoveNext(t) ==
    /\ op[t].pc = "next"
    /\ \E next \in Following(op[t].to, op[t].prev) \cup {None} :
          LET recalc == NeedsRecalc(op[t].prev, next)
          IN  /\ IsNextSequence(next, op[t].to, op[t].prev)
              /\ op' = [op EXCEPT ![t] = [@ EXCEPT !.pc = "write", !.recalc = recalc,
                           !.order = IF recalc THEN 0 ELSE OrderBetween(op[t].prev, next)]]
    /\ UNCHANGED <<bay, seq, lock>>

\* UpdateBayAndSequence of either table: without a row nothing is written, and
\* for a tactical strip that is an error.
Place(x, b, n) ==
    IF bay[x] = None
    THEN UNCHANGED <<bay, seq>>
    ELSE bay' = [bay EXCEPT ![x] = b] /\ seq' = [seq EXCEPT ![x] = n]

Missing(x) == x \in Tacticals /\ bay[x] = None

\* The move's write ends the handler, unless the bay has to be renumbered.
MoveWrite(t) ==
    /\ op[t].pc = "write"
    /\ Place(op[t].x, op[t].to, op[t].order)
    /\ op' = [op EXCEPT ![t] = IF op[t].recalc /\ ~Missing(op[t].x)
                               THEN [@ EXCEPT !.pc = "flights"]
                               ELSE Idle]
    /\ UNCHANGED lock

\* The handler returns the error of a statement, and what it has written
\* stays.  Between the write and a renumbering that is the error of
\* acknowledgeDeicePlatformInBay as well as that of the first read.
MoveFails(t) ==
    /\ op[t].pc \in Failing
    /\ op' = [op EXCEPT ![t] = Idle]
    /\ UNCHANGED <<bay, seq, lock>>

-----------------------------------------------------------------------------
(* recalculateAllStripSequences: two reads, a sort, then one write per     *)
(* tactical strip in the new order and one for all the flights.            *)

\* The numbers of a recalculation once the strips of read have been read too.
Numbers(t, read) ==
    [s \in Strips |-> IF s \in read THEN seq[s] ELSE op[t].num[s]]

ListFlights(t) ==
    /\ op[t].pc = "flights"
    /\ LET read == In(op[t].to) \cap Flights
       IN  op' = [op EXCEPT ![t] = [@ EXCEPT !.pc = "tacticals", !.list = read,
                                             !.num = Numbers(t, read)]]
    /\ UNCHANGED <<bay, seq, lock>>

\* Mutant: entries are numbered in the order of the two lists, without the sort.
SortedPositionsListed(list, num) ==
    {pos \in [list -> 1..Cardinality(list)] :
        /\ \A a, b \in list : a \in Flights /\ b \in Tacticals => pos[a] < pos[b]
        /\ \A a, b \in list : a # b => pos[a] # pos[b]}

\* The positions sort.Slice may give the entries; it is not stable.
SortedPositions(list, num) ==
    {pos \in [list -> 1..Cardinality(list)] :
        /\ \A a, b \in list : num[a] < num[b] => pos[a] < pos[b]
        /\ \A a, b \in list : a # b => pos[a] # pos[b]}

ListTacticals(t) ==
    /\ op[t].pc = "tacticals"
    /\ LET read == In(op[t].to) \cap Tacticals
           list == op[t].list \cup read
       IN  \E pos \in SortedPositions(list, Numbers(t, read)) :
              op' = [op EXCEPT ![t] = [@ EXCEPT !.pc = "renumber", !.list = list,
                        !.num = [s \in Strips |-> IF s \in list THEN pos[s] * Spacing ELSE 0]]]
    /\ UNCHANGED <<bay, seq, lock>>

\* The next tactical strip gets its number; one that is gone is an error that
\* leaves the rest of the bay as it is.
RenumberTactical(t, x) ==
    /\ op[t].pc = "renumber"
    /\ x \in op[t].list \cap Tacticals
    /\ \A y \in op[t].list \cap Tacticals : op[t].num[x] <= op[t].num[y]
    /\ IF Missing(x)
       THEN /\ op' = [op EXCEPT ![t] = Idle]
            /\ UNCHANGED seq
       ELSE /\ seq' = [seq EXCEPT ![x] = op[t].num[x]]
            /\ op' = [op EXCEPT ![t] = [@ EXCEPT !.list = op[t].list \ {x}]]
    /\ UNCHANGED <<bay, lock>>

\* UpdateStripSequenceBulk: by callsign, whatever bay the flight is in by now.
RenumberFlights(t) ==
    /\ op[t].pc = "renumber"
    /\ op[t].list \cap Tacticals = {}
    /\ seq' = [s \in Strips |-> IF s \in op[t].list /\ bay[s] # None
                                THEN op[t].num[s] ELSE seq[s]]
    /\ op' = [op EXCEPT ![t] = Idle]
    /\ UNCHANGED <<bay, lock>>

-----------------------------------------------------------------------------
(* Appends: one transaction under the session's row lock.                  *)

\* Mutant: the transaction reads without locking the session's row.
Unlocked == TRUE

\* The session's row lock is free.
RowFree == lock = None

\* SELECT ... FOR UPDATE, then the largest number of the bay.
AppendLock(t, x, b) ==
    /\ "append" \in Ops
    /\ op[t].pc = "idle" /\ Admits({"idle", "commit"})
    /\ RowFree
    /\ \E m \in SeqsIn(b) \cup {0} :
          /\ IsMaxSequence(m, b)
          /\ m + Spacing <= MaxSeq
          /\ op' = [op EXCEPT ![t] = [Idle EXCEPT !.pc = "commit", !.x = x, !.to = b,
                                                  !.order = m + Spacing, !.before = Above]]
    /\ lock' = t
    /\ UNCHANGED <<bay, seq>>

\* The row is created or updated at the end of the bay and the transaction
\* commits.
AppendCommit(t) ==
    /\ op[t].pc = "commit"
    /\ bay' = [bay EXCEPT ![op[t].x] = op[t].to]
    /\ seq' = [seq EXCEPT ![op[t].x] = op[t].order]
    /\ op' = [op EXCEPT ![t] = Idle]
    /\ lock' = None

\* The transaction fails and rolls back.
AppendRollback(t) ==
    /\ op[t].pc = "commit"
    /\ op' = [op EXCEPT ![t] = Idle]
    /\ lock' = None
    /\ UNCHANGED <<bay, seq>>

\* A handler deletes a strip (aircraft gone, tactical strip removed).
DeleteStrip(t, x) ==
    /\ op[t].pc = "idle" /\ Admits({"idle", "commit"})
    /\ bay[x] # None
    /\ bay' = [bay EXCEPT ![x] = None]
    /\ seq' = [seq EXCEPT ![x] = 0]
    /\ UNCHANGED <<op, lock>>

Next ==
    \E t \in Threads :
        \/ \E x \in Strips, after \in Strips \cup {None}, b \in Bays :
              MoveResolve(t, x, after, b)
        \/ MoveNext(t)
        \/ MoveWrite(t)
        \/ MoveFails(t)
        \/ ListFlights(t)
        \/ ListTacticals(t)
        \/ \E x \in Strips : RenumberTactical(t, x)
        \/ RenumberFlights(t)
        \/ \E x \in Strips, b \in Bays : AppendLock(t, x, b)
        \/ AppendCommit(t)
        \/ AppendRollback(t)
        \/ \E x \in Strips : DeleteStrip(t, x)

Spec == Init /\ [][Next]_vars

-----------------------------------------------------------------------------
(* Properties.                                                             *)

\* Every strip has a bay or none and a number, every thread an operation, and
\* the row lock is held by a thread that has a transaction to commit.
TypeOK ==
    /\ bay \in [Strips -> Bays \cup {None}]
    /\ seq \in [Strips -> Nat]
    /\ op \in [Threads -> Operation]
    /\ \A t \in Threads : op[t].pc # "idle" => op[t].x # None /\ op[t].to # None
    /\ lock \in Threads \cup {None}
    /\ \A t \in Threads : lock = t <=> op[t].pc = "commit"

Quiet == \A t \in Threads : op[t].pc = "idle"

\* Where statements fail: a strip whose move found no room and was not followed
\* by its renumbering.
Unnumbered(x) == Failing # {} /\ seq[x] = 0

\* Between operations no two strips of a bay have the same number, so that the
\* order of the bay is the same for everybody; only moves that found no room
\* and whose renumbering failed share the number 0.  (The numbers of a
\* renumbering under way may clash.)
DistinctSequences ==
    Quiet => \A x, y \in Strips :
                x # y /\ bay[x] # None /\ bay[x] = bay[y]
                => seq[x] # seq[y] \/ Unnumbered(x)

Ends(t) == op[t].pc # "idle" /\ op'[t].pc = "idle"

\* x stands directly below the strip after, or on top when after is None.
DirectlyBelow(x, after) ==
    /\ after # None => seq[after] < seq[x]
    /\ \A y \in In(bay[x]) \ {x, after} :
          \/ seq[y] > seq[x]
          \/ after # None /\ seq[y] < seq[after]

\* What a finished move must have achieved, whichever way it assigned numbers.
Placed(t) ==
    \A x \in {op[t].x}, after \in {op[t].after} :
       bay[x] # None /\ after \in In(op[t].to) \cup {None}
       => DirectlyBelow(x, after)'

\* A move that finds room between its neighbours leaves the strip directly
\* below the predecessor the controller named (calculateOrderBetween keeps the
\* midpoint strictly between the two numbers it was computed from).  A bay in
\* which another strip was left without its renumbering is excepted: a number
\* of 0 is passed over by the next move to the top.
MidpointPlaces ==
    [][\A t \in Threads :
          Ends(t) /\ op[t].pc = "write" /\ (\A y \in In(op[t].to) \ {op[t].x} : ~Unnumbered(y))
          => Placed(t)]_vars

\* Every move does, the ones that renumber the bay included: "moves a flight
\* strip so it appears immediately after insertAfter" (MoveStripBetween).
MovePlaces ==
    [][\A t \in Threads :
          Ends(t) /\ op[t].pc \in {"write", "renumber"} => Placed(t)]_vars

\* No operation changes the order of the strips it was not asked to move: the
\* pairs of the board it began with are still in order when it ends, however
\* many numbers it rewrote and whichever statement before the first of these
\* writes failed.
OthersKeepOrder ==
    [][\A t \in Threads :
          Ends(t) => \A p \in op[t].before :
                        op[t].x \notin {p[1], p[2]} /\ None \notin {bay'[p[1]], bay'[p[2]]}
                        => p \in Above']_vars

\* A committed append leaves its strip below every other strip of the bay,
\* although the largest number was read in an earlier statement and other
\* goroutines append to the same bay.
AppendsLast ==
    [][\A t \in Threads :
          Ends(t) /\ op[t].pc = "commit" /\ <<bay, seq>>' # <<bay, seq>> =>
             \A y \in Strips \ {op[t].x} :
                bay[y] = op[t].to => seq'[y] < seq'[op[t].x]]_vars
============================================================================
