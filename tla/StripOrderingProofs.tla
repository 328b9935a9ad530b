------------------------ MODULE StripOrderingProofs ------------------------
(***************************************************************************)
(* Proofs about StripOrdering, for any number of strips, bays and threads: *)
(*                                                                         *)
(*  - the type invariant of the whole specification;                       *)
(*  - when every thread only appends, the row lock is enough: an appended  *)
(*    strip is below every strip of its bay and no number is used twice;   *)
(*  - when one thread runs every operation, the numbers of a bay are       *)
(*    distinct between operations, renumbering included; a move that finds *)
(*    room puts the strip where it was asked to; and no operation changes  *)
(*    the order of the strips it was not asked to move.                    *)
(***************************************************************************)
EXTENDS StripOrdering, FiniteSetTheorems, TLAPS

USE OrderingAssumption DEF Strips

\* The midpoint calculateOrderBetween returns lies strictly between the two
\* numbers whenever it does not ask for a recalculation.
LEMMA MidpointBetween ==
    ASSUME NEW prev \in Nat, NEW next \in Nat, next - prev > MinGap
    PROVE  /\ prev + ((next - prev) \div 2) \in Nat
           /\ prev < prev + ((next - prev) \div 2)
           /\ prev + ((next - prev) \div 2) < next
  <1> DEFINE g == next - prev
  <1>1. g \in Nat /\ g >= 2
    OBVIOUS
  <1>2. g \div 2 >= 1 /\ g \div 2 < g /\ g \div 2 \in Nat
    <2> HIDE DEF g
    <2> QED  BY <1>1
  <1> QED  BY <1>1, <1>2

\* Different positions give different numbers.
LEMMA ProductsDiffer ==
    ASSUME NEW i \in Nat, NEW j \in Nat, i # j, NEW k \in Nat, k > 0
    PROVE  i * k # j * k
  <1>1. ASSUME NEW a \in Nat, NEW d \in Nat, d > 0  PROVE (a + d) * k # a * k
    <2>1. (a + d) * k = a * k + d * k
      BY SMT
    <2>2. d * k > 0 /\ a * k \in Nat /\ d * k \in Nat
      BY <1>1, SMT
    <2> QED  BY <2>1, <2>2
  <1>2. CASE i < j
    <2>1. j - i \in Nat /\ j - i > 0 /\ i + (j - i) = j
      BY <1>2
    <2> QED  BY <1>1, <2>1
  <1>3. CASE j < i
    <2>1. i - j \in Nat /\ i - j > 0 /\ j + (i - j) = i
      BY <1>3
    <2> QED  BY <1>1, <2>1
  <1> QED  BY <1>2, <1>3

\* The number a move computes is a natural number no strip of the bay has.
LEMMA OrderFresh ==
    ASSUME TypeOK, NEW b \in Bays, NEW prev \in Nat,
           NEW next, IsNextSequence(next, b, prev), ~NeedsRecalc(prev, next)
    PROVE  /\ OrderBetween(prev, next) \in Nat
           /\ OrderBetween(prev, next) \notin SeqsIn(b)
  <1>1. SeqsIn(b) \subseteq Nat
    BY DEF TypeOK, SeqsIn, In
  <1>2. CASE next # None
    <2>1. next \in Nat /\ next - prev > MinGap /\ \A m \in SeqsIn(b) : m > prev => next <= m
      BY <1>1, <1>2 DEF NeedsRecalc, IsNextSequence, Following
    <2>2. OrderBetween(prev, next) = prev + ((next - prev) \div 2)
      BY <1>2 DEF OrderBetween
    <2>3. /\ OrderBetween(prev, next) \in Nat /\ prev < OrderBetween(prev, next)
          /\ OrderBetween(prev, next) < next
      BY <2>1, <2>2, MidpointBetween
    <2>4. OrderBetween(prev, next) \notin SeqsIn(b)
      BY <1>1, <2>1, <2>3
    <2> QED  BY <2>3, <2>4
  <1>3. CASE next = None
    <2>1. \A m \in SeqsIn(b) : m <= prev
      BY <1>1, <1>3 DEF IsNextSequence, Following
    <2> QED  BY <1>1, <1>3, <2>1 DEF OrderBetween
  <1> QED  BY <1>2, <1>3

-----------------------------------------------------------------------------
(* The type invariant.                                                     *)

\* A thread that is not in an operation has a well-formed record.
LEMMA IdleType == Idle \in Operation /\ Idle.pc = "idle"
  BY DEF Idle, Operation, NoNumbers, Step

\* The types of the state that TypeOK gives for one thread.
LEMMA OpType ==
    ASSUME TypeOK, NEW t \in Threads, op[t].pc # "idle"
    PROVE  /\ op[t] \in Operation /\ op[t].x \in Strips /\ op[t].to \in Bays
           /\ op[t].order \in Nat /\ op[t].prev \in Nat
           /\ op[t].list \subseteq Strips /\ op[t].num \in [Strips -> Nat]
  BY DEF TypeOK, Operation

\* A step that replaces one thread's record by a well-formed one outside the
\* append, and leaves the lock alone, keeps the types of op and lock.
LEMMA OpStepType ==
    ASSUME TypeOK, NEW t \in Threads, op[t].pc # "commit", lock' = lock,
           NEW r \in Operation, op' = [op EXCEPT ![t] = r], r.pc # "commit",
           r.pc # "idle" => r.x # None /\ r.to # None,
           bay' \in [Strips -> Bays \cup {None}], seq' \in [Strips -> Nat]
    PROVE  TypeOK'
  BY DEF TypeOK

\* The positions of a sort are natural numbers.
LEMMA PositionsNat ==
    ASSUME NEW list \in SUBSET Strips, NEW num, NEW pos \in SortedPositions(list, num)
    PROVE  \A s \in list : pos[s] \in Nat
  <1>1. IsFiniteSet(Strips)
    BY FS_Union
  <1>2. Cardinality(list) \in Nat
    BY <1>1, FS_Subset, FS_CardinalityType
  <1> QED  BY <1>2 DEF SortedPositions

\* Init establishes the type invariant.
LEMMA InitType == Init => TypeOK
  <1> SUFFICES ASSUME Init PROVE TypeOK
    OBVIOUS
  <1>1. op \in [Threads -> Operation] /\ \A t \in Threads : op[t].pc = "idle"
    BY IdleType DEF Init
  <1>2. bay \in [Strips -> Bays \cup {None}] /\ seq \in [Strips -> Nat]
    BY DEF Init
  <1>3. lock = None /\ \A t \in Threads : lock # t
    BY DEF Init
  <1> QED  BY <1>1, <1>2, <1>3 DEF TypeOK

\* Every step preserves it.
LEMMA StepType == TypeOK /\ [Next]_vars => TypeOK'
  <1> SUFFICES ASSUME TypeOK, [Next]_vars PROVE TypeOK'
    OBVIOUS
  <1>0. bay \in [Strips -> Bays \cup {None}] /\ seq \in [Strips -> Nat]
    BY DEF TypeOK
  <1>1. ASSUME NEW t \in Threads, NEW x \in Strips, NEW after \in Strips \cup {None},
               NEW b \in Bays, MoveResolve(t, x, after, b)
        PROVE  TypeOK'
    <2> DEFINE r == [Idle EXCEPT !.pc = "next", !.x = x, !.after = after, !.to = b,
                                 !.prev = RefSequence(after), !.before = Above]
    <2>1. RefSequence(after) \in Nat /\ Above \in SUBSET (Strips \X Strips)
      BY <1>0 DEF RefSequence, Above
    <2>2. r \in Operation /\ r.pc = "next" /\ r.x = x /\ r.to = b
      BY <2>1, IdleType DEF Idle, Operation, NoNumbers, Step
    <2>3. op' = [op EXCEPT ![t] = r] /\ op[t].pc = "idle"
      BY <1>1 DEF MoveResolve
    <2> HIDE DEF r
    <2> QED  BY <1>0, <1>1, <2>2, <2>3, OpStepType DEF MoveResolve
  <1>2. ASSUME NEW t \in Threads, MoveNext(t)
        PROVE  TypeOK'
    <2>1. PICK next : /\ IsNextSequence(next, op[t].to, op[t].prev)
                      /\ op' = [op EXCEPT ![t] = [op[t] EXCEPT !.pc = "write",
                              !.recalc = NeedsRecalc(op[t].prev, next),
                              !.order = IF NeedsRecalc(op[t].prev, next) THEN 0
                                        ELSE OrderBetween(op[t].prev, next)]]
      BY <1>2 DEF MoveNext
    <2> DEFINE rc == NeedsRecalc(op[t].prev, next)
               o == IF rc THEN 0 ELSE OrderBetween(op[t].prev, next)
               r == [op[t] EXCEPT !.pc = "write", !.recalc = rc, !.order = o]
    <2>2. /\ op[t] \in Operation /\ op[t].x \in Strips /\ op[t].to \in Bays
          /\ op[t].prev \in Nat /\ op[t].pc = "next"
      BY <1>2, OpType DEF MoveNext
    <2>3. o \in Nat
      BY <2>1, <2>2, OrderFresh
    <2>4. rc \in BOOLEAN
      BY DEF NeedsRecalc
    <2>5. r \in Operation /\ r.pc = "write" /\ r.x = op[t].x /\ r.to = op[t].to
      <3> HIDE DEF o, rc
      <3> QED  BY <2>2, <2>3, <2>4 DEF Operation, Step
    <2>6. op' = [op EXCEPT ![t] = r]
      BY <2>1
    <2> HIDE DEF r
    <2> QED  BY <1>0, <1>2, <2>2, <2>5, <2>6, OpStepType DEF MoveNext
  <1>3. ASSUME NEW t \in Threads, MoveWrite(t)
        PROVE  TypeOK'
    <2> DEFINE r == IF op[t].recalc /\ ~Missing(op[t].x)
                    THEN [op[t] EXCEPT !.pc = "flights"] ELSE Idle
    <2>1. /\ op[t] \in Operation /\ op[t].x \in Strips /\ op[t].to \in Bays
          /\ op[t].order \in Nat /\ op[t].pc = "write"
      BY <1>3, OpType DEF MoveWrite
    <2>2. r \in Operation /\ r.pc # "commit" /\ (r.pc # "idle" => r.x # None /\ r.to # None)
      BY <2>1, IdleType DEF Operation, Step
    <2>3. op' = [op EXCEPT ![t] = r]
      BY <1>3 DEF MoveWrite
    <2>4. bay' \in [Strips -> Bays \cup {None}] /\ seq' \in [Strips -> Nat]
      BY <1>0, <1>3, <2>1 DEF MoveWrite, Place
    <2> HIDE DEF r
    <2> QED  BY <1>3, <2>1, <2>2, <2>3, <2>4, OpStepType DEF MoveWrite
  <1>4. ASSUME NEW t \in Threads, ListFlights(t)
        PROVE  TypeOK'
    <2> DEFINE read == In(op[t].to) \cap Flights
               r == [op[t] EXCEPT !.pc = "tacticals", !.list = read, !.num = Numbers(t, read)]
    <2>1. /\ op[t] \in Operation /\ op[t].x \in Strips /\ op[t].to \in Bays
          /\ op[t].num \in [Strips -> Nat] /\ op[t].pc = "flights"
      BY <1>4, OpType DEF ListFlights
    <2>2. read \subseteq Strips /\ Numbers(t, read) \in [Strips -> Nat]
      BY <1>0, <2>1 DEF Numbers
    <2>3. r \in Operation /\ r.pc = "tacticals" /\ r.x = op[t].x /\ r.to = op[t].to
      <3> HIDE DEF read
      <3> QED  BY <2>1, <2>2 DEF Operation, Step
    <2>4. op' = [op EXCEPT ![t] = r]
      BY <1>4 DEF ListFlights
    <2> HIDE DEF r
    <2>5. UNCHANGED <<bay, seq, lock>>
      BY <1>4 DEF ListFlights
    <2> QED  BY <1>0, <2>1, <2>3, <2>4, <2>5, OpStepType
  <1>5. ASSUME NEW t \in Threads, ListTacticals(t)
        PROVE  TypeOK'
    <2> DEFINE read == In(op[t].to) \cap Tacticals
               list == op[t].list \cup read
    <2>1. PICK pos \in SortedPositions(list, Numbers(t, read)) :
             op' = [op EXCEPT ![t] = [op[t] EXCEPT !.pc = "renumber", !.list = list,
                       !.num = [s \in Strips |-> IF s \in list THEN pos[s] * Spacing ELSE 0]]]
      BY <1>5 DEF ListTacticals
    <2> DEFINE num == [s \in Strips |-> IF s \in list THEN pos[s] * Spacing ELSE 0]
               r == [op[t] EXCEPT !.pc = "renumber", !.list = list, !.num = num]
    <2>2. /\ op[t] \in Operation /\ op[t].x \in Strips /\ op[t].to \in Bays
          /\ op[t].list \subseteq Strips /\ op[t].pc = "tacticals"
      BY <1>5, OpType DEF ListTacticals
    <2>3. list \in SUBSET Strips
      BY <2>2
    <2>4. num \in [Strips -> Nat]
      <3>1. \A s \in list : pos[s] \in Nat
        BY <2>1, <2>3, PositionsNat
      <3> HIDE DEF list
      <3> QED  BY <3>1
    <2>5. r \in Operation /\ r.pc = "renumber" /\ r.x = op[t].x /\ r.to = op[t].to
      <3> HIDE DEF list, num
      <3> QED  BY <2>2, <2>3, <2>4 DEF Operation, Step
    <2>6. op' = [op EXCEPT ![t] = r]
      BY <2>1
    <2> HIDE DEF r
    <2> QED  BY <1>0, <1>5, <2>2, <2>5, <2>6, OpStepType DEF ListTacticals
  <1>6. ASSUME NEW t \in Threads, NEW x \in Strips, RenumberTactical(t, x)
        PROVE  TypeOK'
    <2> DEFINE r == IF Missing(x) THEN Idle ELSE [op[t] EXCEPT !.list = op[t].list \ {x}]
    <2>1. /\ op[t] \in Operation /\ op[t].x \in Strips /\ op[t].to \in Bays
          /\ op[t].num \in [Strips -> Nat] /\ op[t].list \subseteq Strips
          /\ op[t].pc = "renumber"
      BY <1>6, OpType DEF RenumberTactical
    <2>2. r \in Operation /\ r.pc # "commit" /\ (r.pc # "idle" => r.x # None /\ r.to # None)
      BY <2>1, IdleType DEF Operation, Step
    <2>3. op' = [op EXCEPT ![t] = r]
      <3>1. CASE Missing(x)
        BY <1>6, <3>1 DEF RenumberTactical
      <3>2. CASE ~Missing(x)
        BY <1>6, <3>2 DEF RenumberTactical
      <3> QED  BY <3>1, <3>2
    <2>4. bay' \in [Strips -> Bays \cup {None}] /\ seq' \in [Strips -> Nat]
      BY <1>0, <1>6, <2>1 DEF RenumberTactical
    <2> HIDE DEF r
    <2> QED  BY <1>6, <2>1, <2>2, <2>3, <2>4, OpStepType DEF RenumberTactical
  <1>7. ASSUME NEW t \in Threads, RenumberFlights(t)
        PROVE  TypeOK'
    <2>1. op[t].num \in [Strips -> Nat] /\ op[t].pc = "renumber"
      BY <1>7, OpType DEF RenumberFlights
    <2>2. bay' \in [Strips -> Bays \cup {None}] /\ seq' \in [Strips -> Nat]
      BY <1>0, <1>7, <2>1 DEF RenumberFlights
    <2>3. op' = [op EXCEPT ![t] = Idle]
      BY <1>7 DEF RenumberFlights
    <2> QED  BY <1>7, <2>1, <2>2, <2>3, IdleType, OpStepType DEF RenumberFlights
  <1>8. ASSUME NEW t \in Threads, NEW x \in Strips, NEW b \in Bays, AppendLock(t, x, b)
        PROVE  TypeOK'
    <2>1. PICK m \in SeqsIn(b) \cup {0} :
             op' = [op EXCEPT ![t] = [Idle EXCEPT !.pc = "commit", !.x = x, !.to = b,
                                                  !.order = m + Spacing, !.before = Above]]
      BY <1>8 DEF AppendLock
    <2> DEFINE n == m + Spacing
               r == [Idle EXCEPT !.pc = "commit", !.x = x, !.to = b,
                                 !.order = n, !.before = Above]
    <2>2. n \in Nat /\ Above \in SUBSET (Strips \X Strips)
      BY <1>0 DEF SeqsIn, In, Above
    <2>3. r \in Operation /\ r.pc = "commit" /\ r.x = x /\ r.to = b
      <3> HIDE DEF n
      <3> QED  BY <2>2, IdleType DEF Idle, Operation, NoNumbers, Step
    <2>4. op' = [op EXCEPT ![t] = r]
      BY <2>1
    <2> HIDE DEF r
    <2> QED  BY <1>0, <1>8, <2>3, <2>4 DEF AppendLock, RowFree, TypeOK
  <1>9. ASSUME NEW t \in Threads, AppendCommit(t) \/ AppendRollback(t)
        PROVE  TypeOK'
    <2>1. op[t].x \in Strips /\ op[t].to \in Bays /\ op[t].order \in Nat /\ op[t].pc = "commit"
      BY <1>9, OpType DEF AppendCommit, AppendRollback
    <2>2. bay' \in [Strips -> Bays \cup {None}] /\ seq' \in [Strips -> Nat]
      BY <1>0, <1>9, <2>1 DEF AppendCommit, AppendRollback
    <2>3. op' = [op EXCEPT ![t] = Idle] /\ lock' = None
      BY <1>9 DEF AppendCommit, AppendRollback
    <2> QED  BY <2>1, <2>2, <2>3, IdleType DEF TypeOK
  <1>10. ASSUME NEW t \in Threads, NEW x \in Strips, DeleteStrip(t, x)
         PROVE  TypeOK'
    BY <1>0, <1>10 DEF DeleteStrip, TypeOK
  <1>11. CASE UNCHANGED vars
    BY <1>11 DEF vars, TypeOK
  <1>12. ASSUME NEW t \in Threads, MoveFails(t)
         PROVE  TypeOK'
    <2>1. op[t].pc # "commit" /\ UNCHANGED <<bay, seq, lock>> /\ op' = [op EXCEPT ![t] = Idle]
      BY <1>12, OrderingAssumption DEF MoveFails
    <2> QED  BY <1>0, <2>1, IdleType, OpStepType DEF TypeOK
  <1> QED
    BY <1>1, <1>2, <1>3, <1>4, <1>5, <1>6, <1>7, <1>8, <1>9, <1>10, <1>11, <1>12 DEF Next

\* The type invariant holds of every behaviour, whatever the threads run.
THEOREM OrderingTypeOK == Spec => []TypeOK
  BY InitType, StepType, PTL DEF Spec

-----------------------------------------------------------------------------
(* Appends under the row lock, any number of threads.                      *)

\* The strips of a bay have different numbers.
BayDistinct(b) == \A x, y \in In(b) : x # y => seq[x] # seq[y]

\* The number a transaction is about to commit is above every number of its
\* bay: no other transaction can have run since it was computed.
CommitAbove ==
    \A t \in Threads : op[t].pc = "commit" =>
        \A y \in In(op[t].to) : seq[y] < op[t].order

AppendInv ==
    /\ TypeOK
    /\ \A t \in Threads : op[t].pc \in {"idle", "commit"}
    /\ CommitAbove
    /\ \A b \in Bays : BayDistinct(b)

\* Init establishes the invariant of the appends.
LEMMA InitAppend == Init => AppendInv
  <1> SUFFICES ASSUME Init PROVE AppendInv
    OBVIOUS
  <1>1. TypeOK
    BY InitType
  <1>2. \A t \in Threads : op[t].pc = "idle"
    BY IdleType DEF Init
  <1>3. \A b \in Bays : In(b) = {}
    BY DEF Init, In
  <1> QED  BY <1>1, <1>2, <1>3 DEF AppendInv, CommitAbove, BayDistinct

\* When only appends run, every step preserves it.
LEMMA StepAppend ==
    ASSUME Ops \subseteq {"append"}, AppendInv, [Next]_vars
    PROVE  AppendInv'
  <1> USE DEF In
  <1>0. TypeOK /\ TypeOK'
    BY StepType DEF AppendInv
  <1>1. ASSUME NEW t \in Threads, NEW x \in Strips, NEW after \in Strips \cup {None},
               NEW b \in Bays, MoveResolve(t, x, after, b)
        PROVE  FALSE
    BY <1>1 DEF MoveResolve
  <1>2. ASSUME NEW t \in Threads,
               \/ MoveNext(t) \/ MoveWrite(t) \/ MoveFails(t) \/ ListFlights(t) \/ ListTacticals(t)
               \/ \E x \in Strips : RenumberTactical(t, x)
               \/ RenumberFlights(t)
        PROVE  FALSE
    BY <1>2, OrderingAssumption
    DEF AppendInv, MoveNext, MoveWrite, MoveFails, ListFlights, ListTacticals,
        RenumberTactical, RenumberFlights
  <1>3. ASSUME NEW t \in Threads, NEW x \in Strips, NEW b \in Bays, AppendLock(t, x, b)
        PROVE  AppendInv'
    <2>1. PICK m \in SeqsIn(b) \cup {0} :
             /\ IsMaxSequence(m, b)
             /\ op' = [op EXCEPT ![t] = [Idle EXCEPT !.pc = "commit", !.x = x, !.to = b,
                                                     !.order = m + Spacing, !.before = Above]]
      BY <1>3 DEF AppendLock
    <2>2. /\ op'[t].pc = "commit" /\ op'[t].to = b /\ op'[t].order = m + Spacing
          /\ \A u \in Threads \ {t} : op'[u] = op[u]
      BY <1>0, <2>1 DEF TypeOK, Idle
    <2>3. \A y \in Strips : bay[y] = b => seq[y] < m + Spacing
      <3>1. \A y \in Strips : seq[y] \in Nat /\ (bay[y] = b => seq[y] \in SeqsIn(b))
        BY <1>0 DEF TypeOK, SeqsIn
      <3>2. m \in Nat /\ \A n \in SeqsIn(b) : n <= m
        BY <1>0, <2>1 DEF IsMaxSequence, SeqsIn, TypeOK
      <3> QED  BY <3>1, <3>2
    <2>4. bay' = bay /\ seq' = seq
      BY <1>3 DEF AppendLock
    <2> QED  BY <1>0, <2>2, <2>3, <2>4 DEF AppendInv, CommitAbove, BayDistinct
  <1>4. ASSUME NEW t \in Threads, AppendCommit(t)
        PROVE  AppendInv'
    <2>1. /\ op[t].x \in Strips /\ op[t].to \in Bays /\ op[t].order \in Nat
          /\ op[t].pc = "commit" /\ lock = t
      BY <1>0, <1>4, OpType DEF AppendCommit, TypeOK
    <2>2. \A u \in Threads : op'[u].pc = "idle"
      <3>1. \A u \in Threads \ {t} : op[u].pc # "commit" /\ op'[u] = op[u]
        BY <1>0, <1>4, <2>1 DEF AppendCommit, TypeOK
      <3>2. op'[t].pc = "idle"
        BY <1>0, <1>4, IdleType DEF AppendCommit, TypeOK
      <3> QED  BY <3>1, <3>2 DEF AppendInv
    <2>3. \A y \in Strips : bay[y] = op[t].to => seq[y] \in Nat /\ seq[y] < op[t].order
      BY <1>0, <2>1 DEF AppendInv, CommitAbove, TypeOK
    <2>4. \A y \in Strips \ {op[t].x} : bay'[y] = bay[y] /\ seq'[y] = seq[y]
      BY <1>0, <1>4 DEF AppendCommit, TypeOK
    <2>5. bay'[op[t].x] = op[t].to /\ seq'[op[t].x] = op[t].order
      BY <1>0, <1>4, <2>1 DEF AppendCommit, TypeOK
    <2>6. ASSUME NEW b \in Bays  PROVE BayDistinct(b)'
      BY <2>1, <2>3, <2>4, <2>5 DEF AppendInv, BayDistinct
    <2> QED  BY <1>0, <2>2, <2>6 DEF AppendInv, CommitAbove
  <1>5. ASSUME NEW t \in Threads, AppendRollback(t)
        PROVE  AppendInv'
    <2>1. bay' = bay /\ seq' = seq /\ op'[t].pc = "idle" /\ \A u \in Threads \ {t} : op'[u] = op[u]
      BY <1>0, <1>5, IdleType DEF AppendRollback, TypeOK
    <2> QED  BY <1>0, <2>1 DEF AppendInv, CommitAbove, BayDistinct
  <1>6. ASSUME NEW t \in Threads, NEW x \in Strips, DeleteStrip(t, x)
        PROVE  AppendInv'
    <2>1. /\ op' = op /\ bay'[x] = None
          /\ \A y \in Strips \ {x} : bay'[y] = bay[y] /\ seq'[y] = seq[y]
      BY <1>0, <1>6 DEF DeleteStrip, TypeOK
    <2>2. \A t1 \in Threads : op[t1].pc = "commit" => op[t1].to # None
      BY <1>0 DEF TypeOK
    <2> QED  BY <1>0, <2>1, <2>2 DEF AppendInv, CommitAbove, BayDistinct
  <1>7. CASE UNCHANGED vars
    BY <1>0, <1>7 DEF vars, AppendInv, CommitAbove, BayDistinct
  <1> QED
    BY <1>1, <1>2, <1>3, <1>4, <1>5, <1>6, <1>7 DEF Next

\* The invariant of the appends forbids two strips of a bay with one number.
LEMMA AppendDistinct == AppendInv => DistinctSequences
  BY DEF AppendInv, TypeOK, BayDistinct, In, DistinctSequences

\* A step from it satisfies AppendsLast.
LEMMA AppendStepLast ==
    ASSUME AppendInv, [Next]_vars,
           NEW t \in Threads, Ends(t), op[t].pc = "commit", <<bay, seq>>' # <<bay, seq>>,
           NEW y \in Strips \ {op[t].x}, bay[y] = op[t].to
    PROVE  seq'[y] < seq'[op[t].x]
  <1>1. TypeOK
    BY DEF AppendInv
  <1>2. op[t].x \in Strips /\ op[t].to \in Bays /\ op[t].order \in Nat
    BY <1>1, OpType
  <1>3. AppendCommit(t)
    <2>1. ~UNCHANGED vars
      BY DEF vars
    <2>2. PICK u \in Threads :
             \/ \E x \in Strips, after \in Strips \cup {None}, b \in Bays : MoveResolve(u, x, after, b)
             \/ MoveNext(u) \/ MoveWrite(u) \/ MoveFails(u) \/ ListFlights(u) \/ ListTacticals(u)
             \/ \E x \in Strips : RenumberTactical(u, x)
             \/ RenumberFlights(u)
             \/ \E x \in Strips, b \in Bays : AppendLock(u, x, b)
             \/ AppendCommit(u) \/ AppendRollback(u)
             \/ \E x \in Strips : DeleteStrip(u, x)
      BY <2>1 DEF Next
    <2>3. u = t
      <3>1. CASE AppendCommit(u) \/ AppendRollback(u)
        BY <1>1, <3>1 DEF AppendCommit, AppendRollback, TypeOK
      <3>2. CASE \E x \in Strips : DeleteStrip(u, x)
        BY <3>2 DEF DeleteStrip, Ends
      <3>3. CASE MoveWrite(u) \/ (\E x \in Strips : RenumberTactical(u, x)) \/ RenumberFlights(u)
        BY <3>3 DEF MoveWrite, RenumberTactical, RenumberFlights, AppendInv
      <3>5. CASE MoveFails(u)
        BY <3>5 DEF MoveFails
      <3>4. CASE \/ \E x \in Strips, after \in Strips \cup {None}, b \in Bays :
                       MoveResolve(u, x, after, b)
                 \/ MoveNext(u) \/ ListFlights(u) \/ ListTacticals(u)
                 \/ \E x \in Strips, b \in Bays : AppendLock(u, x, b)
        BY <3>4 DEF MoveResolve, MoveNext, ListFlights, ListTacticals, AppendLock
      <3> QED  BY <2>2, <3>1, <3>2, <3>3, <3>4, <3>5
    <2> QED
      BY <2>2, <2>3 DEF MoveResolve, MoveNext, MoveWrite, MoveFails, ListFlights, ListTacticals,
          RenumberTactical, RenumberFlights, AppendLock, AppendRollback, DeleteStrip
  <1>4. seq[y] < op[t].order
    BY <1>2 DEF AppendInv, CommitAbove, In
  <1>5. seq'[op[t].x] = op[t].order /\ seq'[y] = seq[y]
    BY <1>1, <1>2, <1>3 DEF AppendCommit, TypeOK
  <1> QED  BY <1>4, <1>5

\* However many handlers append at once (AppendToBay, PersistAtEndOfBay,
\* CreateAtEndOfBay), the row lock keeps the numbers of a bay distinct.
THEOREM AppendsDistinct ==
    ASSUME Ops \subseteq {"append"}
    PROVE  Spec => []DistinctSequences
  <1>1. AppendInv /\ [Next]_vars => AppendInv'
    BY StepAppend
  <1> QED  BY InitAppend, <1>1, AppendDistinct, PTL DEF Spec

\* and every committed append puts its strip at the end of the bay.
THEOREM AppendsAreLast ==
    ASSUME Ops \subseteq {"append"}
    PROVE  Spec => AppendsLast
  <1>1. AppendInv /\ [Next]_vars => AppendInv'
    BY StepAppend
  <1>2. AppendInv /\ [Next]_vars =>
           [\A t \in Threads :
              Ends(t) /\ op[t].pc = "commit" /\ <<bay, seq>>' # <<bay, seq>> =>
                 \A y \in Strips \ {op[t].x} :
                    bay[y] = op[t].to => seq'[y] < seq'[op[t].x]]_vars
    BY AppendStepLast
  <1> QED  BY InitAppend, <1>1, <1>2, PTL DEF Spec, AppendsLast

-----------------------------------------------------------------------------
(* One thread, every operation.                                            *)

Recalculating == {"flights", "tacticals", "renumber"}

\* Outside the bay being renumbered the numbers are distinct; a number about
\* to be written is free; and a renumbering has covered exactly the bay, with
\* positions of its own for the strips it still has to write.
Covers(t) ==
    /\ op[t].list \subseteq In(op[t].to)
    /\ \A a, b \in op[t].list : a # b => op[t].num[a] # op[t].num[b]
    /\ \A y \in In(op[t].to) \ op[t].list :
          /\ \A a \in op[t].list : op[t].num[a] # seq[y]
          /\ \A z \in In(op[t].to) \ op[t].list : y # z => seq[y] # seq[z]

Serial(t) ==
    /\ \A b \in Bays : (op[t].pc \in Recalculating /\ b = op[t].to) \/ BayDistinct(b)
    /\ (op[t].pc = "write" /\ ~op[t].recalc) \/ op[t].pc = "commit"
          => op[t].order \notin SeqsIn(op[t].to)
    /\ op[t].pc = "tacticals" => op[t].list = In(op[t].to) \cap Flights
    /\ op[t].pc = "renumber" => Covers(t)

SerialInv == TypeOK /\ \A t \in Threads : Serial(t)

\* A strip with a free number can be put into a bay.
LEMMA BayGains ==
    ASSUME TypeOK, NEW b \in Bays, NEW x \in Strips, NEW n \in Nat, n \notin SeqsIn(b),
           bay' = [bay EXCEPT ![x] = b], seq' = [seq EXCEPT ![x] = n],
           NEW c \in Bays, BayDistinct(c)
    PROVE  BayDistinct(c)'
  <1>1. /\ bay'[x] = b /\ seq'[x] = n
        /\ \A y \in Strips \ {x} : bay'[y] = bay[y] /\ seq'[y] = seq[y]
    BY DEF TypeOK
  <1>2. \A y \in Strips : bay[y] = b => seq[y] # n
    BY DEF SeqsIn, In
  <1> QED  BY <1>1, <1>2 DEF BayDistinct, In

\* With one thread every step preserves the invariant.
LEMMA StepSerial ==
    ASSUME NEW t \in Threads, Threads = {t}, Failing = {}, SerialInv, [Next]_vars
    PROVE  SerialInv'
  <1>0. TypeOK /\ TypeOK' /\ Serial(t)
    BY StepType DEF SerialInv
  <1> SUFFICES Serial(t)'
    BY <1>0 DEF SerialInv
  <1>1. ASSUME NEW x \in Strips, NEW after \in Strips \cup {None},
               NEW b \in Bays, MoveResolve(t, x, after, b)
        PROVE  Serial(t)'
    <2>1. op'[t].pc = "next" /\ op[t].pc = "idle" /\ bay' = bay /\ seq' = seq
      BY <1>0, <1>1 DEF MoveResolve, TypeOK, Idle
    <2> QED  BY <1>0, <2>1 DEF Serial, BayDistinct, In, SeqsIn, Recalculating
  <1>2. CASE MoveNext(t)
    <2>1. PICK next : /\ IsNextSequence(next, op[t].to, op[t].prev)
                      /\ op' = [op EXCEPT ![t] = [op[t] EXCEPT !.pc = "write",
                              !.recalc = NeedsRecalc(op[t].prev, next),
                              !.order = IF NeedsRecalc(op[t].prev, next) THEN 0
                                        ELSE OrderBetween(op[t].prev, next)]]
      BY <1>2 DEF MoveNext
    <2>2. op[t] \in Operation /\ op[t].to \in Bays /\ op[t].prev \in Nat /\ op[t].pc = "next"
      BY <1>0, <1>2, OpType DEF MoveNext
    <2>3. /\ op'[t].pc = "write" /\ op'[t].to = op[t].to
          /\ op'[t].recalc = NeedsRecalc(op[t].prev, next)
          /\ ~NeedsRecalc(op[t].prev, next) => op'[t].order = OrderBetween(op[t].prev, next)
      BY <1>0, <2>1, <2>2 DEF TypeOK, Operation
    <2>4. bay' = bay /\ seq' = seq
      BY <1>2 DEF MoveNext
    <2>5. ~op'[t].recalc => op'[t].order \notin SeqsIn(op[t].to)
      BY <1>0, <2>1, <2>2, <2>3, OrderFresh
    <2> QED
      BY <1>0, <2>2, <2>3, <2>4, <2>5 DEF Serial, BayDistinct, In, SeqsIn, Recalculating
  <1>3. CASE MoveWrite(t)
    <2>1. /\ op[t] \in Operation /\ op[t].x \in Strips /\ op[t].to \in Bays
          /\ op[t].order \in Nat /\ op[t].pc = "write"
      BY <1>0, <1>3, OpType DEF MoveWrite
    <2>2. \A b \in Bays : BayDistinct(b)
      BY <1>0, <2>1 DEF Serial, Recalculating
    <2>3. CASE bay[op[t].x] = None \/ ~op[t].recalc
      <3>1. \A b \in Bays : BayDistinct(b)'
        <4>1. CASE bay[op[t].x] = None
          BY <1>3, <2>2, <4>1 DEF MoveWrite, Place, BayDistinct, In
        <4>2. CASE bay[op[t].x] # None
          <5>1. bay' = [bay EXCEPT ![op[t].x] = op[t].to] /\ seq' = [seq EXCEPT ![op[t].x] = op[t].order]
            BY <1>3, <4>2 DEF MoveWrite, Place
          <5>2. op[t].order \notin SeqsIn(op[t].to)
            BY <1>0, <2>1, <2>3, <4>2 DEF Serial
          <5> QED  BY <1>0, <2>1, <2>2, <5>1, <5>2, BayGains
        <4> QED  BY <4>1, <4>2
      <3>2. op'[t].pc \in {"idle", "flights"}
        BY <1>0, <1>3, <2>1, IdleType DEF MoveWrite, TypeOK, Operation
      <3> QED  BY <3>1, <3>2 DEF Serial
    <2>4. CASE bay[op[t].x] # None /\ op[t].recalc
      <3>1. op'[t].pc = "flights" /\ op'[t].to = op[t].to
        BY <1>0, <1>3, <2>1, <2>4 DEF MoveWrite, Missing, TypeOK, Operation
      <3>2. /\ bay'[op[t].x] = op[t].to
            /\ \A y \in Strips \ {op[t].x} : bay'[y] = bay[y] /\ seq'[y] = seq[y]
        BY <1>0, <1>3, <2>1, <2>4 DEF MoveWrite, Place, TypeOK
      <3>3. \A b \in Bays : b # op[t].to => BayDistinct(b)'
        BY <2>1, <2>2, <3>2 DEF BayDistinct, In
      <3> QED  BY <3>1, <3>3 DEF Serial, Recalculating
    <2> QED  BY <2>3, <2>4
  <1>4. CASE ListFlights(t)
    <2>1. op[t] \in Operation /\ op[t].to \in Bays /\ op[t].pc = "flights"
      BY <1>0, <1>4, OpType DEF ListFlights
    <2>2. op'[t].pc = "tacticals" /\ op'[t].to = op[t].to /\ op'[t].list = In(op[t].to) \cap Flights
      BY <1>0, <1>4, <2>1 DEF ListFlights, TypeOK, Operation
    <2>3. bay' = bay /\ seq' = seq
      BY <1>4 DEF ListFlights
    <2> QED
      BY <1>0, <2>1, <2>2, <2>3 DEF Serial, BayDistinct, In, Recalculating
  <1>5. CASE ListTacticals(t)
    <2> DEFINE read == In(op[t].to) \cap Tacticals
               list == op[t].list \cup read
    <2>1. PICK pos \in SortedPositions(list, Numbers(t, read)) :
             op' = [op EXCEPT ![t] = [op[t] EXCEPT !.pc = "renumber", !.list = list,
                       !.num = [s \in Strips |-> IF s \in list THEN pos[s] * Spacing ELSE 0]]]
      BY <1>5 DEF ListTacticals
    <2>2. op[t] \in Operation /\ op[t].to \in Bays /\ op[t].pc = "tacticals"
      BY <1>0, <1>5, OpType DEF ListTacticals
    <2>3. list = In(op[t].to)
      BY <1>0, <2>2 DEF Serial, In
    <2>4. bay' = bay /\ seq' = seq
      BY <1>5 DEF ListTacticals
    <2>5. /\ op'[t].pc = "renumber" /\ op'[t].to = op[t].to /\ op'[t].list = list
          /\ op'[t].num = [s \in Strips |-> IF s \in list THEN pos[s] * Spacing ELSE 0]
      <3> HIDE DEF list
      <3> QED  BY <1>0, <2>1, <2>2 DEF TypeOK, Operation
    <2>6. \A s \in list : pos[s] \in Nat
      BY <2>1, <2>3, PositionsNat DEF In
    <2>7. \A a, b \in list : a # b => pos[a] # pos[b]
      BY <2>1 DEF SortedPositions
    <2>8. \A a, b \in list : a # b => pos[a] * Spacing # pos[b] * Spacing
      <3> SUFFICES ASSUME NEW a \in list, NEW b \in list, pos[a] # pos[b]
                   PROVE  pos[a] * Spacing # pos[b] * Spacing
        BY <2>7
      <3> DEFINE i == pos[a]
                 j == pos[b]
      <3>1. i \in Nat /\ j \in Nat /\ i # j /\ Spacing \in Nat /\ Spacing > 0
        BY <2>6
      <3> HIDE DEF i, j
      <3>2. i * Spacing # j * Spacing
        BY <3>1, ProductsDiffer
      <3> QED  BY <3>2 DEF i, j
    <2>9. Covers(t)'
      <3>1. list = {s \in Strips : bay'[s] = op'[t].to} /\ list \subseteq Strips
        BY <2>3, <2>4, <2>5 DEF In
      <3>3. \A a \in list : op'[t].num[a] = pos[a] * Spacing
        <4> HIDE DEF list
        <4> QED  BY <2>5, <3>1
      <3> HIDE DEF list
      <3> QED  BY <2>5, <2>8, <3>1, <3>3 DEF Covers, In
    <2>10. \A b \in Bays : b # op[t].to => BayDistinct(b)'
      BY <1>0, <2>4 DEF Serial, BayDistinct, In
    <2> HIDE DEF list
    <2> QED  BY <2>5, <2>9, <2>10 DEF Serial, Recalculating
  <1>6. ASSUME NEW x \in Strips, RenumberTactical(t, x)
        PROVE  Serial(t)'
    <2>1. /\ op[t] \in Operation /\ op[t].to \in Bays /\ op[t].num \in [Strips -> Nat]
          /\ op[t].pc = "renumber" /\ x \in op[t].list /\ Covers(t)
      BY <1>0, <1>6, OpType DEF RenumberTactical, Serial
    <2>2. bay[x] = op[t].to /\ ~Missing(x)
      BY <2>1 DEF Covers, In, Missing
    <2>3. /\ op'[t].pc = "renumber" /\ op'[t].to = op[t].to /\ op'[t].num = op[t].num
          /\ op'[t].list = op[t].list \ {x}
      BY <1>0, <1>6, <2>1, <2>2 DEF RenumberTactical, TypeOK, Operation
    <2>4. /\ bay' = bay /\ seq'[x] = op[t].num[x]
          /\ \A y \in Strips \ {x} : seq'[y] = seq[y]
      BY <1>0, <1>6, <2>2 DEF RenumberTactical, TypeOK
    <2>5. Covers(t)'
      BY <2>1, <2>3, <2>4 DEF Covers, In
    <2>6. \A b \in Bays : b # op[t].to => BayDistinct(b)'
      BY <1>0, <2>2, <2>4 DEF Serial, BayDistinct, In
    <2> QED  BY <2>3, <2>5, <2>6 DEF Serial, Recalculating
  <1>7. CASE RenumberFlights(t)
    <2>1. /\ op[t].to \in Bays /\ op[t].num \in [Strips -> Nat]
          /\ op[t].pc = "renumber" /\ Covers(t)
      BY <1>0, <1>7, OpType DEF RenumberFlights, Serial
    <2>2. /\ bay' = bay /\ op'[t].pc = "idle"
          /\ \A s \in Strips : seq'[s] = IF s \in op[t].list THEN op[t].num[s] ELSE seq[s]
      <3>1. \A s \in op[t].list : bay[s] # None
        BY <2>1 DEF Covers, In
      <3>2. bay' = bay /\ op'[t].pc = "idle"
        BY <1>0, <1>7, IdleType DEF RenumberFlights, TypeOK
      <3> QED  BY <1>7, <3>1, <3>2 DEF RenumberFlights
    <2>3. \A b \in Bays : b # op[t].to => BayDistinct(b)'
      BY <1>0, <2>1, <2>2 DEF Serial, BayDistinct, In, Covers
    <2>4. \A b \in Bays : b = op[t].to => BayDistinct(b)'
      <3>1. \A y, z \in Strips : bay[y] = op[t].to /\ bay[z] = op[t].to /\ y # z => seq'[y] # seq'[z]
        BY <2>1, <2>2 DEF Covers, In
      <3> QED  BY <2>2, <3>1 DEF BayDistinct, In
    <2> QED  BY <2>2, <2>3, <2>4 DEF Serial
  <1>8. ASSUME NEW x \in Strips, NEW b \in Bays, AppendLock(t, x, b)
        PROVE  Serial(t)'
    <2>1. PICK m \in SeqsIn(b) \cup {0} :
             /\ IsMaxSequence(m, b)
             /\ op' = [op EXCEPT ![t] = [Idle EXCEPT !.pc = "commit", !.x = x, !.to = b,
                                                     !.order = m + Spacing, !.before = Above]]
      BY <1>8 DEF AppendLock
    <2>2. op'[t].pc = "commit" /\ op'[t].to = b /\ op'[t].order = m + Spacing /\ op[t].pc = "idle"
      BY <1>0, <1>8, <2>1 DEF TypeOK, Idle, AppendLock
    <2>3. m + Spacing \notin SeqsIn(b)
      <3>1. SeqsIn(b) \subseteq Nat
        BY <1>0 DEF TypeOK, SeqsIn, In
      <3> QED  BY <2>1, <3>1 DEF IsMaxSequence
    <2>4. bay' = bay /\ seq' = seq
      BY <1>8 DEF AppendLock
    <2> QED  BY <1>0, <2>2, <2>3, <2>4 DEF Serial, BayDistinct, In, SeqsIn, Recalculating
  <1>9. CASE AppendCommit(t)
    <2>1. /\ op[t].x \in Strips /\ op[t].to \in Bays /\ op[t].order \in Nat
          /\ op[t].pc = "commit" /\ op[t].order \notin SeqsIn(op[t].to)
      BY <1>0, <1>9, OpType DEF AppendCommit, Serial
    <2>2. \A b \in Bays : BayDistinct(b)'
      BY <1>0, <1>9, <2>1, BayGains DEF AppendCommit, Serial, Recalculating
    <2>3. op'[t].pc = "idle"
      BY <1>0, <1>9, IdleType DEF AppendCommit, TypeOK
    <2> QED  BY <2>2, <2>3 DEF Serial
  <1>10. CASE AppendRollback(t)
    <2>1. op[t].pc = "commit" /\ op'[t].pc = "idle" /\ bay' = bay /\ seq' = seq
      BY <1>0, <1>10, IdleType DEF AppendRollback, TypeOK
    <2> QED  BY <1>0, <2>1 DEF Serial, BayDistinct, In, Recalculating
  <1>11. ASSUME NEW x \in Strips, DeleteStrip(t, x)
         PROVE  Serial(t)'
    <2>1. op' = op /\ op[t].pc = "idle" /\ \A y \in Strips \ {x} : bay'[y] = bay[y] /\ seq'[y] = seq[y]
      BY <1>0, <1>11 DEF DeleteStrip, TypeOK
    <2>2. bay'[x] = None
      BY <1>0, <1>11 DEF DeleteStrip, TypeOK
    <2>3. \A b \in Bays : BayDistinct(b)'
      BY <1>0, <2>1, <2>2 DEF Serial, BayDistinct, In, Recalculating
    <2> QED  BY <2>1, <2>3 DEF Serial
  <1>12. CASE UNCHANGED vars
    BY <1>0, <1>12 DEF vars, Serial, BayDistinct, In, SeqsIn, Covers
  <1>13. ~MoveFails(t)
    BY DEF MoveFails
  <1> QED
    BY <1>1, <1>2, <1>3, <1>4, <1>5, <1>6, <1>7, <1>8, <1>9, <1>10, <1>11, <1>12, <1>13 DEF Next

\* Init establishes it.
LEMMA InitSerial == Init => SerialInv
  <1> SUFFICES ASSUME Init PROVE SerialInv
    OBVIOUS
  <1>1. \A b \in Bays : In(b) = {}
    BY DEF Init, In
  <1>2. \A t \in Threads : op[t].pc = "idle"
    BY IdleType DEF Init
  <1> QED  BY InitType, <1>1, <1>2 DEF SerialInv, Serial, BayDistinct

\* When one controller at a time works on the board and no statement of a move
\* fails, its moves, the
\* renumberings they cause and its appends never give two strips of a bay the
\* same number.
THEOREM SerialDistinct ==
    ASSUME NEW t \in Threads, Threads = {t}, Failing = {}
    PROVE  Spec => []DistinctSequences
  <1>1. SerialInv /\ [Next]_vars => SerialInv'
    BY StepSerial
  <1>2. SerialInv => DistinctSequences
    BY DEF SerialInv, Serial, Recalculating, TypeOK, BayDistinct, In, DistinctSequences, Quiet
  <1> QED  BY InitSerial, <1>1, <1>2, PTL DEF Spec

-----------------------------------------------------------------------------
(* One thread: where a move puts its strip, and what it leaves in place.   *)

\* The number a strip will have when the renumbering under way is over.
Final(t, s) == IF op[t].pc = "renumber" /\ s \in op[t].list THEN op[t].num[s] ELSE seq[s]

\* The board the operation began with, without the strip it moves, is still
\* there: same bays, and in the same order once its numbers are written.
Kept(t) ==
    \A p \in op[t].before : op[t].x \notin {p[1], p[2]} =>
        /\ bay[p[1]] # None /\ bay[p[1]] = bay[p[2]]
        /\ Final(t, p[1]) < Final(t, p[2])

\* No strip of the bay has the number 0, which stands for its top.
BayPositive(b) == \A y \in In(b) : seq[y] > 0

\* The number of a move lies above the predecessor's and below every other
\* number above that one.
Between(t) ==
    /\ op[t].prev < op[t].order
    /\ \A y \in In(op[t].to) : seq[y] <= op[t].prev \/ op[t].order < seq[y]

Ordered(t) ==
    /\ \A b \in Bays : (op[t].pc \in Recalculating /\ b = op[t].to) \/ BayPositive(b)
    /\ op[t].pc = "renumber" => \A y \in In(op[t].to) : Final(t, y) > 0
    /\ op[t].pc \in {"next", "write"} =>
          op[t].prev = RefSequence(op[t].after) /\ op[t].after # op[t].x
    /\ op[t].pc = "write" /\ ~op[t].recalc => Between(t)
    /\ op[t].pc = "commit" => op[t].order > 0
    /\ op[t].pc = "tacticals" => \A s \in op[t].list : op[t].num[s] = seq[s]
    /\ op[t].pc # "idle" => Kept(t)

OrderedInv == SerialInv /\ \A t \in Threads : Ordered(t)

\* Positions in order give numbers in order.
LEMMA ProductsOrdered ==
    ASSUME NEW i \in Nat, NEW j \in Nat, NEW k \in Nat, k > 0
    PROVE  /\ i > 0 => i * k \in Nat /\ i * k > 0
           /\ i < j => i * k < j * k
  <1>1. ASSUME NEW a \in Nat, NEW d \in Nat, d > 0  PROVE a * k < (a + d) * k
    <2>1. (a + d) * k = a * k + d * k
      BY SMT
    <2>2. d * k > 0 /\ a * k \in Nat /\ d * k \in Nat
      BY <1>1, SMT
    <2> QED  BY <2>1, <2>2
  <1>2. i > 0 => i * k \in Nat /\ i * k > 0
    BY SMT
  <1>3. ASSUME i < j  PROVE i * k < j * k
    <2>1. j - i \in Nat /\ j - i > 0 /\ i + (j - i) = j
      BY <1>3
    <2> QED  BY <1>1, <2>1
  <1> QED  BY <1>2, <1>3

\* The pairs of the board an operation began with are pairs of strips.
LEMMA BeforeType ==
    ASSUME TypeOK, NEW t \in Threads, NEW p \in op[t].before
    PROVE  p[1] \in Strips /\ p[2] \in Strips
  <1>1. op[t].before \subseteq Strips \X Strips
    BY DEF TypeOK, Operation
  <1> QED  BY <1>1

\* A step that writes no row and starts no renumbering keeps the board.
LEMMA KeptStays ==
    ASSUME TypeOK, NEW t \in Threads, Kept(t), op[t].pc # "renumber", op'[t].pc # "renumber",
           op'[t].before = op[t].before, op'[t].x = op[t].x, UNCHANGED <<bay, seq>>
    PROVE  Kept(t)'
  BY DEF Kept, Final

\* The order of the board when an operation begins is the one it must keep.
LEMMA KeptBegins ==
    ASSUME TypeOK, NEW t \in Threads, op'[t].before = Above, op'[t].pc # "renumber", UNCHANGED <<bay, seq>>
    PROVE  Kept(t)'
  BY DEF Kept, Final, Above

\* Writing the moved strip only keeps the rest of the board.
LEMMA KeptElsewhere ==
    ASSUME TypeOK, NEW t \in Threads, Kept(t), op[t].pc # "renumber",
           \A y \in Strips \ {op[t].x} : bay'[y] = bay[y] /\ seq'[y] = seq[y]
    PROVE  \A p \in op[t].before : op[t].x \notin {p[1], p[2]} =>
              bay'[p[1]] # None /\ bay'[p[1]] = bay'[p[2]] /\ seq'[p[1]] < seq'[p[2]]
  BY BeforeType DEF Kept, Final

\* The number MoveNext computes lies between its neighbours.
LEMMA NextBetween ==
    ASSUME TypeOK, NEW b \in Bays, NEW prev \in Nat,
           NEW next, IsNextSequence(next, b, prev), ~NeedsRecalc(prev, next)
    PROVE  /\ prev < OrderBetween(prev, next)
           /\ \A y \in In(b) : seq[y] <= prev \/ OrderBetween(prev, next) < seq[y]
  <1>1. \A y \in In(b) : seq[y] \in Nat /\ seq[y] \in SeqsIn(b)
    BY DEF TypeOK, SeqsIn, In
  <1>2. CASE next = None
    <2>1. SeqsIn(b) \subseteq Nat
      BY DEF TypeOK, SeqsIn, In
    <2>2. Following(b, prev) = {}
      BY <1>2, <2>1 DEF IsNextSequence, Following
    <2>3. \A y \in In(b) : seq[y] <= prev
      BY <1>1, <2>2 DEF Following
    <2> QED  BY <1>2, <2>3 DEF OrderBetween
  <1>3. CASE next # None
    <2>1. next \in SeqsIn(b) /\ next > prev /\ \A m \in SeqsIn(b) : m > prev => next <= m
      BY <1>3 DEF IsNextSequence, Following
    <2>2. next \in Nat /\ next - prev > MinGap
      BY <1>3, <2>1 DEF NeedsRecalc, SeqsIn, In, TypeOK
    <2>3. OrderBetween(prev, next) \in Nat /\ prev < OrderBetween(prev, next) /\ OrderBetween(prev, next) < next
      BY <1>3, <2>2, MidpointBetween DEF OrderBetween
    <2> QED  BY <1>1, <2>1, <2>2, <2>3
  <1> QED  BY <1>2, <1>3

\* With one thread every step preserves the invariant.
LEMMA StepOrdered ==
    ASSUME NEW t \in Threads, Threads = {t}, Failing = {}, OrderedInv, [Next]_vars
    PROVE  OrderedInv'
  <1>0. TypeOK /\ TypeOK' /\ Serial(t) /\ Ordered(t)
    BY StepType DEF OrderedInv, SerialInv
  <1> SUFFICES Ordered(t)'
    BY StepSerial DEF OrderedInv
  <1>1. ASSUME NEW x \in Strips, NEW after \in Strips \cup {None},
               NEW b \in Bays, MoveResolve(t, x, after, b)
        PROVE  Ordered(t)'
    <2>1. /\ op'[t].pc = "next" /\ op[t].pc = "idle" /\ bay' = bay /\ seq' = seq
          /\ op'[t].x = x /\ op'[t].after = after /\ op'[t].prev = RefSequence(after)
          /\ op'[t].before = Above /\ after # x
      BY <1>0, <1>1 DEF MoveResolve, TypeOK, Idle
    <2>2. Kept(t)'
      BY <1>0, <2>1, KeptBegins
    <2> QED  BY <1>0, <2>1, <2>2 DEF Ordered, BayPositive, In, Recalculating, RefSequence
  <1>2. CASE MoveNext(t)
    <2>1. PICK next : /\ IsNextSequence(next, op[t].to, op[t].prev)
                      /\ op' = [op EXCEPT ![t] = [op[t] EXCEPT !.pc = "write",
                              !.recalc = NeedsRecalc(op[t].prev, next),
                              !.order = IF NeedsRecalc(op[t].prev, next) THEN 0
                                        ELSE OrderBetween(op[t].prev, next)]]
      BY <1>2 DEF MoveNext
    <2>2. op[t] \in Operation /\ op[t].to \in Bays /\ op[t].prev \in Nat /\ op[t].pc = "next"
      BY <1>0, <1>2, OpType DEF MoveNext
    <2>3. /\ op'[t].pc = "write" /\ op'[t].to = op[t].to /\ op'[t].x = op[t].x
          /\ op'[t].prev = op[t].prev /\ op'[t].after = op[t].after /\ op'[t].before = op[t].before
          /\ op'[t].recalc = NeedsRecalc(op[t].prev, next)
          /\ ~NeedsRecalc(op[t].prev, next) => op'[t].order = OrderBetween(op[t].prev, next)
      BY <1>0, <2>1, <2>2 DEF TypeOK, Operation
    <2>4. bay' = bay /\ seq' = seq
      BY <1>2 DEF MoveNext
    <2>5. ~op'[t].recalc => Between(t)'
      BY <1>0, <2>1, <2>2, <2>3, <2>4, NextBetween DEF Between, In
    <2>6. Kept(t)'
      BY <1>0, <2>2, <2>3, <2>4, KeptStays DEF Ordered
    <2> QED  BY <1>0, <2>2, <2>3, <2>4, <2>5, <2>6 DEF Ordered, BayPositive, In, Recalculating, RefSequence
  <1>3. CASE MoveWrite(t)
    <2>1. /\ op[t] \in Operation /\ op[t].x \in Strips /\ op[t].to \in Bays
          /\ op[t].order \in Nat /\ op[t].prev \in Nat /\ op[t].pc = "write"
      BY <1>0, <1>3, OpType DEF MoveWrite
    <2>2. \A y \in Strips \ {op[t].x} : bay'[y] = bay[y] /\ seq'[y] = seq[y]
      BY <1>0, <1>3, <2>1 DEF MoveWrite, Place, TypeOK
    <2>3. \/ bay'[op[t].x] = bay[op[t].x] /\ seq'[op[t].x] = seq[op[t].x]
          \/ bay'[op[t].x] = op[t].to /\ seq'[op[t].x] = op[t].order
      BY <1>0, <1>3, <2>1 DEF MoveWrite, Place, TypeOK
    <2>4. \A b \in Bays : BayPositive(b)
      BY <1>0, <2>1 DEF Ordered, Recalculating
    <2>5. \A b \in Bays : b = op[t].to \/ BayPositive(b)'
      BY <2>2, <2>3, <2>4 DEF BayPositive, In
    <2>6. CASE op'[t].pc = "flights"
      <3>1. op'[t].to = op[t].to /\ op'[t].x = op[t].x /\ op'[t].before = op[t].before
        BY <1>0, <1>3, <2>1, <2>6, IdleType DEF MoveWrite, TypeOK, Operation
      <3>2. Kept(t)'
        BY <1>0, <2>1, <2>2, <2>6, <3>1, KeptElsewhere DEF Ordered, Kept, Final
      <3> QED  BY <2>5, <2>6, <3>1, <3>2 DEF Ordered, Recalculating
    <2>7. CASE op'[t].pc # "flights"
      <3>1. op'[t].pc = "idle" /\ (~op[t].recalc \/ Missing(op[t].x))
        BY <1>0, <1>3, <2>1, <2>7, IdleType DEF MoveWrite, TypeOK, Operation
      <3>2. CASE Missing(op[t].x)
        <4>1. bay' = bay /\ seq' = seq
          BY <1>3, <3>2 DEF MoveWrite, Place, Missing
        <4> QED  BY <2>4, <3>1, <4>1 DEF Ordered, BayPositive, In
      <3>3. CASE ~op[t].recalc
        <4>0. Between(t)
          BY <1>0, <2>1, <3>3 DEF Ordered
        <4>1. op[t].order > 0
          BY <2>1, <4>0 DEF Between
        <4>2. \A b \in Bays : BayPositive(b)'
          BY <2>1, <2>2, <2>3, <2>4, <4>1 DEF BayPositive, In
        <4> QED  BY <3>1, <4>2 DEF Ordered
      <3> QED  BY <3>1, <3>2, <3>3
    <2> QED  BY <2>6, <2>7
  <1>4. CASE ListFlights(t)
    <2>1. op[t] \in Operation /\ op[t].to \in Bays /\ op[t].pc = "flights"
      BY <1>0, <1>4, OpType DEF ListFlights
    <2>2. /\ op'[t].pc = "tacticals" /\ op'[t].to = op[t].to /\ op'[t].x = op[t].x
          /\ op'[t].before = op[t].before /\ op'[t].list = In(op[t].to) \cap Flights
          /\ op'[t].num = Numbers(t, In(op[t].to) \cap Flights)
      BY <1>0, <1>4, <2>1 DEF ListFlights, TypeOK, Operation
    <2>3. bay' = bay /\ seq' = seq
      BY <1>4 DEF ListFlights
    <2>4. \A s \in op'[t].list : op'[t].num[s] = seq[s]
      BY <2>2 DEF Numbers, In
    <2>5. Kept(t)'
      BY <1>0, <2>1, <2>2, <2>3, KeptStays DEF Ordered
    <2> QED
      BY <1>0, <2>1, <2>2, <2>3, <2>4, <2>5 DEF Ordered, BayPositive, In, Recalculating
  <1>5. CASE ListTacticals(t)
    <2> DEFINE read == In(op[t].to) \cap Tacticals
               list == op[t].list \cup read
    <2>1. PICK pos \in SortedPositions(list, Numbers(t, read)) :
             op' = [op EXCEPT ![t] = [op[t] EXCEPT !.pc = "renumber", !.list = list,
                       !.num = [s \in Strips |-> IF s \in list THEN pos[s] * Spacing ELSE 0]]]
      BY <1>5 DEF ListTacticals
    <2>2. op[t] \in Operation /\ op[t].to \in Bays /\ op[t].pc = "tacticals"
      BY <1>0, <1>5, OpType DEF ListTacticals
    <2>3. list = In(op[t].to) /\ list \subseteq Strips
      BY <1>0, <2>2 DEF Serial, In
    <2>4. bay' = bay /\ seq' = seq
      BY <1>5 DEF ListTacticals
    <2>5. /\ op'[t].pc = "renumber" /\ op'[t].to = op[t].to /\ op'[t].list = list
          /\ op'[t].x = op[t].x /\ op'[t].before = op[t].before
          /\ \A s \in list : op'[t].num[s] = pos[s] * Spacing
      <3> HIDE DEF list
      <3> QED  BY <1>0, <2>1, <2>2, <2>3 DEF TypeOK, Operation
    <2>6. \A s \in list : Numbers(t, read)[s] = seq[s]
      BY <1>0, <2>2, <2>3 DEF Ordered, Numbers
    <2>7. \A s \in list : pos[s] \in Nat /\ pos[s] > 0
      <3>1. \A s \in list : pos[s] \in Nat
        BY <2>1, <2>3, PositionsNat
      <3> QED  BY <2>1, <3>1 DEF SortedPositions
    <2>8. \A a, b \in list : seq[a] < seq[b] => pos[a] < pos[b]
      BY <2>1, <2>6 DEF SortedPositions
    <2> HIDE DEF list, read
    <2>9. ASSUME NEW a \in list  PROVE Final(t, a)' > 0
      <3> DEFINE i == pos[a]
      <3>1. i \in Nat /\ i > 0 /\ Spacing \in Nat /\ Spacing > 0
        BY <2>7
      <3> HIDE DEF i
      <3>2. i * Spacing > 0
        BY <3>1, ProductsOrdered
      <3>3. op'[t].num[a] > 0
        BY <2>5, <3>2 DEF i
      <3> QED  BY <2>5, <3>3 DEF Final
    <2>10. ASSUME NEW a \in list, NEW b \in list, seq[a] < seq[b]  PROVE Final(t, a)' < Final(t, b)'
      <3> DEFINE i == pos[a]
                 j == pos[b]
      <3>1. i \in Nat /\ j \in Nat /\ i < j /\ Spacing \in Nat /\ Spacing > 0
        BY <2>7, <2>8, <2>10
      <3> HIDE DEF i, j
      <3>2. i * Spacing < j * Spacing
        BY <3>1, ProductsOrdered
      <3>3. op'[t].num[a] < op'[t].num[b]
        BY <2>5, <3>2 DEF i, j
      <3> QED  BY <2>5, <3>3 DEF Final
    <2>11. Kept(t)'
      <3> SUFFICES ASSUME NEW p \in op[t].before, op[t].x \notin {p[1], p[2]}
                   PROVE  /\ bay[p[1]] # None /\ bay[p[1]] = bay[p[2]]
                          /\ Final(t, p[1])' < Final(t, p[2])'
        BY <2>4, <2>5 DEF Kept
      <3>1. /\ p[1] \in Strips /\ p[2] \in Strips
            /\ bay[p[1]] # None /\ bay[p[1]] = bay[p[2]] /\ seq[p[1]] < seq[p[2]]
        BY <1>0, <2>2, BeforeType DEF Ordered, Kept, Final
      <3>2. CASE bay[p[1]] = op[t].to
        BY <2>3, <2>10, <3>1, <3>2 DEF In
      <3>3. CASE bay[p[1]] # op[t].to
        <4>1. p[1] \notin list /\ p[2] \notin list
          BY <2>3, <3>1, <3>3 DEF In
        <4> QED  BY <2>4, <2>5, <3>1, <4>1 DEF Final
      <3> QED  BY <3>1, <3>2, <3>3
    <2>12. \A b \in Bays : b # op[t].to => BayPositive(b)'
      BY <1>0, <2>4 DEF Ordered, BayPositive, In
    <2>13. \A y \in Strips : bay'[y] = op[t].to => Final(t, y)' > 0
      BY <2>3, <2>4, <2>9 DEF In
    <2> QED  BY <2>5, <2>11, <2>12, <2>13 DEF Ordered, Recalculating, In
  <1>6. ASSUME NEW x \in Strips, RenumberTactical(t, x)
        PROVE  Ordered(t)'
    <2>1. /\ op[t] \in Operation /\ op[t].to \in Bays /\ op[t].num \in [Strips -> Nat]
          /\ op[t].pc = "renumber" /\ x \in op[t].list /\ Covers(t)
      BY <1>0, <1>6, OpType DEF RenumberTactical, Serial
    <2>2. bay[x] = op[t].to /\ ~Missing(x)
      BY <2>1 DEF Covers, In, Missing
    <2>3. /\ op'[t].pc = "renumber" /\ op'[t].to = op[t].to /\ op'[t].num = op[t].num
          /\ op'[t].list = op[t].list \ {x} /\ op'[t].x = op[t].x /\ op'[t].before = op[t].before
      BY <1>0, <1>6, <2>1, <2>2 DEF RenumberTactical, TypeOK, Operation
    <2>4. /\ bay' = bay /\ seq'[x] = op[t].num[x]
          /\ \A y \in Strips \ {x} : seq'[y] = seq[y]
      BY <1>0, <1>6, <2>2 DEF RenumberTactical, TypeOK
    <2>5. \A s \in Strips : Final(t, s)' = Final(t, s)
      BY <2>1, <2>3, <2>4 DEF Final
    <2>6. Kept(t)'
      <3> SUFFICES ASSUME NEW p \in op[t].before, op[t].x \notin {p[1], p[2]}
                   PROVE  /\ bay[p[1]] # None /\ bay[p[1]] = bay[p[2]]
                          /\ Final(t, p[1])' < Final(t, p[2])'
        BY <2>3, <2>4 DEF Kept
      <3> QED  BY <1>0, <2>1, <2>5, BeforeType DEF Ordered, Kept
    <2>7. \A b \in Bays : b # op[t].to => BayPositive(b)'
      BY <1>0, <2>2, <2>4 DEF Ordered, BayPositive, In
    <2>8. \A y \in Strips : bay'[y] = op[t].to => Final(t, y)' > 0
      BY <1>0, <2>1, <2>4, <2>5 DEF Ordered, In
    <2> QED  BY <2>3, <2>6, <2>7, <2>8 DEF Ordered, Recalculating, In
  <1>7. CASE RenumberFlights(t)
    <2>1. /\ op[t].to \in Bays /\ op[t].num \in [Strips -> Nat]
          /\ op[t].pc = "renumber" /\ Covers(t)
      BY <1>0, <1>7, OpType DEF RenumberFlights, Serial
    <2>2. /\ bay' = bay /\ op'[t].pc = "idle"
          /\ \A s \in Strips : seq'[s] = Final(t, s)
      <3>1. \A s \in op[t].list : bay[s] # None
        BY <2>1 DEF Covers, In
      <3>2. bay' = bay /\ op'[t].pc = "idle"
        BY <1>0, <1>7, IdleType DEF RenumberFlights, TypeOK
      <3> QED  BY <1>7, <2>1, <3>1, <3>2 DEF RenumberFlights, Final
    <2>3. \A b \in Bays : BayPositive(b)'
      <3>1. \A s \in Strips : bay[s] # op[t].to => Final(t, s) = seq[s]
        BY <2>1 DEF Covers, In, Final
      <3> QED  BY <1>0, <2>1, <2>2, <3>1 DEF Ordered, BayPositive, In
    <2> QED  BY <2>2, <2>3 DEF Ordered
  <1>8. ASSUME NEW x \in Strips, NEW b \in Bays, AppendLock(t, x, b)
        PROVE  Ordered(t)'
    <2>1. PICK m \in SeqsIn(b) \cup {0} :
             op' = [op EXCEPT ![t] = [Idle EXCEPT !.pc = "commit", !.x = x, !.to = b,
                                                  !.order = m + Spacing, !.before = Above]]
      BY <1>8 DEF AppendLock
    <2>2. /\ op'[t].pc = "commit" /\ op'[t].order = m + Spacing /\ op'[t].before = Above
          /\ op[t].pc = "idle"
      BY <1>0, <1>8, <2>1 DEF TypeOK, Idle, AppendLock
    <2>3. m \in Nat
      BY <1>0 DEF TypeOK, SeqsIn, In
    <2>4. bay' = bay /\ seq' = seq
      BY <1>8 DEF AppendLock
    <2>5. Kept(t)'
      BY <1>0, <2>2, <2>4, KeptBegins
    <2> QED  BY <1>0, <2>2, <2>3, <2>4, <2>5 DEF Ordered, BayPositive, In, Recalculating
  <1>9. CASE AppendCommit(t)
    <2>1. /\ op[t].x \in Strips /\ op[t].to \in Bays /\ op[t].pc = "commit" /\ op[t].order > 0
      BY <1>0, <1>9, OpType DEF AppendCommit, Ordered
    <2>2. /\ bay'[op[t].x] = op[t].to /\ seq'[op[t].x] = op[t].order
          /\ \A y \in Strips \ {op[t].x} : bay'[y] = bay[y] /\ seq'[y] = seq[y]
      BY <1>0, <1>9, <2>1 DEF AppendCommit, TypeOK
    <2>3. \A b \in Bays : BayPositive(b)'
      BY <1>0, <2>1, <2>2 DEF Ordered, BayPositive, In, Recalculating
    <2>4. op'[t].pc = "idle"
      BY <1>0, <1>9, IdleType DEF AppendCommit, TypeOK
    <2> QED  BY <2>3, <2>4 DEF Ordered
  <1>10. CASE AppendRollback(t)
    <2>1. op[t].pc = "commit" /\ op'[t].pc = "idle" /\ bay' = bay /\ seq' = seq
      BY <1>0, <1>10, IdleType DEF AppendRollback, TypeOK
    <2> QED  BY <1>0, <2>1 DEF Ordered, BayPositive, In, Recalculating
  <1>11. ASSUME NEW x \in Strips, DeleteStrip(t, x)
         PROVE  Ordered(t)'
    <2>1. /\ op' = op /\ op[t].pc = "idle" /\ bay'[x] = None
          /\ \A y \in Strips \ {x} : bay'[y] = bay[y] /\ seq'[y] = seq[y]
      BY <1>0, <1>11 DEF DeleteStrip, TypeOK
    <2>2. \A b \in Bays : BayPositive(b)'
      BY <1>0, <2>1 DEF Ordered, BayPositive, In, Recalculating
    <2> QED  BY <2>1, <2>2 DEF Ordered
  <1>12. CASE UNCHANGED vars
    BY <1>0, <1>12 DEF vars, Ordered, BayPositive, In, Kept, Final, Between, RefSequence
  <1>13. ~MoveFails(t)
    BY DEF MoveFails
  <1> QED
    BY <1>1, <1>2, <1>3, <1>4, <1>5, <1>6, <1>7, <1>8, <1>9, <1>10, <1>11, <1>12, <1>13 DEF Next

\* Init establishes it.
LEMMA InitOrdered == Init => OrderedInv
  <1> SUFFICES ASSUME Init PROVE OrderedInv
    OBVIOUS
  <1>1. \A b \in Bays : In(b) = {}
    BY DEF Init, In
  <1>2. \A t \in Threads : op[t].pc = "idle"
    BY IdleType DEF Init
  <1> QED  BY InitSerial, <1>1, <1>2 DEF OrderedInv, Ordered, BayPositive

\* A move's write puts the strip directly below its predecessor: every other
\* strip of the bay is above the predecessor or below the computed number.
LEMMA WritePlaces ==
    ASSUME NEW t \in Threads, OrderedInv, MoveWrite(t), Ends(t)
    PROVE  Placed(t)
  <1>0. TypeOK /\ Serial(t) /\ Ordered(t)
    BY DEF OrderedInv, SerialInv
  <1>1. /\ op[t] \in Operation /\ op[t].x \in Strips /\ op[t].to \in Bays
        /\ op[t].order \in Nat /\ op[t].prev \in Nat /\ op[t].pc = "write"
    BY <1>0, OpType DEF MoveWrite
  <1> SUFFICES ASSUME NEW x \in {op[t].x}, NEW after \in {op[t].after},
                      bay[x] # None, after \in In(op[t].to) \cup {None}
               PROVE  DirectlyBelow(x, after)'
    BY DEF Placed
  <1>2. ~op[t].recalc
    <2>1. ~Missing(op[t].x)
      BY DEF Missing
    <2>2. op[t].recalc => op'[t].pc = "flights"
      BY <1>0, <1>1, <2>1 DEF MoveWrite, TypeOK, Operation
    <2> QED  BY <2>2 DEF Ends
  <1>3. /\ bay'[x] = op[t].to /\ seq'[x] = op[t].order
        /\ \A y \in Strips \ {x} : bay'[y] = bay[y] /\ seq'[y] = seq[y]
    BY <1>0, <1>1 DEF MoveWrite, Place, TypeOK
  <1>4. /\ op[t].prev < op[t].order
        /\ \A y \in Strips : bay[y] = op[t].to => seq[y] <= op[t].prev \/ op[t].order < seq[y]
        /\ op[t].prev = RefSequence(after) /\ after # x
    BY <1>0, <1>1, <1>2 DEF Ordered, Between, In
  <1>5. \A y, z \in Strips : bay[y] = op[t].to /\ bay[z] = op[t].to /\ y # z => seq[y] # seq[z]
    BY <1>0, <1>1 DEF Serial, Recalculating, BayDistinct, In
  <1>6. \A y \in Strips : bay[y] = op[t].to => seq[y] > 0
    BY <1>0, <1>1 DEF Ordered, Recalculating, BayPositive, In
  <1>7. \A y \in Strips : seq[y] \in Nat
    BY <1>0 DEF TypeOK
  <1>8. CASE after = None
    <2>1. op[t].prev = 0
      BY <1>4, <1>8 DEF RefSequence
    <2>2. \A y \in Strips \ {x} : bay'[y] = bay'[x] => seq'[y] > seq'[x]
      BY <1>1, <1>3, <1>4, <1>6, <1>7, <2>1
    <2> QED  BY <1>8, <2>2 DEF DirectlyBelow, In
  <1>9. CASE after # None
    <2>1. after \in Strips /\ bay[after] = op[t].to /\ op[t].prev = seq[after]
      BY <1>4, <1>9 DEF RefSequence, In
    <2>2. seq'[after] = seq[after] /\ seq'[after] < seq'[x]
      BY <1>3, <1>4, <2>1
    <2>3. \A y \in Strips \ {x, after} : bay'[y] = bay'[x] => seq'[y] > seq'[x] \/ seq'[y] < seq'[after]
      BY <1>1, <1>3, <1>4, <1>5, <1>7, <2>1, <2>2
    <2> QED  BY <1>9, <2>2, <2>3 DEF DirectlyBelow, In
  <1> QED  BY <1>8, <1>9

\* When an operation ends, the board it began with is still in order.
LEMMA EndKeeps ==
    ASSUME NEW t \in Threads, Threads = {t}, Failing = {}, OrderedInv, [Next]_vars, Ends(t),
           NEW p \in op[t].before, op[t].x \notin {p[1], p[2]}
    PROVE  p \in Above'
  <1>0. TypeOK /\ Serial(t) /\ Ordered(t) /\ op[t].pc # "idle" /\ op'[t].pc = "idle"
    BY DEF OrderedInv, SerialInv, Ends
  <1>1. Kept(t) /\ p[1] \in Strips /\ p[2] \in Strips /\ p \in Strips \X Strips
    <2>1. op[t].before \subseteq Strips \X Strips
      BY <1>0 DEF TypeOK, Operation
    <2> QED  BY <1>0, <2>1 DEF Ordered
  <1> SUFFICES bay'[p[1]] # None /\ bay'[p[1]] = bay'[p[2]] /\ seq'[p[1]] < seq'[p[2]]
    BY <1>1 DEF Above
  <1>2. CASE MoveWrite(t) \/ AppendCommit(t) \/ AppendRollback(t)
    <2>1. op[t].x \in Strips /\ op[t].pc # "renumber"
      BY <1>0, <1>2, OpType DEF MoveWrite, AppendCommit, AppendRollback
    <2>2. \A y \in Strips \ {op[t].x} : bay'[y] = bay[y] /\ seq'[y] = seq[y]
      BY <1>0, <1>2, <2>1 DEF MoveWrite, Place, AppendCommit, AppendRollback, TypeOK
    <2> QED  BY <1>0, <1>1, <2>1, <2>2, KeptElsewhere
  <1>3. CASE RenumberFlights(t)
    <2>1. op[t].pc = "renumber" /\ Covers(t) /\ bay' = bay /\ op[t].to \in Bays
      BY <1>0, <1>3, OpType DEF RenumberFlights, Serial
    <2>3. \A s \in op[t].list : bay[s] # None
      BY <2>1 DEF Covers, In
    <2>2. \A s \in Strips : seq'[s] = Final(t, s)
      BY <1>3, <2>1, <2>3 DEF RenumberFlights, Final
    <2> QED  BY <1>1, <2>1, <2>2 DEF Kept
  <1>4. ASSUME NEW y \in Strips, RenumberTactical(t, y)  PROVE FALSE
    <2>1. op[t].pc = "renumber" /\ Covers(t) /\ y \in op[t].list /\ op[t].to \in Bays /\ op[t] \in Operation
      BY <1>0, <1>4, OpType DEF RenumberTactical, Serial
    <2>2. ~Missing(y)
      BY <2>1 DEF Covers, In, Missing
    <2>3. op'[t].pc = "renumber"
      BY <1>0, <1>4, <2>1, <2>2 DEF RenumberTactical, TypeOK, Operation
    <2> QED  BY <1>0, <2>3
  <1>5. ASSUME MoveNext(t) \/ ListFlights(t) \/ ListTacticals(t)  PROVE FALSE
    <2>1. op[t] \in Operation
      BY <1>0 DEF TypeOK
    <2>2. CASE MoveNext(t)
      <3>1. PICK r : op' = [op EXCEPT ![t] = [op[t] EXCEPT !.pc = "write", !.recalc = r[1], !.order = r[2]]]
        <4>1. PICK next : op' = [op EXCEPT ![t] = [op[t] EXCEPT !.pc = "write",
                              !.recalc = NeedsRecalc(op[t].prev, next),
                              !.order = IF NeedsRecalc(op[t].prev, next) THEN 0
                                        ELSE OrderBetween(op[t].prev, next)]]
          BY <2>2 DEF MoveNext
        <4> WITNESS <<NeedsRecalc(op[t].prev, next), IF NeedsRecalc(op[t].prev, next) THEN 0
                                        ELSE OrderBetween(op[t].prev, next)>>
        <4> QED  BY <4>1
      <3>2. op'[t].pc = "write"
        BY <1>0, <2>1, <3>1 DEF TypeOK, Operation
      <3> QED  BY <1>0, <3>2
    <2>3. CASE ListFlights(t)
      <3>1. op'[t].pc = "tacticals"
        BY <1>0, <2>1, <2>3 DEF ListFlights, TypeOK, Operation
      <3> QED  BY <1>0, <3>1
    <2>4. CASE ListTacticals(t)
      <3>1. op'[t].pc = "renumber"
        BY <1>0, <2>1, <2>4 DEF ListTacticals, TypeOK, Operation
      <3> QED  BY <1>0, <3>1
    <2> QED  BY <1>5, <2>2, <2>3, <2>4
  <1>6. ~UNCHANGED vars
    BY <1>0 DEF vars
  <1>7. ASSUME NEW x \in Strips, NEW b \in Bays, AppendLock(t, x, b)  PROVE FALSE
    BY <1>0, <1>7 DEF AppendLock
  <1>8. ASSUME NEW x \in Strips, NEW after \in Strips \cup {None}, NEW b \in Bays, MoveResolve(t, x, after, b)
        PROVE  FALSE
    BY <1>0, <1>8 DEF MoveResolve
  <1>9. ASSUME NEW x \in Strips, DeleteStrip(t, x)  PROVE FALSE
    BY <1>0, <1>9 DEF DeleteStrip
  <1>10. ~MoveFails(t)
    BY DEF MoveFails
  <1> QED  BY <1>2, <1>3, <1>4, <1>5, <1>6, <1>7, <1>8, <1>9, <1>10 DEF Next

\* One thread runs every operation.
OneThread == \E t \in Threads : Threads = {t}

\* When one controller at a time works on the board and no statement of a move
\* fails, a move that finds room
\* leaves the strip directly below the predecessor it named: the midpoint
\* calculateOrderBetween returns is above the predecessor's number and below
\* every number above that one, of either table.
THEOREM SerialMidpointPlaces ==
    ASSUME OneThread, Failing = {}
    PROVE  Spec => MidpointPlaces
  <1>1. OrderedInv /\ [Next]_vars => OrderedInv'
    BY StepOrdered DEF OneThread
  <1>2. OrderedInv /\ [Next]_vars =>
           [\A t \in Threads :
               Ends(t) /\ op[t].pc = "write" /\ (\A y \in In(op[t].to) \ {op[t].x} : ~Unnumbered(y))
               => Placed(t)]_vars
    <2> PICK one \in Threads : Threads = {one}
      BY DEF OneThread
    <2> SUFFICES ASSUME OrderedInv, Next, Ends(one), op[one].pc = "write"
                 PROVE  Placed(one)
      OBVIOUS
    <2>1. ASSUME NEW x \in Strips  PROVE ~DeleteStrip(one, x) /\ ~RenumberTactical(one, x)
      BY DEF DeleteStrip, RenumberTactical
    <2>2. ASSUME NEW x \in Strips, NEW b \in Bays
          PROVE  ~AppendLock(one, x, b) /\ \A after \in Strips \cup {None} : ~MoveResolve(one, x, after, b)
      BY DEF MoveResolve, AppendLock
    <2>3. /\ ~MoveNext(one) /\ ~ListFlights(one) /\ ~ListTacticals(one) /\ ~RenumberFlights(one)
          /\ ~AppendCommit(one) /\ ~AppendRollback(one) /\ ~MoveFails(one)
      BY DEF MoveNext, MoveFails, ListFlights, ListTacticals, RenumberFlights, AppendCommit, AppendRollback
    <2>4. MoveWrite(one)
      BY <2>1, <2>2, <2>3 DEF Next
    <2> QED  BY <2>4, WritePlaces
  <1> QED  BY InitOrdered, <1>1, <1>2, PTL DEF Spec, MidpointPlaces

\* When one controller at a time works on the board and no statement of a move
\* fails, no operation changes the
\* order of the strips it was not asked to move, the renumbering of a bay by
\* recalculateAllStripSequences included.
THEOREM SerialOthersKeepOrder ==
    ASSUME OneThread, Failing = {}
    PROVE  Spec => OthersKeepOrder
  <1>1. OrderedInv /\ [Next]_vars => OrderedInv'
    BY StepOrdered DEF OneThread
  <1>2. OrderedInv /\ [Next]_vars =>
           [\A t \in Threads :
              Ends(t) => \A p \in op[t].before :
                            op[t].x \notin {p[1], p[2]} /\ None \notin {bay'[p[1]], bay'[p[2]]}
                            => p \in Above']_vars
    <2> PICK one \in Threads : Threads = {one}
      BY DEF OneThread
    <2>1. ASSUME OrderedInv, [Next]_vars, Ends(one),
                 NEW p \in op[one].before, op[one].x \notin {p[1], p[2]}
          PROVE  p \in Above'
      BY <2>1, EndKeeps
    <2> QED  BY <2>1
  <1> QED  BY InitOrdered, <1>1, <1>2, PTL DEF Spec, OthersKeepOrder
============================================================================
