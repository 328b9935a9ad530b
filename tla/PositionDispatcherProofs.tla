---------------------- MODULE PositionDispatcherProofs ----------------------
(***************************************************************************)
(* Proofs about PositionDispatcher for every number of aircraft, workers,  *)
(* jobs and every limit, in both modes of the dispatcher.                  *)
(***************************************************************************)
EXTENDS PositionDispatcher, FiniteSetTheorems, TLAPS

\* Tickets identify jobs, and the two sets of jobs are finite and disjoint.
Tickets ==
    /\ IsFiniteSet(queue) /\ IsFiniteSet(inflight)
    /\ queue \cap inflight = {}
    /\ \A j \in queue \cup inflight : j.id <= accepted
    /\ \A i, j \in queue \cup inflight : i.id = j.id => i = j
    /\ ticket <= accepted

\* The pause belongs to the reader's handler, and a collection window is open
\* only in batch mode, outside a pause and with work to collect.
Phases ==
    /\ paused <=> reader = "handling"
    /\ collecting => batch /\ ~paused /\ queue # {}
    /\ reader \in {"closing", "joining", "unregistered"} \/ drain # "off" => closing
    /\ ~batch => running <= Workers

\* The inductive invariant.
IInv ==
    /\ TypeOK
    /\ BooksBalance
    /\ Tickets
    /\ PerAircraftFIFO
    /\ Phases
    /\ DisconnectOrdered
    /\ DepthBounded
    /\ ClosedDrained

-----------------------------------------------------------------------------
\* A set of ready jobs holds at most one job of an aircraft, each of them the
\* oldest queued one, and none of an aircraft that is in flight.
LEMMA ReadyDistinct ==
    ASSUME IInv, NEW i \in Ready
    PROVE  /\ i \in queue /\ i \notin inflight
           /\ \A j \in inflight : j.key # i.key
           /\ \A j \in queue : j.key = i.key => j = i \/ i.id < j.id
  BY DEF IInv, TypeOK, BooksBalance, Tickets, Ready, Job

\* Moving jobs from the queue to the workers keeps the accounts.
LEMMA TakeCounts ==
    ASSUME IInv, NEW js \in SUBSET Ready, Take(js)
    PROVE  /\ IsFiniteSet(js) /\ IsFiniteSet(queue') /\ IsFiniteSet(inflight')
           /\ Cardinality(js) \in Nat
           /\ Cardinality(inflight') = Cardinality(inflight) + Cardinality(js)
           /\ Cardinality(queue') = Cardinality(queue) - Cardinality(js)
  <1>1. js \subseteq queue /\ js \cap inflight = {}
    BY ReadyDistinct
  <1>2. IsFiniteSet(js) /\ IsFiniteSet(queue \ js)
    BY <1>1, FS_Subset DEF IInv, Tickets
  <1>3. IsFiniteSet(inflight) /\ IsFiniteSet(queue)
    BY DEF IInv, Tickets
  <1>4. /\ IsFiniteSet(inflight \cup js)
        /\ Cardinality(inflight \cup js) = Cardinality(inflight) + Cardinality(js)
    <2>1. inflight \cap js = {}
      BY <1>1
    <2>2. Cardinality(inflight \cap js) = 0
      BY <2>1, FS_EmptySet
    <2>3. /\ IsFiniteSet(inflight \cup js)
          /\ Cardinality(inflight \cup js)
               = Cardinality(inflight) + Cardinality(js) - Cardinality(inflight \cap js)
      BY <1>2, <1>3, FS_Union
    <2>4. Cardinality(inflight) \in Nat /\ Cardinality(js) \in Nat
      BY <1>2, <1>3, FS_CardinalityType
    <2> QED  BY <2>2, <2>3, <2>4
  <1>5. Cardinality(queue) = Cardinality(queue \ js) + Cardinality(js)
    <2>1. (queue \ js) \cup js = queue /\ (queue \ js) \cap js = {}
      BY <1>1
    <2>2. Cardinality((queue \ js) \cap js) = 0
      BY <2>1, FS_EmptySet
    <2>3. Cardinality((queue \ js) \cup js)
            = Cardinality(queue \ js) + Cardinality(js) - Cardinality((queue \ js) \cap js)
      BY <1>2, FS_Union
    <2>4. Cardinality(queue \ js) \in Nat /\ Cardinality(js) \in Nat
      BY <1>2, FS_CardinalityType
    <2>5. Cardinality((queue \ js) \cup js) = Cardinality(queue)
      BY <2>1, Zenon
    <2> DEFINE c == Cardinality((queue \ js) \cup js)
               d == Cardinality((queue \ js) \cap js)
    <2> HIDE DEF c, d
    <2>6. c = Cardinality(queue) /\ d = 0 /\ c = Cardinality(queue \ js) + Cardinality(js) - d
      BY <2>2, <2>3, <2>5 DEF c, d
    <2> QED  BY <2>4, <2>6
  <1>6. queue' = queue \ js /\ inflight' = inflight \cup js
    BY DEF Take
  <1> QED  BY <1>2, <1>3, <1>4, <1>5, <1>6, FS_CardinalityType

\* Accepting a job preserves the invariant.
LEMMA SubmitInv ==
    ASSUME IInv, DispatcherAssumption, NEW k \in Keys, Submit(k),
           UNCHANGED <<ctlVars, endVars, reader, ticket, drain>>
    PROVE  IInv'
  <1> DEFINE n == [id |-> accepted + 1, key |-> k]
  <1>1. /\ n \in Job /\ n.id = accepted + 1 /\ n.key = k
        /\ n \notin queue \cup inflight
        /\ queue' = queue \cup {n}
        /\ UNCHANGED <<batch, inflight, begun, held, suspended, active, running>>
        /\ accepted' = accepted + 1 /\ accepted \in Nat
    BY DEF Submit, IInv, TypeOK, Tickets, Job
  <1>2. /\ UNCHANGED <<barriers, paused, flushPending, collecting, closing, cancelled,
                       reader, ticket, drain>>
        /\ ~closing
    BY DEF Submit, ctlVars, endVars
  <1>3. IsFiniteSet(queue') /\ Cardinality(queue') = Cardinality(queue) + 1
    BY <1>1, FS_AddElement DEF IInv, Tickets
  <1> HIDE DEF n
  <1>4. TypeOK'
    BY <1>1, <1>2 DEF IInv, TypeOK
  <1>5. BooksBalance'
    BY <1>1, <1>2 DEF IInv, BooksBalance
  <1>6. Tickets'
    <2>1. queue' \cap inflight' = {} /\ IsFiniteSet(inflight')
      BY <1>1 DEF IInv, Tickets
    <2>2. \A j \in queue' \cup inflight' : j = n \/ (j \in queue \cup inflight /\ j.id <= accepted)
      BY <1>1 DEF IInv, Tickets
    <2>3. \A j \in queue \cup inflight : j.id \in Nat
      BY DEF IInv, TypeOK, Job
    <2>4. \A j \in queue' \cup inflight' : j.id <= accepted'
      BY <1>1, <2>2, <2>3
    <2>5. \A i, j \in queue' \cup inflight' : i.id = j.id => i = j
      BY <1>1, <2>2, <2>3 DEF IInv, Tickets
    <2>6. ticket' <= accepted'
      BY <1>1, <1>2 DEF IInv, Tickets, TypeOK
    <2> QED  BY <1>3, <2>1, <2>4, <2>5, <2>6 DEF Tickets
  <1>7. PerAircraftFIFO'
    <2>1. \A i \in inflight : i.id < n.id
      BY <1>1 DEF IInv, Tickets, TypeOK, Job
    <2> QED  BY <1>1, <2>1 DEF IInv, PerAircraftFIFO
  <1>8. Phases'
    BY <1>1, <1>2 DEF IInv, Phases
  <1>9. DisconnectOrdered'
    BY <1>1, <1>2 DEF IInv, DisconnectOrdered, Tickets, TypeOK
  <1>10. DepthBounded'
    <2>1. Cardinality(queue) \in Nat /\ Cardinality(inflight) \in Nat
      BY FS_CardinalityType DEF IInv, Tickets
    <2>2. Cardinality(inflight) = running
      BY DEF IInv, BooksBalance
    <2>3. Depth < Limit
      BY DEF Submit
    <2> QED  BY <1>1, <1>3, <2>1, <2>2, <2>3 DEF IInv, DepthBounded, Depth, Phases, DispatcherAssumption
  <1>11. ClosedDrained'
    BY <1>1, <1>2 DEF IInv, ClosedDrained, Phases
  <1> QED  BY <1>4, <1>5, <1>6, <1>7, <1>8, <1>9, <1>10, <1>11 DEF IInv

\* Taking ready jobs outside a pause preserves the invariant.
LEMMA TakeInv ==
    ASSUME IInv, DispatcherAssumption, NEW js \in SUBSET Ready, Take(js),
           ~paused, queue # {},
           ~batch => running + Cardinality(js) <= Workers,
           collecting' = FALSE, flushPending' \in BOOLEAN,
           UNCHANGED <<batch, accepted, barriers, paused, endVars, reader, ticket, drain>>
    PROVE  IInv'
  <1>1. /\ queue' = queue \ js /\ inflight' = inflight \cup js
        /\ active' = active \cup {j.key : j \in js}
        /\ running' = running + Cardinality(js)
        /\ UNCHANGED <<begun, held, suspended, batch, accepted, barriers, paused,
                       closing, cancelled, reader, ticket, drain>>
    BY DEF Take, endVars
  <1>2. /\ js \subseteq queue
        /\ queue' \subseteq queue
        /\ queue' \cup inflight' = queue \cup inflight
    BY <1>1, ReadyDistinct
  <1>3. /\ IsFiniteSet(queue') /\ IsFiniteSet(inflight')
        /\ Cardinality(js) \in Nat
        /\ Cardinality(inflight') = Cardinality(inflight) + Cardinality(js)
        /\ Cardinality(queue') = Cardinality(queue) - Cardinality(js)
    BY TakeCounts
  <1>4. TypeOK'
    <2>1. \A j \in js : j.key \in Keys
      BY <1>2 DEF IInv, TypeOK, Job
    <2>2. queue' \subseteq Job /\ inflight' \subseteq Job /\ active' \subseteq Keys /\ running' \in Nat
      BY <1>1, <1>2, <1>3, <2>1 DEF IInv, TypeOK
    <2> QED  BY <1>1, <2>2 DEF IInv, TypeOK
  <1>5. BooksBalance'
    <2>1. active' = {j.key : j \in inflight'}
      BY <1>1 DEF IInv, BooksBalance
    <2>2. running' = Cardinality(inflight')
      BY <1>1, <1>3 DEF IInv, BooksBalance
    <2> QED  BY <1>1, <2>1, <2>2 DEF IInv, BooksBalance
  <1>6. Tickets'
    <2>1. queue' \cap inflight' = {}
      BY <1>1 DEF IInv, Tickets
    <2> QED  BY <1>1, <1>2, <1>3, <2>1 DEF IInv, Tickets
  <1>7. PerAircraftFIFO'
    <2> SUFFICES ASSUME NEW i \in inflight', NEW j \in queue' \cup inflight', i.key = j.key
                 PROVE  i = j \/ i.id < j.id
      BY DEF PerAircraftFIFO
    <2>1. CASE i \in inflight /\ j \in (queue \cup inflight) \ js
      BY <2>1 DEF IInv, PerAircraftFIFO
    <2>2. CASE i \in inflight /\ j \in js
      BY <2>2, ReadyDistinct
    <2>3. CASE i \in js /\ j \in inflight
      BY <2>3, ReadyDistinct
    <2>4. CASE i \in js /\ j \in queue
      BY <2>4, ReadyDistinct
    <2> QED  BY <1>1, <1>2, <2>1, <2>2, <2>3, <2>4
  <1>8. Phases'
    BY <1>1 DEF IInv, Phases
  <1>9. DisconnectOrdered'
    BY <1>1 DEF DisconnectOrdered
  <1>10. DepthBounded'
    <2>1. Cardinality(queue) \in Nat /\ Cardinality(inflight) \in Nat
      BY FS_CardinalityType DEF IInv, Tickets
    <2> QED  BY <1>3, <2>1 DEF IInv, DepthBounded
  <1>11. ClosedDrained'
    BY <1>1 DEF IInv, ClosedDrained
  <1> QED  BY <1>4, <1>5, <1>6, <1>7, <1>8, <1>9, <1>10, <1>11 DEF IInv

\* A finished job leaves its aircraft idle and the accounts balanced.
LEMMA FinishInv ==
    ASSUME IInv, DispatcherAssumption, NEW j \in inflight, Finish(j)
    PROVE  IInv'
  <1>1. /\ inflight' = inflight \ {j} /\ begun' = begun \ {j} /\ held' = held \ {j}
        /\ active' = active \ {j.key} /\ running' = running - 1
        /\ j \notin suspended
        /\ UNCHANGED <<queue, suspended, batch, accepted, barriers, paused, flushPending,
                       collecting, closing, cancelled, reader, ticket, drain>>
    BY DEF Finish, ctlVars, endVars
  <1>2. IsFiniteSet(inflight') /\ Cardinality(inflight') = Cardinality(inflight) - 1
    BY <1>1, FS_RemoveElement DEF IInv, Tickets
  <1>3. Cardinality(inflight) \in Nat /\ Cardinality(inflight') \in Nat /\ Cardinality(queue) \in Nat
    BY <1>2, FS_CardinalityType DEF IInv, Tickets
  <1>4. running = Cardinality(inflight)
    BY DEF IInv, BooksBalance
  <1>5. \A i \in inflight : i.key = j.key => i = j
    BY DEF IInv, PerAircraftFIFO, TypeOK, Job
  <1>6. TypeOK'
    <2>1. running' \in Nat
      BY <1>1, <1>2, <1>3, <1>4
    <2> QED  BY <1>1, <2>1 DEF IInv, TypeOK
  <1>7. BooksBalance'
    <2>1. active' = {i.key : i \in inflight'}
      BY <1>1, <1>5 DEF IInv, BooksBalance
    <2>2. running' = Cardinality(inflight')
      BY <1>1, <1>2, <1>4
    <2> QED  BY <1>1, <2>1, <2>2 DEF IInv, BooksBalance
  <1>8. Tickets' /\ PerAircraftFIFO'
    BY <1>1, <1>2 DEF IInv, Tickets, PerAircraftFIFO
  <1>9. Phases'
    BY <1>1, <1>2, <1>3, <1>4 DEF IInv, Phases, DispatcherAssumption
  <1>10. DisconnectOrdered' /\ ClosedDrained'
    BY <1>1 DEF IInv, DisconnectOrdered, ClosedDrained
  <1>11. DepthBounded'
    BY <1>1, <1>2, <1>3 DEF IInv, DepthBounded, DispatcherAssumption
  <1> QED  BY <1>6, <1>7, <1>8, <1>9, <1>10, <1>11 DEF IInv

\* Entering, suspending and resuming a run function moves execution slots only.
LEMMA SlotInv ==
    ASSUME IInv, NEW j \in inflight, Begin(j) \/ Suspend(j) \/ Resume(j)
    PROVE  IInv'
  <1>1. /\ UNCHANGED <<queue, inflight, active, running, batch, accepted, barriers, paused, flushPending,
                       collecting, closing, cancelled, reader, ticket, drain>>
        /\ begun' \subseteq inflight /\ held' \subseteq begun' /\ suspended' \subseteq begun'
    BY DEF Begin, Suspend, Resume, ctlVars, endVars, IInv, TypeOK
  <1>2. TypeOK' /\ Tickets' /\ BooksBalance'
    BY <1>1 DEF IInv, TypeOK, Tickets, BooksBalance
  <1>3. PerAircraftFIFO' /\ Phases' /\ DisconnectOrdered' /\ DepthBounded' /\ ClosedDrained'
    BY <1>1 DEF IInv, PerAircraftFIFO, Phases, DisconnectOrdered, DepthBounded, ClosedDrained
  <1> QED  BY <1>2, <1>3 DEF IInv

\* The steps of the reader, of the closers and of the collection window leave
\* the jobs alone.
LEMMA ControlInv ==
    ASSUME IInv, DispatcherAssumption, UNCHANGED <<jobVars, batch, accepted>>,
           Flush \/ BatchWindow \/ ReadDisconnect \/ BarrierPass \/ HandlerDone
             \/ Cancel \/ ReadEnd \/ CloseCancel \/ CloseJoin
             \/ DrainClose \/ DrainCancel \/ DrainJoin
    PROVE  IInv'
  <1>1. UNCHANGED <<queue, inflight, begun, held, suspended, active, running, batch, accepted>>
    BY DEF jobVars
  <1> USE DEF ctlVars, endVars, IInv
  <1>2. TypeOK' /\ BooksBalance'
    <2> USE <1>1 DEF TypeOK, BooksBalance, ReaderState, DrainState
    <2>1. CASE Flush \/ BatchWindow \/ Cancel
      BY <2>1 DEF Flush, BatchWindow, Cancel
    <2>8. CASE CloseJoin \/ BarrierPass
      BY <2>8 DEF CloseJoin, BarrierPass
    <2>9. CASE DrainJoin
      BY <2>9 DEF DrainJoin
    <2>2. CASE ReadDisconnect
      BY <2>2 DEF ReadDisconnect
    <2>3. CASE ReadEnd
      <3>1. closing' \in BOOLEAN /\ cancelled' \in BOOLEAN
        BY <2>3, Zenon DEF ReadEnd
      <3>2. /\ reader = "read" /\ reader' = "closing" /\ barriers' = barriers + 1
            /\ UNCHANGED <<batch, paused, flushPending, collecting, ticket, drain>>
        BY <2>3 DEF ReadEnd
      <3> QED  BY <3>1, <3>2
    <2>4. CASE DrainClose
      BY <2>4 DEF DrainClose
    <2>5. CASE HandlerDone
      <3>1. paused' \in BOOLEAN
        BY <2>5, Zenon DEF HandlerDone
      <3>2. /\ reader = "handling" /\ reader' = "read" /\ barriers' = barriers - 1
            /\ UNCHANGED <<batch, flushPending, collecting, closing, cancelled, ticket, drain>>
        BY <2>5 DEF HandlerDone
      <3> QED  BY <3>1, <3>2
    <2>6. CASE CloseCancel
      BY <2>6 DEF CloseCancel
    <2>7. CASE DrainCancel
      BY <2>7 DEF DrainCancel
    <2> QED  BY <2>1, <2>2, <2>3, <2>4, <2>5, <2>6, <2>7, <2>8, <2>9
  <1>3. Tickets' /\ PerAircraftFIFO' /\ DepthBounded'
    <2>1. ticket' = ticket \/ ticket' = accepted
      BY DEF Flush, BatchWindow, ReadDisconnect, BarrierPass, HandlerDone, Cancel, ReadEnd,
             CloseCancel, CloseJoin, DrainClose, DrainCancel, DrainJoin
    <2> QED  BY <1>1, <2>1 DEF Tickets, PerAircraftFIFO, DepthBounded, TypeOK
  <1>4. Phases'
    <2> USE <1>1 DEF Phases, TypeOK, ReaderState, DrainState
    <2>1. CASE Flush \/ BatchWindow \/ Cancel \/ CloseJoin \/ DrainJoin
      BY <2>1 DEF Flush, BatchWindow, Cancel, CloseJoin, DrainJoin, Ready
    <2>2. CASE ReadDisconnect \/ ReadEnd
      BY <2>2 DEF ReadDisconnect, ReadEnd
    <2>3. CASE DrainClose
      BY <2>3 DEF DrainClose
    <2>4. CASE HandlerDone \/ CloseCancel \/ DrainCancel \/ BarrierPass
      BY <2>4 DEF HandlerDone, CloseCancel, DrainCancel, BarrierPass
    <2> QED  BY <2>1, <2>2, <2>3, <2>4
  <1>5. DisconnectOrdered'
    <2>1. CASE BarrierPass
      <3>1. queue = {} /\ running = 0
        BY <2>1 DEF BarrierPass
      <3>2. inflight = {}
        BY <3>1, FS_EmptySet DEF BooksBalance, Tickets
      <3> QED  BY <1>1, <3>1, <3>2 DEF DisconnectOrdered
    <2>2. CASE ReadDisconnect
      BY <1>1, <2>2 DEF ReadDisconnect, DisconnectOrdered, Phases
    <2>3. CASE UNCHANGED ticket /\ paused' \in {paused, FALSE}
      BY <1>1, <2>3 DEF DisconnectOrdered, TypeOK
    <2> QED  BY <2>1, <2>2, <2>3 DEF Flush, BatchWindow, HandlerDone, Cancel, ReadEnd,
             CloseCancel, CloseJoin, DrainClose, DrainCancel, DrainJoin
  <1>6. ClosedDrained'
    <2>1. CASE CloseJoin
      BY <1>1, <2>1 DEF CloseJoin, ClosedDrained, Phases
    <2>2. CASE DrainJoin
      BY <1>1, <2>2 DEF DrainJoin, ClosedDrained, Phases
    <2>3. CASE ~CloseJoin /\ ~DrainJoin
      BY <1>1, <2>3 DEF Flush, BatchWindow, ReadDisconnect, BarrierPass, HandlerDone, Cancel,
             ReadEnd, CloseCancel, DrainClose, DrainCancel, ClosedDrained
    <2> QED  BY <2>1, <2>2, <2>3
  <1> QED  BY <1>2, <1>3, <1>4, <1>5, <1>6

-----------------------------------------------------------------------------
\* An empty dispatcher (newPositionDispatcher) satisfies the invariant.
LEMMA InitInv == DispatcherAssumption /\ Init => IInv
  <1> SUFFICES ASSUME DispatcherAssumption, Init PROVE IInv
    OBVIOUS
  <1> USE DEF Init
  <1>1. TypeOK /\ Phases
    <2>1. /\ batch \in BOOLEAN /\ paused \in BOOLEAN /\ flushPending \in BOOLEAN /\ collecting \in BOOLEAN
          /\ closing \in BOOLEAN /\ cancelled \in BOOLEAN
          /\ ~paused /\ ~collecting
      BY Zenon
    <2>2. TypeOK
      BY <2>1 DEF TypeOK, ReaderState, DrainState
    <2>3. Phases
      BY <2>1 DEF Phases, DispatcherAssumption
    <2> QED  BY <2>2, <2>3
  <1>3. PerAircraftFIFO /\ DisconnectOrdered /\ ClosedDrained
    BY DEF PerAircraftFIFO, DisconnectOrdered, ClosedDrained
  <1>2. BooksBalance /\ Tickets /\ DepthBounded
    BY FS_EmptySet DEF BooksBalance, Tickets, DepthBounded, DispatcherAssumption
  <1> QED  BY <1>1, <1>2, <1>3 DEF IInv

\* Every step of the dispatcher preserves the invariant.
LEMMA NextInv == DispatcherAssumption /\ IInv /\ [Next]_vars => IInv'
  <1> SUFFICES ASSUME DispatcherAssumption, IInv, [Next]_vars PROVE IInv'
    OBVIOUS
  <1>1. ASSUME NEW k \in Keys, ReadPosition(k) \/ TimerSubmit(k)
        PROVE  IInv'
    BY <1>1, SubmitInv DEF ReadPosition, TimerSubmit
  <1>2. CASE WorkerTake
    <2>1. PICK j \in Ready : Take({j})
      BY <1>2 DEF WorkerTake
    <2>2. {j} \in SUBSET Ready /\ queue # {}
      BY DEF Ready
    <2>3. Cardinality({j}) = 1
      BY FS_Singleton
    <2>4. /\ ~batch /\ ~paused /\ running + Cardinality({j}) <= Workers
      BY <1>2, <2>3 DEF WorkerTake, IInv, TypeOK, DispatcherAssumption
    <2>5. collecting' = FALSE /\ flushPending' \in BOOLEAN
      BY <1>2, <2>4 DEF WorkerTake, IInv, Phases, TypeOK, ctlVars
    <2>6. UNCHANGED <<batch, accepted, barriers, paused, endVars, reader, ticket, drain>>
      BY <1>2 DEF WorkerTake, ctlVars
    <2> QED  BY <2>1, <2>2, <2>4, <2>5, <2>6, TakeInv
  <1>3. CASE BatchTake
    <2>1. PICK js \in SUBSET Ready : Take(js)
      BY <1>3 DEF BatchTake
    <2>2. batch /\ ~paused /\ queue # {}
      BY <1>3 DEF BatchTake, IInv, Phases
    <2>3. /\ collecting' = FALSE /\ flushPending' \in BOOLEAN
          /\ UNCHANGED <<batch, accepted, barriers, paused, endVars, reader, ticket, drain>>
      BY <1>3 DEF BatchTake
    <2> QED  BY <2>1, <2>2, <2>3, TakeInv
  <1>4. ASSUME NEW j \in inflight, Begin(j) \/ Suspend(j) \/ Resume(j)
        PROVE  IInv'
    BY <1>4, SlotInv
  <1>5. ASSUME NEW j \in inflight, Finish(j)
        PROVE  IInv'
    BY <1>5, FinishInv
  <1>6. CASE Flush \/ BatchWindow \/ ReadDisconnect \/ BarrierPass \/ HandlerDone
               \/ Cancel \/ ReadEnd \/ CloseCancel \/ CloseJoin
               \/ DrainClose \/ DrainCancel \/ DrainJoin
    <2>1. UNCHANGED <<jobVars, batch, accepted>>
      BY <1>6 DEF Flush, BatchWindow, ReadDisconnect, BarrierPass, HandlerDone, Cancel, ReadEnd,
             CloseCancel, CloseJoin, DrainClose, DrainCancel, DrainJoin
    <2> QED  BY <1>6, <2>1, ControlInv
  <1>7. CASE UNCHANGED vars
    BY <1>7 DEF vars, jobVars, ctlVars, endVars, IInv, TypeOK, BooksBalance, Tickets,
           PerAircraftFIFO, Phases, DisconnectOrdered, DepthBounded, ClosedDrained
  <1> QED  BY <1>1, <1>2, <1>3, <1>4, <1>5, <1>6, <1>7 DEF Next

\* The invariant holds in every reachable state of the dispatcher.
THEOREM DispatcherInvariant == Spec => []IInv
  BY DispatcherAssumption, InitInv, NextInv, PTL DEF Spec

\* Type correctness of the dispatcher (position_dispatcher.go).
THEOREM DispatcherTypeOK == Spec => []TypeOK
  BY DispatcherInvariant, PTL DEF IInv

\* The active map, the running counter and the barrier counter always agree
\* with the goroutines in flight.
THEOREM DispatcherBooks == Spec => []BooksBalance
  BY DispatcherInvariant, PTL DEF IInv

\* Reports of one aircraft never overlap and run in the order of acceptance,
\* with any number of workers, in the pool and in the batch scheduler.
THEOREM DispatcherFIFO == Spec => []PerAircraftFIFO
  BY DispatcherInvariant, PTL DEF IInv

\* RunBarrier's handler runs after all work accepted before the disconnect,
\* with nothing in flight.
THEOREM DispatcherDisconnect == Spec => []DisconnectOrdered
  BY DispatcherInvariant, PTL DEF IInv

\* Unfinished accepted work is bounded by limit plus workers.
THEOREM DispatcherBounded == Spec => []DepthBounded
  BY DispatcherInvariant, PTL DEF IInv

\* After a Close returned nothing accepted is left and nothing is accepted.
THEOREM DispatcherDrained == Spec => []ClosedDrained
  BY DispatcherInvariant, PTL DEF IInv

-----------------------------------------------------------------------------
\* What a lane sees of a step that neither accepts, takes nor finishes a job.
LEMMA ControlLanes ==
    ASSUME IInv, UNCHANGED <<jobVars, batch, accepted>>,
           Flush \/ BatchWindow \/ ReadDisconnect \/ BarrierPass \/ HandlerDone
             \/ Cancel \/ ReadEnd \/ CloseCancel \/ CloseJoin
             \/ DrainClose \/ DrainCancel \/ DrainJoin
    PROVE  Lanes!Disconnect \/ Lanes!Handle \/ Lanes!Handled \/ Lanes!Close \/ UNCHANGED Lanes!lanes
  <1>1. UNCHANGED <<queue, inflight, accepted>>
    BY DEF jobVars
  <1>2. closing \in BOOLEAN
    BY DEF IInv, TypeOK
  <1>3. CASE ReadDisconnect
    BY <1>1, <1>3 DEF ReadDisconnect, endVars, Lanes!Disconnect
  <1>4. CASE BarrierPass
    <2>1. inflight = {}
      BY <1>4, FS_EmptySet DEF BarrierPass, IInv, BooksBalance, Tickets
    <2> QED  BY <1>1, <1>4, <2>1 DEF BarrierPass, endVars, Lanes!Handle
  <1>5. CASE HandlerDone
    BY <1>1, <1>5 DEF HandlerDone, endVars, Lanes!Handled
  <1>6. CASE Cancel \/ DrainClose
    BY <1>1, <1>2, <1>6 DEF Cancel, DrainClose, Lanes!Close, Lanes!lanes
  <1>7. CASE ReadEnd
    BY <1>1, <1>2, <1>7 DEF ReadEnd, Lanes!Close, Lanes!lanes
  <1>8. CASE CloseCancel \/ CloseJoin
    BY <1>1, <1>8 DEF CloseCancel, CloseJoin, endVars, Lanes!lanes
  <1>9. CASE Flush \/ BatchWindow \/ DrainCancel \/ DrainJoin
    BY <1>1, <1>9 DEF Flush, BatchWindow, DrainCancel, DrainJoin, endVars, Lanes!lanes
  <1> QED  BY <1>3, <1>4, <1>5, <1>6, <1>7, <1>8, <1>9

\* A scan starts the eldest report of each aircraft it takes.
LEMMA TakeLanes ==
    ASSUME IInv, NEW js \in SUBSET Ready, Take(js), ~paused,
           UNCHANGED <<accepted, closing, reader>>
    PROVE  \E ks \in SUBSET queue : Lanes!Apply(ks)
  <1>1. js \in SUBSET queue
    BY DEF Ready
  <1>2. \A j \in js : \A i \in Lanes!Lane(j.key) : i = j \/ j.id < i.id
    BY ReadyDistinct DEF Lanes!Lane
  <1>3. reader # "handling"
    BY DEF IInv, Phases
  <1>4. Lanes!Apply(js)
    BY <1>2, <1>3 DEF Lanes!Apply, Take
  <1> QED  BY <1>1, <1>4

\* Every step of the dispatcher is a step of the lanes or invisible to them.
LEMMA StepLanes == IInv /\ [Next]_vars => [Lanes!Next]_(Lanes!lanes)
  <1> SUFFICES ASSUME IInv, [Next]_vars
               PROVE  Lanes!Next \/ UNCHANGED Lanes!lanes
    OBVIOUS
  <1>1. ASSUME NEW k \in Keys, ReadPosition(k) \/ TimerSubmit(k)
        PROVE  Lanes!Next
    <2>1. Lanes!Accept(k)
      BY <1>1 DEF ReadPosition, TimerSubmit, Submit, endVars, Lanes!Accept
    <2> QED  BY <2>1 DEF Lanes!Next
  <1>2. CASE WorkerTake
    <2>1. PICK j \in Ready : Take({j})
      BY <1>2 DEF WorkerTake
    <2>2. ~paused /\ UNCHANGED <<accepted, closing, reader>>
      BY <1>2 DEF WorkerTake, endVars
    <2>3. \E ks \in SUBSET queue : Lanes!Apply(ks)
      BY <2>1, <2>2, TakeLanes
    <2> QED  BY <2>3 DEF Lanes!Next
  <1>3. CASE BatchTake
    <2>1. PICK js \in SUBSET Ready : Take(js)
      BY <1>3 DEF BatchTake
    <2>2. ~paused /\ UNCHANGED <<accepted, closing, reader>>
      BY <1>3 DEF BatchTake, endVars, IInv, Phases
    <2>3. \E ks \in SUBSET queue : Lanes!Apply(ks)
      BY <2>1, <2>2, TakeLanes
    <2> QED  BY <2>3 DEF Lanes!Next
  <1>4. ASSUME NEW j \in inflight, Begin(j) \/ Suspend(j) \/ Resume(j)
        PROVE  UNCHANGED Lanes!lanes
    BY <1>4 DEF Begin, Suspend, Resume, endVars, Lanes!lanes
  <1>5. ASSUME NEW j \in inflight, Finish(j)
        PROVE  Lanes!Next
    <2>1. Lanes!Finish(j)
      BY <1>5 DEF Finish, endVars, Lanes!Finish
    <2> QED  BY <2>1 DEF Lanes!Next
  <1>6. CASE Flush \/ BatchWindow \/ ReadDisconnect \/ BarrierPass \/ HandlerDone
               \/ Cancel \/ ReadEnd \/ CloseCancel \/ CloseJoin
               \/ DrainClose \/ DrainCancel \/ DrainJoin
    <2>1. UNCHANGED <<jobVars, batch, accepted>>
      BY <1>6 DEF Flush, BatchWindow, ReadDisconnect, BarrierPass, HandlerDone, Cancel, ReadEnd,
             CloseCancel, CloseJoin, DrainClose, DrainCancel, DrainJoin
    <2> QED  BY <1>6, <2>1, ControlLanes DEF Lanes!Next
  <1>7. CASE UNCHANGED vars
    BY <1>7 DEF vars, jobVars, endVars, Lanes!lanes
  <1> QED  BY <1>1, <1>2, <1>3, <1>4, <1>5, <1>6, <1>7 DEF Next

\* The dispatcher implements one FIFO lane per aircraft with an exclusive
\* disconnect ("Work for one key is FIFO; work for different keys may run
\* concurrently"), for any number of aircraft, workers, slots and any limit.
THEOREM DispatcherImplementsLanes == Spec => ImplementsLanes
  <1>1. Init => Lanes!Init
    BY DEF Init, Lanes!Init
  <1>2. IInv /\ [Next]_vars => [Lanes!Next]_(Lanes!lanes)
    BY StepLanes
  <1> QED  BY <1>1, <1>2, DispatcherInvariant, PTL DEF Spec, ImplementsLanes, Lanes!Spec

=============================================================================
