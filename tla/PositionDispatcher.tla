------------------------- MODULE PositionDispatcher -------------------------
(***************************************************************************)
(* The per-connection dispatcher of surveillance position reports          *)
(* (backend/internal/shared/position_dispatcher.go), together with the     *)
(* parties that drive it: the socket reader of websocket/client.go, the    *)
(* coalescing timers of euroscope/client.go, the code that closes the      *)
(* connection and the shutdown drain of euroscope/hub.go.                  *)
(*                                                                         *)
(* A job is a closure to run for one aircraft; it is represented by its    *)
(* aircraft key and a ticket that numbers accepted jobs.  The queue slice  *)
(* is the set of accepted jobs not yet taken: append puts a job at the     *)
(* end and removals keep the order, so slice order is ticket order.        *)
(*                                                                         *)
(* batch tells which constructor made the dispatcher, and never changes:   *)
(* FALSE is NewPositionDispatcher (a pool of workers), TRUE is             *)
(* NewBatchPositionDispatcher (one scheduler that takes a group of         *)
(* distinct aircraft and yields execution slots).                          *)
(***************************************************************************)
EXTENDS Naturals, FiniteSets

CONSTANTS
    Keys,      \* aircraft of the connection
    Workers,   \* worker goroutines (pool) or execution slots (batch)
    Limit,     \* bound on accepted work that no worker executes yet
    MaxBatch,  \* maxPositionBatchSize
    MaxJobs    \* bound of the model: jobs accepted during a connection

ASSUME DispatcherAssumption ==
    /\ Workers \in Nat \ {0}
    /\ Limit \in Nat \ {0}
    /\ MaxBatch \in Nat \ {0}
    /\ MaxJobs \in Nat

VARIABLES
    batch,        \* d.batchWorkers > 0: which constructor made it
    queue,        \* accepted jobs not taken yet
    inflight,     \* jobs taken by a worker or by the scheduler
    begun,        \* jobs in flight whose run function was entered
    held,         \* jobs in flight that hold an execution slot
    suspended,    \* jobs in flight that gave the slot up while they wait
    active,       \* d.active: keys with a job in flight
    running,      \* d.running
    accepted,     \* jobs accepted so far; the ticket of the last one
    barriers,     \* d.barriers
    paused,       \* d.paused
    flushPending, \* d.flushPending
    collecting,   \* the batch scheduler is inside its collection window
    closing,      \* d.closing
    cancelled,    \* d.ctx is cancelled
    reader,       \* where the socket reader goroutine is
    ticket,       \* accepted when the reader entered RunBarrier
    drain         \* where the shutdown drain of this connection is

jobVars == <<queue, inflight, begun, held, suspended, active, running>>
ctlVars == <<barriers, paused, flushPending, collecting>>
endVars == <<closing, cancelled>>
vars == <<batch, jobVars, accepted, ctlVars, endVars, reader, ticket, drain>>

Job == [id : Nat, key : Keys]
ReaderState == {"read", "barrier", "handling", "closing", "joining", "unregistered"}
DrainState == {"off", "closing", "joining", "drained"}

Init ==
    /\ batch \in BOOLEAN
    /\ queue = {} /\ inflight = {} /\ begun = {} /\ held = {} /\ suspended = {}
    /\ active = {} /\ running = 0 /\ accepted = 0
    /\ barriers = 0 /\ paused = FALSE /\ flushPending = FALSE /\ collecting = FALSE
    /\ closing = FALSE /\ cancelled = FALSE
    /\ reader = "read" /\ ticket = 0 /\ drain = "off"

-----------------------------------------------------------------------------
(* Accepting work *)

\* Mutation: the jobs a batch holds beyond its slots are not counted.
DepthQueueOnly == Cardinality(queue)

\* depthLocked: queued jobs, and in batch mode the jobs in flight that no
\* execution slot serves.
Depth == Cardinality(queue) + (IF batch /\ running > Workers THEN running - Workers ELSE 0)

\* Submit blocks at the limit (the guard) and fails once the dispatcher closes.
Submit(k) ==
    /\ accepted < MaxJobs
    /\ ~closing
    /\ Depth < Limit
    /\ accepted' = accepted + 1
    /\ queue' = queue \cup {[id |-> accepted + 1, key |-> k]}
    /\ UNCHANGED <<batch, inflight, begun, held, suspended, active, running>>

\* The reader submits a position report.  When Submit fails, the reader runs
\* the job itself under a cancelled context: no dispatcher state changes.
ReadPosition(k) ==
    /\ reader = "read"
    /\ Submit(k)
    /\ UNCHANGED <<ctlVars, endVars, reader, ticket, drain>>

\* flushPositionOnlyUpdate: a coalescing timer submits from its own goroutine.
TimerSubmit(k) ==
    /\ Submit(k)
    /\ UNCHANGED <<ctlVars, endVars, reader, ticket, drain>>

\* Flush, called before every operational message is handled by the reader.
Flush ==
    /\ reader = "read"
    /\ batch /\ queue # {}
    /\ flushPending' = TRUE
    /\ UNCHANGED <<jobVars, batch, accepted, barriers, paused, collecting, endVars, reader, ticket, drain>>

-----------------------------------------------------------------------------
(* Taking work *)

\* Mutation: a scan may stop at any job of an idle aircraft.
ReadyAnyOrder == {j \in queue : j.key \notin active}

\* The jobs at which a scan of the slice can stop: their aircraft has nothing
\* in flight and no earlier job of the same aircraft is queued.
Ready == {j \in queue : /\ j.key \notin active
                        /\ \A i \in queue : i.key = j.key => j.id <= i.id}

Take(js) ==
    /\ queue' = queue \ js
    /\ inflight' = inflight \cup js
    /\ active' = active \cup {j.key : j \in js}
    /\ running' = running + Cardinality(js)
    /\ UNCHANGED <<begun, held, suspended>>

\* worker: the first job of the slice whose aircraft is idle.
WorkerTake ==
    /\ ~batch /\ ~paused /\ running < Workers
    /\ \E j \in Ready : /\ \A i \in Ready : j.id <= i.id
                        /\ Take({j})
    /\ UNCHANGED <<batch, accepted, ctlVars, endVars, reader, ticket, drain>>

\* batchScheduler, ready(): the window opens, and the lock is released in it.
BatchWindow ==
    /\ batch /\ ~collecting
    /\ ~paused /\ running < MaxBatch /\ Ready # {}
    /\ collecting' = TRUE
    /\ UNCHANGED <<jobVars, batch, accepted, barriers, paused, flushPending, endVars, reader, ticket, drain>>

\* batchScheduler after the window (its end is untimed): one scan of the slice
\* takes distinct idle aircraft up to the room left.  ready() is not evaluated
\* again.
BatchTake ==
    /\ collecting
    /\ \E js \in SUBSET Ready :
          /\ Cardinality(js) <= MaxBatch - running
          /\ \A i \in Ready \ js : /\ Cardinality(js) = MaxBatch - running
                                   /\ \A j \in js : j.id < i.id
          /\ Take(js)
    /\ collecting' = FALSE
    /\ flushPending' = FALSE
    /\ UNCHANGED <<batch, accepted, barriers, paused, endVars, reader, ticket, drain>>

-----------------------------------------------------------------------------
(* Running work *)

SlotFree == Cardinality(held) < Workers

\* acquire: a slot, or none when the dispatcher is cancelled while waiting;
\* the run function is entered in both cases.
Begin(j) ==
    /\ j \in inflight \ begun
    /\ begun' = begun \cup {j}
    /\ \/ SlotFree /\ held' = held \cup {j}
       \/ cancelled /\ held' = held
    /\ UNCHANGED <<queue, inflight, suspended, active, running, batch, accepted,
                   ctlVars, endVars, reader, ticket, drain>>

\* SuspendPositionExecution: only batch jobs carry a lease in their context.
Suspend(j) ==
    /\ batch /\ j \in held
    /\ held' = held \ {j}
    /\ suspended' = suspended \cup {j}
    /\ UNCHANGED <<queue, inflight, begun, active, running, batch, accepted,
                   ctlVars, endVars, reader, ticket, drain>>

Resume(j) ==
    /\ j \in suspended
    /\ suspended' = suspended \ {j}
    /\ \/ SlotFree /\ held' = held \cup {j}
       \/ cancelled /\ held' = held
    /\ UNCHANGED <<queue, inflight, begun, active, running, batch, accepted,
                   ctlVars, endVars, reader, ticket, drain>>

\* Mutation: the key stays active.
FinishKeepsKey(j) ==
    /\ j \in begun \ suspended
    /\ inflight' = inflight \ {j} /\ begun' = begun \ {j} /\ held' = held \ {j}
    /\ running' = running - 1
    /\ UNCHANGED <<queue, active, suspended, batch, accepted, ctlVars, endVars, reader, ticket, drain>>

\* The run function returned: the lease is released and the key is idle again.
Finish(j) ==
    /\ j \in begun \ suspended
    /\ inflight' = inflight \ {j}
    /\ begun' = begun \ {j}
    /\ held' = held \ {j}
    /\ active' = active \ {j.key}
    /\ running' = running - 1
    /\ UNCHANGED <<queue, suspended, batch, accepted, ctlVars, endVars, reader, ticket, drain>>

-----------------------------------------------------------------------------
(* The reader's barrier around an aircraft disconnect *)

\* RunBarrier: registers the barrier and starts to wait.
ReadDisconnect ==
    /\ reader = "read"
    /\ reader' = "barrier"
    /\ barriers' = barriers + 1
    /\ ticket' = accepted
    /\ UNCHANGED <<jobVars, batch, accepted, paused, flushPending, collecting, endVars, drain>>

\* The dispatcher is idle: it is paused under the same lock and the
\* disconnect handler starts.
BarrierPass ==
    /\ reader = "barrier"
    /\ queue = {} /\ running = 0
    /\ paused' = TRUE
    /\ reader' = "handling"
    /\ UNCHANGED <<jobVars, batch, accepted, barriers, flushPending, collecting, endVars, ticket, drain>>

\* Mutation: the pause is not lifted after the handler.
HandlerStaysPaused ==
    /\ reader = "handling"
    /\ barriers' = barriers - 1
    /\ reader' = "read"
    /\ UNCHANGED <<jobVars, batch, accepted, paused, flushPending, collecting, endVars, ticket, drain>>

HandlerDone ==
    /\ reader = "handling"
    /\ paused' = FALSE
    /\ barriers' = barriers - 1
    /\ reader' = "read"
    /\ UNCHANGED <<jobVars, batch, accepted, flushPending, collecting, endVars, ticket, drain>>

-----------------------------------------------------------------------------
(* The end of the connection *)

\* Client.Close on another goroutine cancels the dispatcher without waiting.
Cancel ==
    /\ ~cancelled
    /\ closing' = TRUE /\ cancelled' = TRUE
    /\ UNCHANGED <<jobVars, batch, accepted, ctlVars, reader, ticket, drain>>

\* ReadPump leaves its loop.  A read error cancels first; a drain does not.
\* The deferred Close then registers a barrier.
ReadEnd ==
    /\ reader = "read"
    /\ reader' = "closing"
    /\ closing' = TRUE
    /\ cancelled' = TRUE \/ UNCHANGED cancelled
    /\ barriers' = barriers + 1
    /\ UNCHANGED <<jobVars, batch, accepted, paused, flushPending, collecting, ticket, drain>>

\* Close: the barrier passed or its deadline expired.
CloseCancel ==
    /\ reader = "closing"
    /\ cancelled' = TRUE
    /\ barriers' = barriers - 1
    /\ reader' = "joining"
    /\ UNCHANGED <<jobVars, batch, accepted, paused, flushPending, collecting, closing, ticket, drain>>

\* Close: workers.Wait returns when every worker left its loop, which a worker
\* does only when the dispatcher is closing and the queue is empty.
CloseJoin ==
    /\ reader = "joining"
    /\ queue = {} /\ inflight = {}
    /\ reader' = "unregistered"
    /\ UNCHANGED <<jobVars, batch, accepted, ctlVars, endVars, ticket, drain>>

\* DrainPositions: one Close per connection from its own goroutine, followed
\* by Client.Close, at any moment of the reader's life.
DrainClose ==
    /\ drain = "off"
    /\ drain' = "closing"
    /\ closing' = TRUE
    /\ barriers' = barriers + 1
    /\ UNCHANGED <<jobVars, batch, accepted, paused, flushPending, collecting, cancelled, reader, ticket>>

DrainCancel ==
    /\ drain = "closing"
    /\ drain' = "joining"
    /\ cancelled' = TRUE
    /\ barriers' = barriers - 1
    /\ UNCHANGED <<jobVars, batch, accepted, paused, flushPending, collecting, closing, reader, ticket>>

DrainJoin ==
    /\ drain = "joining"
    /\ queue = {} /\ inflight = {}
    /\ drain' = "drained"
    /\ UNCHANGED <<jobVars, batch, accepted, ctlVars, endVars, reader, ticket>>

-----------------------------------------------------------------------------
Next ==
    \/ \E k \in Keys : ReadPosition(k) \/ TimerSubmit(k)
    \/ Flush \/ WorkerTake \/ BatchWindow \/ BatchTake
    \/ \E j \in inflight : Begin(j) \/ Suspend(j) \/ Resume(j) \/ Finish(j)
    \/ ReadDisconnect \/ BarrierPass \/ HandlerDone
    \/ Cancel \/ ReadEnd \/ CloseCancel \/ CloseJoin
    \/ DrainClose \/ DrainCancel \/ DrainJoin

\* Goroutines that can run do run; jobs honour cancellation and return, and a
\* released slot reaches a waiting job (channels serve waiters in order).
Fairness ==
    /\ WF_vars(WorkerTake) /\ WF_vars(BatchWindow) /\ WF_vars(BatchTake)
    /\ WF_vars(BarrierPass) /\ WF_vars(HandlerDone)
    /\ WF_vars(CloseCancel) /\ WF_vars(CloseJoin)
    /\ WF_vars(DrainCancel) /\ WF_vars(DrainJoin)
    /\ \A k \in Keys :
          /\ SF_vars(\E j \in inflight : j.key = k /\ (Begin(j) \/ Resume(j)))
          /\ SF_vars(\E j \in inflight : j.key = k /\ Finish(j))

Spec == Init /\ [][Next]_vars
FairSpec == Spec /\ Fairness

-----------------------------------------------------------------------------
(* Properties *)

\* Every variable of the dispatcher keeps its type.
TypeOK ==
    /\ batch \in BOOLEAN
    /\ queue \subseteq Job /\ inflight \subseteq Job
    /\ begun \subseteq inflight /\ held \subseteq begun /\ suspended \subseteq begun
    /\ active \subseteq Keys
    /\ running \in Nat /\ accepted \in Nat /\ barriers \in Nat /\ ticket \in Nat
    /\ paused \in BOOLEAN /\ flushPending \in BOOLEAN /\ collecting \in BOOLEAN
    /\ closing \in BOOLEAN /\ cancelled \in BOOLEAN
    /\ reader \in ReaderState /\ drain \in DrainState

\* The dispatcher's own books (the active map, the running counter and the
\* barrier counter, which every scan, barrier and depth computation trusts)
\* agree with the goroutines that are really in flight or waiting.
BooksBalance ==
    /\ active = {j.key : j \in inflight}
    /\ running = Cardinality(inflight)
    /\ barriers = (IF reader \in {"barrier", "handling", "closing"} THEN 1 ELSE 0)
                     + (IF drain = "closing" THEN 1 ELSE 0)

\* FIFO per aircraft and no overlap: while a job is in flight, no other job of
\* its aircraft is in flight and none that was accepted earlier is still
\* queued, so position reports of one aircraft are applied in receipt order.
PerAircraftFIFO ==
    \A i \in inflight, j \in queue \cup inflight :
        i.key = j.key => i = j \/ i.id < j.id

\* The socket reader handles an aircraft disconnect only when every position
\* accepted before it is finished, and nothing is in flight while it does:
\* an older queued position cannot cancel the newer disconnect.
DisconnectOrdered ==
    paused => /\ inflight = {}
              /\ \A j \in queue : j.id > ticket

\* The memory a connection can pin is bounded: accepted jobs that are not
\* finished, queued or taken, never exceed the pending limit plus the workers,
\* although batch groups are taken without regard to execution slots.
DepthBounded == Cardinality(queue) + Cardinality(inflight) <= Limit + Workers

\* When a Close has returned, to the reader (which unregisters the connection
\* next) or to the shutdown drain, no accepted job is queued or in flight, and
\* none can be accepted any more.
ClosedDrained ==
    reader = "unregistered" \/ drain = "drained"
        => closing /\ queue = {} /\ inflight = {}

\* To the connection the dispatcher is a set of lanes, one per aircraft; the
\* reader's barrier is the disconnect that has them all to itself.
Lanes == INSTANCE AircraftLanes WITH
    pending <- queue, applying <- inflight, closed <- closing,
    disconnect <- IF reader = "barrier" THEN "waiting"
                  ELSE IF reader = "handling" THEN "handled" ELSE "none"

\* The pool of workers and the batch scheduler, with their slots, windows,
\* pauses and cancellations, implement the lanes: every step of the dispatcher
\* is a step of a lane or invisible, and taking a whole batch is one step.
ImplementsLanes == Lanes!Spec

\* Every accepted job is finished, cancelled or not: none disappears.
AcceptedFinishes ==
    \A n \in 1..MaxJobs :
        (\E j \in queue \cup inflight : j.id = n) ~> ~(\E j \in queue \cup inflight : j.id = n)

\* Close always returns: a connection that ends is unregistered.
CloseReturns == (reader = "closing") ~> (reader = "unregistered")

=============================================================================
