# FlightStrips: verification project

FlightStrips is an electronic flight strip board for virtual air traffic
controllers. EuroScope plugins send what they see (aircraft, positions,
controllers) to a Go backend; the backend keeps one session per airport in
PostgreSQL and sends strips to browser frontends. This directory holds TLA+
models of the parts of the backend whose correctness depends on the order of
concurrent steps, the TLC configurations that check them, and TLAPS proofs of
their main invariants. Paths below are relative to `src/backend/internal/`
unless they begin with `src/`.

## 1. Inventory

| Component | State | Operations | Hard behaviour |
|---|---|---|---|
| position dispatcher (`shared/position_dispatcher.go`, `position_execution.go`) | queue, active keys, running and barrier counters, pause and close flags, execution slots | Submit, Flush, worker / batch scheduler, RunBarrier, Cancel, Close | many goroutines on one lock that is released while the scheduler collects; two concurrent closers |
| websocket pumps (`websocket/client.go`) | one reader and one writer goroutine per connection | dispatch by message type, read error, drain | a disconnect must not overtake queued positions |
| memberships and master election (`euroscope/membership.go`, `election.go`, `hub.go`) | registered clients, eligibility, master, epoch, synced sessions | join, ready, announce, position change, leave, replace | choices from snapshots installed later; a gate shared with message application |
| position fence (`euroscope/client.go`) | position epoch per client, coalesced reports | PositionFence, validPositionFence | authority that changes between receipt and use |
| deferred aircraft absence (`euroscope/hub_aircraft_disconnect.go`, `deferred_source.go`) | one timer entry and one tombstone per aircraft, worker goroutines | schedule, cancel and join, worker, invalidate, extend | cancel against fire, a join under a lock the worker needs, retries |
| controller offline timers (`euroscope/hub_offline_timers.go`, `services/controller.go`) | one timer per position, a row per controller | online, offline, sync, worker | one key for several controllers, rows of controllers that are gone |
| session update debounce (`euroscope/hub_offline_timers.go`) | a pending timer per session | schedule, run | reset of a timer that is firing |
| position batch (`repository/postgres/position_batch.go`) | stages of a rendezvous | join, Done, timer | waiting for members that never come, slots |
| squawk throttle (`euroscope/squawk_throttle.go`) | last request, queue, timer per session | Enqueue, flush | timer against direct dispatch |
| coverage coordinator (`euroscope/coverage_*.go`) | takeover deadlines | ReconcileCoverage | incomplete evidence |
| sync service (`euroscope/sync_service.go`) | none of its own | full reconciliation of a session | long operation against everything else |
| strip ordering (`services/strip_ordering.go`, `repository/postgres`) | sequence numbers of flight and tactical strips | move, renumber, append | read-compute-write without a transaction, exhausted gaps |
| coordination and ownership (`services/strip_coordination.go`, `strip_auto_assume.go`, `strip_arrival.go`) | owner and version of a strip, coordination rows | transfer, assume, force, reject, cancel, free, tag requests, tracking and landing events | several goroutines, no transaction; a delete that does not say whether it deleted |
| AMAN coordination requests (`coordinationrequest/`) | rows of requests | submit, accept, reject, transfer, expire, correlate | decisions on what was read before the transaction; retried commands; a revision that is computed, not stored |
| PDC (`pdc/`) | clearance state and flag of a strip, timeout map | request, issue, WILCO, UNABLE, voice, timeout, restore | read-modify-write of one row, late answers, timeouts against everything, restart |
| CDM export (`cdm/viff_push_retry.go`, `master_viff_sync.go`, parts of `action_service.go`, `sync_service.go`) | departure data, tracker of proposals and confirmations, export lock per flight, authority of deferred commands | propose, push with retry, READY, poll, direct export | a belief about a remote system kept by several goroutines |
| CDM sequence (`cdm/sequence.go`, `calculate.go`) | target times | recalculation | calendar arithmetic |
| stands and lifecycles (`services/stand_allocation.go`, ...) | stand assignments | allocate, release | large rule tables |
| sectors, routes, handover (`server/`) | owners per sector | recalculation | pure functions of the configuration |
| frontend hub (`frontend/`) | browser connections | snapshot, updates, commands | snapshot against concurrent updates |
| VATSIM cache (`vatsim/`) | last feed | poll, reconcile | external data |
| AMAN (`aman/`), ECFMP, METAR, EFB, GSX, SAT, ALB | their own | | separate systems or I/O |
| plugin (C++), React frontend, `gsx-client` | | | inputs and presentation |

How they interact. The reader goroutine of a plugin connection hands position
reports to the dispatcher and runs everything else itself. A handler runs under
the read lock of the session's election gate (`sessionElection.gate`); a change
of master takes the write lock, which makes the gate the point where messages,
deferred workers and elections meet. Deferred workers (aircraft absence,
controller offline) remember the master and the epoch they were started for.
Frontend handlers run on the goroutine of their own connection and meet the
EuroScope handlers only in the database.

What makes each modelled component correct:

- *dispatcher*: reports of one aircraft neither overlap nor overtake; a
  disconnect is ordered after them; memory is bounded; nothing accepted is lost
  and closing ends;
- *election*: a session with an electable client ends up with a connected
  master; only the master's facts of the current epoch are applied; "synced" and
  fences never outlive the election;
- *absence*: a sighting stops the removal for good; an uncontradicted absence
  leads to removal; nobody acts for a former master; no deadlock at the gate;
- *ordering*: distinct numbers, a move lands where the controller put it, nobody
  else is reordered, an append is last;
- *controllers offline*: a controller who is seen keeps the row, a timer that can
  still act can still be cancelled, the sectors follow the rows;
- *coordination*: an offer gives the strip away once, nobody takes it from an
  owner it has not seen;
- *coordination requests*: one pending request of a kind, a command takes effect
  once, what is resolved stays resolved;
- *PDC*: a confirmation belongs to its clearance, an outstanding clearance is
  timed, also after a restart, a withdrawn one is withdrawn on the strip too;
- *CDM export*: one goroutine exports a flight at a time and leaves neither lock nor
  reservation behind, the tracker's belief is the last export acknowledged under the
  lock, READY data waits for REA/1.

`PROJECT.json` lists all components with their status, and the hazards at their
lines.

## 2. Modules

| Module | Extends | Models |
|---|---|---|
| `PositionDispatcher` | | the dispatcher, the reader, coalescing timers, closers |
| `SessionElection` | | memberships, election, gated application, position fence |
| `MCSessionElection` | `SessionElection` | symmetry of the clients for TLC |
| `AircraftAbsence` | | timer entry, workers, handlers, gate, elections, extension |
| `StripOrdering` | | bays, numbers, moves, renumbering, appends |
| `ControllerOffline` | | rows of controllers, offline workers, change of master, recalculation debounce |
| `StripCoordination` | | owner, version and coordinations of one strip; every command as a program |
| `MCStripCoordination` | `StripCoordination` | symmetry of the positions |
| `CoordinationRequest` | | requests to controllers, their revision, decisions and facts |
| `MCCoordinationRequest` | `CoordinationRequest` | symmetry of kinds and commands |
| `PDCClearance` | | one aircraft's clearance exchange with timeouts, crash and restart |
| `ViffExport` | | the retried export of one flight with READY and the poll |
| `AircraftLanes` | | abstract: one FIFO lane per aircraft; `PositionDispatcher` implements it |
| `DeferredWorkProofs` | `AircraftAbsence`, `ControllerOffline`, TLAPS | the theorems about both: work the hub defers under a master's source |
| other `*Proofs` | the module, TLAPS | the theorems about it |

### PositionDispatcher

A job is a record of its aircraft key and a ticket that numbers accepted jobs.
The queue slice is the set of jobs not yet taken; slice order is ticket order,
because jobs are appended at the end and removed in place. `batch` tells which
constructor made the dispatcher. `Depth` is `depthLocked`, `Submit` the accepting path of `Submit`
(its wait is the guard), `WorkerTake` the scan of `worker`, `BatchWindow` and
`BatchTake` the two halves of `batchScheduler` around its collection window,
`Begin`, `Suspend`, `Resume` and `Finish` the life of a job goroutine with its
slot. `ReadDisconnect`, `BarrierPass` and `HandlerDone` are `RunBarrier` with
the handler inside. `ReadEnd`, `CloseCancel`, `CloseJoin` are the deferred
`Close` of `ReadPump`; `DrainClose`, `DrainCancel`, `DrainJoin` the one of
`DrainPositions`, which may run at the same time. A failing `Submit` runs the
job under a cancelled context and touches no dispatcher state. The global budget
channel shared by several connections is external: to one dispatcher it only
delays `Begin`.

`AircraftLanes` says what all of this is for: lanes that are first-in first-out,
independent of each other, and a disconnect that has the connection to itself.
`ImplementsLanes` maps the queue to the pending reports, everything in flight to
the applied ones, and the barrier to the disconnect; a batch is one abstract step
that starts several lanes.

### SessionElection

A client is one membership; a reconnect is another client. `Join`, `Ready` and
`Announce` are `JoinMembership` and the goroutine of `OnRegister`;
`RemoveMembership`, `Detach`, `ChooseReplacement` and `InstallReplacement` are
`RemoveMembership` and `OnUnregister`, cut where the code releases its locks.
`Preferred` is the set of results the walk of `preferredMasterClient` over the
client map may give, since Go's map order is arbitrary. An operation under the
gate's write lock is one action guarded by `GateFree`. `Deliver` is the plugin
learning the epoch from a stamped message; plugin and network are external.
`syncEpoch` and the epoch in a pending report are history variables.

### AircraftAbsence

One aircraft. `timer` is its entry in `aircraftDisconnectTimers`, `marker` the
tombstone in `aircraftDisconnects`. Every critical section under
`aircraftDisconnectMu` is one step; the steps of `runAircraftDisconnect` are the
worker's program counter. A waiting writer closes the gate to new readers, as
`sync.RWMutex` does, and the worker polls `TryRLock`. Handlers are the reader of
the master's connection (sightings and absences) and, in `Trackers`, the
goroutines that apply position reports (sightings only). Database operations may
fail. `due` is history: the last fact of this election is an absence. One
assumption about time is made: a grace period (at least 5 s) does not elapse
between two adjacent statements of `extendSessionTimers`.

### StripOrdering

`bay` and `seq` are the columns of both tables. Each statement of a move and of
a renumbering is a step; an append is a transaction that holds the session's row
lock from `AppendLock` to `AppendCommit` or `AppendRollback`. The unstable
`sort.Slice` is every order of equal numbers. The spacing of 1000 and the gap of
10 are constants. `Failing` names the statements of a move that may return an error
(`MoveFails`); what was written before stays, as after a failed de-icing
acknowledgement between the write and the renumbering. Such a strip keeps the
number 0 (`Unnumbered`), which two properties except. `Overlap = FALSE` is the schedule
in which a move runs by itself, while appends meet each other and deletions.

### ControllerOffline

`rows` is the controllers table, `seen` (history) where the master last reported
each controller. The reader handles one message at a time and is cut at every
statement and critical section: `Online` to `Recalculate`, `OfflineRead` and
`OfflineCovered`, `SyncUpsert` to `SyncDone`. A worker waits, looks itself up,
classifies the row and the other rows, deletes and announces. The debounce
(`pending`, `armed`, `fired`, `updating`) is apart from the workers, because
`Reset` may meet a timer function that already waits for the mutex. `ChangeMaster` is a
change of master with the extension of the timers after it. A timer's key is the
configured position name, and every unconfigured frequency shares the empty one.
`Failing` names the database calls of workers and of the debounce that may return an
error, `Outcomes` what the code does then: it gives the work up and tries it no more.

### StripCoordination

One strip. `Program` gives each command its statements in the code's order:
`check` and `read` carry a copy of owner and version, `find...` and `take` pick
any row a query without an order may return, `drop` deletes a row by its id whether
or not it is there, `own` is `SetStripOwner` with the version it read. The commands
are those of the frontend, the messages of a plugin (coordination received,
tracking changed), a landing, a go-around, and the automatic assumption. `rewrite` is
`UpdateStrip`, by which EuroScope's strip updates and full syncs and the route review
write the whole row: it raises the version without comparing it, and the owner it
writes is the one read earlier or none. `Edit` is any update of single columns that
raises the version and leaves the owner alone.

### CoordinationRequest

The transactions of the repository are one action each, the reads a service makes
before them are separate. `Revision` is `coordinationRevision`: a count over the
rows, and no column. Ownership facts may be delivered late, again, and out of
order; every command may be sent again with its own or another used ID.

### PDCClearance

Every call is a program over the strip row and the timeout map, as in
`StripCoordination`: the row is read and written in different statements. A timeout
is a goroutine with a context (`live`, and `by`, the caller whose context it
derives from). `Crash` ends all goroutines between any two steps and keeps the
row; `Restart` runs `restorePendingTimeouts`. Message numbers are the session's
sequence; a WILCO names any of them. The manual state change of the code changes
nothing and has no action. `sync` is a strip update or full sync of EuroScope and
`review` a route correction: both write the row as a whole, flag, bay and PDC data
included, without a version and without asking the PDC service; `shown` remembers
that EuroScope showed the flight cleared after a withdrawal. With `Outages` any
statement on the database may fail (`Fail`, `Answers`), also when a timeout is armed,
restored or expires. `Overlap = FALSE` is the schedule in which a call is
finished before the next begins, with crashes, removals of the session and
abandoned HTTP requests still anywhere.

### ViffExport

One flight. `data` is the row, `entry` the tracker's entry, `lock` the channel of
`lockFlightExport`, `sent` (history) the payload acknowledged last of those sent
under that lock. Workers are the goroutines of `pushViffAfterRecalcAsync`,
completers the two places that run `completeReadyViffSync`, callers those that
persist data and propose it, or export it directly (`Direct`: a TOBT that vIFF
requested, the verification of a pushback) without the lock and without telling the
tracker. A request may fail before or after its effect; a failing database
re-read of a worker counts as a failed request.

`t` and `u` in the row are the tokens of deferred authority: what a controller's
command leaves to be done later is bound to the plugin connection it came from.
`held` is the map of tokens, `open` those whose connection is still there.
`Disconnect` ends them for good, as a restart of the process does; a proposal is
then dropped, and a READY stays pending and is not sent by the poll. A proposal
that a controller's command loads while the row has no token is treated as
automatic.

What vIFF holds is not modelled: direct exports, TOBT messages that arrive out of
order and vIFF's own requests change it besides the exports, so that a poll may find
any difference or none (`differs`). `RemoveSession` and `ClearViffPushSession` are the
two halves of removing a session.

## 3. Runs

| Run | Bounds | Result |
|---|---|---|
| `dispatcher` | both constructors, 2 aircraft, 1 worker or slot, limit 2, groups of 2, 4 jobs, fair | implements the lanes (FIFO per aircraft, order of disconnects); accepted work is bounded; jobs finish, Close returns |
| `election` | 2 clients, 2 ranks, 1 position change, one departure at a time, syncs, tracked events, reports, fair | fences, synced flag, a connected master at rest, a master eventually |
| `absence_workers` | 2 handlers, 3 workers, 2 elections, 1 extension | join, source |
| `absence_serial` | 1 handler, 3 workers, 2 elections, no extension, fair | absence kept and acted upon, acts on the last fact, handlers return |
| `ordering` | 2 threads, 2 flights, 1 tactical strip, 2 bays, spacing 4, gap 1, moves one at a time and failing | distinct, placed, others keep order, appends last |
| `offline` | 2 controllers, 2 positions, 3 messages, 2 workers, 1 election, 2 windows, workers' database calls fail, fair | rows kept, live workers registered, windows run, sectors follow |
| `coordination` | 2 positions, 1 plugin, 2 commands at once, 3 versions, 2 coordinations | an offer is spent once, handovers know the owner |
| `requests` | 1 flight, 2 kinds, 1 controller, 1 flow manager, 3 commands, 2 facts, 1 expiry, 1 clearance | one pending, commands once, revision, resolutions final |
| `pdc` | 1 desk, 1 browser, 2 clearances, 1 crash, fair | confirmations, timers, withdrawal, resolution |
| `viff` | 2 payloads, 2 workers, 1 caller, 1 change (recalculation or direct export), 1 READY, 1 failure, 2 tokens | one exporter, tracker's belief, reservation, READY order, removal |
| `election_two_leave`, `pdc_web` | smallest instance that shows it | violations, see section 6 |

Why the bounds are enough. Ordering of reports is a question about two jobs of
one aircraft and one of another in front of them; with a limit of 2 and 4 jobs
the queue fills, the batch takes more jobs than it has slots, jobs are
accepted during every window, and the bound of limit plus workers is reached.
Elections need a leaving master, a candidate and a
competitor. An absence needs an old worker that is still on its way out, a new
one, and a third started after the second was cancelled. With spacing 4 and gap
1 two moves exhaust a gap, so renumbering happens after three operations, and
three strips are enough for a stranger to be displaced. Two controllers and two
positions are enough for a controller to move to, leave and be covered on the
other's position. A coordination is fought over by two commands; the third version lets an edit
meet the race. Two kinds of request and three commands give a supersession, a
decision of the superseded one and a reused ID. A second clearance lets an
answer to the first arrive late. Two payloads and two workers let a newer proposal, a
READY or a direct export meet an older export that fails; two tokens are one
command's READY and export. The same models were also
checked, beyond the kept runs, with 3 clients including an observer (`SessionElection`,
safety), two controllers of a flight (`CoordinationRequest`), with fairness, 2 failures, 3 tokens
and no change (`ViffExport`: `ReservationReleased`, `ReadyReturns`) and with `Overlap = TRUE` (`ControllerOffline`:
`OfflineTypeOK`, `LiveWorkerRegistered`, `WindowAlive`). The inductive invariants of
section 5 were checked with TLC before they were proved.

Every module has a type invariant; the runs leave them out, like those
invariants that are proved for all constants and follow from the refinement
(`PerAircraftFIFO`, `DisconnectOrdered`) or carry it (`BooksBalance`,
`ClosedDrained`). Adding them to the configurations changes no result.

Checks of deadlock are switched off where the system really may stop: a
connection that has ended, memberships that are all used up, a removed session,
and models whose bounded inputs are exhausted.

## 4. Fairness

Fairness is assumed only of goroutines the code keeps runnable: worker,
scheduler, handler, closer, timer and election steps are weakly fair. Strong
fairness is used where a wait is served in order or time must pass: a job
waiting for a slot (Go channels serve waiters in
order), lifecycle goroutines waiting for the election gate (`sync.RWMutex`
admits no new reader while a writer waits, so the gate is also assumed to become
free again and again), waiters for a flight's export lock (a channel), the ten
minutes of a clearance timeout (`Elapse`, which the serial schedule disables while
a call runs), and the success of a database
operation that is retried for ever. `ViffExport` states fairness of groups of
steps, which the fairness of the single goroutines implies, and nothing of its poll.
`AbsenceActs` takes it that a timer fires at some time: a plugin that repeats an absence
moves the deadline (`hub_aircraft_disconnect.go:66-76`), so absences are assumed not
to be repeated for ever. A crashed server is
restarted. Plugins, pilots, users, connection failures and
elections are never assumed to happen. Jobs are assumed to honour cancellation,
which the dispatcher's own comment requires of them.

## 5. Proofs

Each theorem is of the form `Spec => []Inv` (or an action property) for every
value of the constants the `ASSUME` of its module allows: any number of clients,
strips, workers, messages and elections. Every safety property a run checks is
stated by a theorem. Where section 6 shows that the code breaks a property on
some schedule or input, the theorem has a hypothesis that excludes it, the same
the run's configuration makes. (`ordering` allows more than the theorems of
`StripOrdering`: appends that meet beside moves that do not, and failing moves.)

| Theorem | Hypothesis | Counterexample without it |
|---|---|---|
| `ElectionMasterConnected` | `MaxLeaving = 1`: departures follow each other | `election_two_leave` |
| `AbsenceIsKept`, `AbsenceActsOnFact` | one handler, no extension of timers | the `AircraftAbsence` rows |
| `OfflineOnlineKeepsRow` | `~Overlap`, every position configured | the `ControllerOffline` rows |
| `AppendsDistinct`, `AppendsAreLast` | threads only append | the `StripOrdering` row for `Overlap` |
| `SerialDistinct`, `SerialMidpointPlaces`, `SerialOthersKeepOrder` | one thread, `Failing = {}` | the same, and the rows for `Failing` |
| `PDCOutstandingTimed` | `~Overlap`, `~Outages` | the `PDCClearance` rows |
| `PDCWithdrawnNotCleared` | `~Overlap`, `~Leaves`, `~Outages` | the `PDCClearance` rows |
| `ViffReadyOrdered` | `"clx" \notin Kinds` | the `ViffExport` row for `"clx"` |

The other theorems have none; those of `PDCClearance` and `ControllerOffline`
hold for every interleaving of calls, messages, workers and restarts, also where
the run is restricted.

- `PositionDispatcherProofs`: the inductive invariant adds to the stated
  properties that tickets are distinct and at most `accepted`, that queue and
  flight are finite and disjoint, and, for the memory bound, the depth equation:
  what a group takes leaves the queue and enters the waiting count, so a take
  never increases the depth and only `Submit` does, below the limit. The
  disconnect theorem needs that a paused dispatcher takes nothing, which for the
  batch scheduler holds because nothing was queued when the pause began and a
  window that is open then finds its job's ticket above the barrier's.
  `DispatcherImplementsLanes` is the refinement: under the mapping of
  `ImplementsLanes` every step is a step of `AircraftLanes` or leaves its
  variables alone. A take maps to one lane start because the invariant keeps the
  jobs of an aircraft in ticket order and one in flight at most; a disconnect maps
  to the exclusive step because of `DisconnectOrdered`.
- `SessionElectionProofs`: the fence theorem needs that a pending report
  whose fence equals the client's position epoch was made in the current
  election if its sender is master now; every change of master advances the
  fences of both sides, so losing and regaining the role leaves a gap.
  `ElectionMasterConnected` needs `Covered`: the master is connected or its
  departure is under way, a replacement that was chosen is still connected when it
  is installed, and while there is no master every candidate has its own
  election ahead. The middle part is what a second departure breaks.
- `DeferredWorkProofs`, aircraft: acting workers hold the gate, the epoch does not move
  while anyone does, so the source checked at the entry stays current. The join
  theorem needs `ActingRegistered` (a worker past its look-up that is not
  registered any more is cancelled and its canceller waits), and that worker
  numbers only grow. With one handler, `Serial` says which worker stands for an
  absence at every point of the handler and of an election, that whoever was
  cancelled is being joined, and where a tombstone may be.
- `DeferredWorkProofs`, controllers: for every interleaving the invariant ties each
  timer to a worker of its own position, so that replacing, cancelling and
  forgetting it reach the only worker that can still act; the debounce window is
  followed through firing, reset and the wait for its mutex. On the orderly schedule
  `Orderly` adds what has been written so far of the message in work
  (`RowsFollow`), that a timer is for a controller who is not seen there unless
  the message in work is about to cancel it (`TimersForAbsent`), and that an
  acting worker excludes messages (`Exclusive`). A worker that finds the row where
  it expected it then knows that its controller is not seen at all.
- `StripOrderingProofs`: `AppendsDistinct` and `AppendsAreLast` hold for any
  number of appending threads, from the invariant that the number of an open
  transaction is above every number of its bay. `SerialDistinct` covers moves
  and renumbering of one thread: `MidpointBetween` (the midpoint of a gap larger
  than `MinGap` is strictly inside it) and `ProductsDiffer` (multiples of the
  spacing at distinct positions differ) carry it, and the invariant follows a
  renumbering through its half-written states. The two order theorems add that
  the number of a move lies between those of its neighbours and that a
  half-written renumbering only writes numbers which continue the order the
  board had when it began.
- `StripCoordinationProofs`: the invariant relates what every command carries to
  the database. The version it read is not newer than the strip's, and if it is
  still current so is the owner it read, since a whole-row update that changes the
  owner raises the version; a coordination it holds that has already
  given the strip away did so at a newer version; a command about to set the
  owner has deleted its row, so no later search finds it. `OfferSpentOnce` follows
  from the last two, `HandoverKnowsOwner` from the first. The order of the
  statements (search, delete, set the owner) enters through `ProgramFacts`, and
  with it that `AcceptCoordination` reads the strip before the coordination.

- `CoordinationRequestProofs`: every transaction rewrites rows in place
  (`Rewriting`), a submission also adds one. The invariant says that a pending row
  is undecided, that pending rows of a kind are one, and that submission and
  decision commands are pairwise distinct. `RequestRevisionAdvances` counts: the
  revision is a sum of cardinalities, and every transaction that changes the table
  moves the sum by one (`FiniteSetTheorems`).
- `PDCClearanceProofs`: programs enter through `Facts`, what is known of the step at
  a position of a program and of its neighbours. For any interleaving the
  invariant says that the copy an acknowledgement will save carries a number a
  pilot acknowledged; a removed session stays quiet because the map refuses it
  when a call arms. The serial part says where a call has saved a
  clearance and not timed it yet (`Untimed`), that the tracked worker is the only live
  one and has the row's number, and for withdrawals where the flag is still to be
  lowered (`Lowering`). EuroScope's whole-row writes keep the PDC data on this
  schedule, or clear it for a refiled flight, so they raise the flag of a withdrawn
  clearance only with `shown`.
- `ViffExportProofs`: the owner of the reservation is not idle, whoever sends holds
  the flight's lock and owns the entry unless the session is forgotten, and a
  completion past REA/1 holds the same lock. So the answer of a request finds the
  entry it was sent for, and a belief set by a completion is not overwritten by an
  older worker, which is `ConfirmedIsLast`. `OneExporter` adds the
  converse, that whoever holds the lock is exporting. `ReadyOrdered`
  follows because data persisted under a READY is proposed by nobody until the
  completion has taken the mark off it.

Only model-checked: the liveness properties (`AcceptedFinishes`, `CloseReturns`,
`MasterEventually`, `HandlersReturn`, `AbsenceActs`, `DatalinkResolved`, `SectorsCatchUp`,
`ReservationReleased`, `ReadyReturns`), because fairness and ENABLED are outside the
prover's reach, and the two expected violations.

## 6. What the checks found

The code keeps most of what it promises. Two runs expect a violation;
`PROJECT.json` quotes the lines.

- `election_two_leave`: a replacement chosen from a snapshot is installed although it has unregistered.
- `pdc_web`: a clearance issued from the web form has its timeout cancelled when
  the HTTP handler returns, and is never withdrawn.

The modules also show these, with the constants named; the runs above choose the
constants that leave them out:

| Module | Property | Constants | What happens |
|---|---|---|---|
| `AircraftAbsence` | `AbsenceKept` | 2 handlers | an absence that meets a cancelled, not yet joined worker is folded into it and lost |
| `AircraftAbsence` | `ActsOnAbsence` | `MaxExtends = 1` | an extension re-schedules an absence a sighting has cancelled |
| `StripOrdering` | `MovePlaces` | as `MCOrdering.cfg` | a move into an exhausted gap lands on top of the bay |
| `StripOrdering` | `OthersKeepOrder` | `Failing` with `"renumber"` | a renumbering that fails half way leaves the bay half renumbered |
| `StripOrdering` | `MidpointPlaces` | `Failing` with `"write"` | the move returns the error and nothing was moved (as with `"next"`) |
| `StripOrdering` | `DistinctSequences`, `MidpointPlaces`, `OthersKeepOrder`, `AppendsLast` | `Overlap = TRUE` | a move without the lock acts on a bay that an append or another move has changed since it was read |
| `ControllerOffline` | `OnlineKeepsRow` | `Configured = {p}` | unconfigured frequencies share one timer key |
| `ControllerOffline` | `OnlineKeepsRow` | `Overlap = TRUE` | a worker past its look-up deletes the row of a controller that has just come back |
| `ControllerOffline` | `CoverageIsReal` | `MaxMasters = 0` | a position stays covered by the row of a controller who is gone |
| `ControllerOffline` | `SectorsCatchUp` | `Failing` with `"recalculate"` | a failed recalculation is not repeated and the sectors stay behind |
| `PDCClearance` | `OutstandingTimed` | `Overlap = TRUE` | of two overlapping issues the timeout of the older one may be the one that stays |
| `PDCClearance` | `WithdrawnNotCleared` | `Overlap = TRUE` | a withdrawal and a clearance of the same strip cross between flag and state |
| `PDCClearance` | `WithdrawnNotCleared` | `Leaves = TRUE` | the timeout marks NO RESPONSE but cannot lower the flag once the issuing controller is gone |
| `PDCClearance` | `OutstandingTimed`, `WithdrawnNotCleared`, `DatalinkResolved` | `Outages = TRUE` | a failed statement ends a call between its writes, and a timeout that cannot read or write the row is not repeated |
| `StripCoordination` | `AcceptedByRecipient` | as `MCCoordination.cfg` | a tracking change accepts whatever coordination it finds for whoever tracks |
| `ViffExport` | `ReadyOrdered` | `Kinds` with `"clx"` | a TOBT edit exports READY data before REA/1 |

What the properties do not say:

- Whole-row updates compare no version. A strip update or full sync of EuroScope, or
  a route review, that overlaps a handover or a PDC write may undo it; `HandoverKnowsOwner`
  is about handovers, not about these writes, and the serial runs of `PDCClearance`
  keep them from overlapping a call.
- `WithdrawnNotCleared` excepts a flight that EuroScope shows cleared after the
  withdrawal: the plugin is then the authority for flag and bay, and nobody takes
  the withdrawal back or repeats it.
- `AbsenceKept` and `OnlineKeepsRow` are checked on schedules of one handler and of
  messages that do not overlap expiries; the rows above show what happens otherwise.
- `ReadyOrdered` is about the export workers. A TOBT edit that moves nobody, and the
  refresh of `master_viff_sync.go:454`, which takes the same path, export READY data
  early (the row for `"clx"`); TOBT requests of vIFF and the verification of a pushback
  export outside the workers.
- `ConfirmedIsLast` is about the tracker's belief and the exports under the lock, not about what
  vIFF holds.
- A READY whose controller's connection is gone stays pending: the poll must not
  adopt it (`cdm/command_authority_test.go:130`).
- A failed deletion of a controller's row or a failed recalculation is not tried
  again until something else happens to the session.

## 7. Plan

1. `PositionBatch` and its composition with the execution slots of the
   dispatcher; a result for every call. Squawk throttle.
2. Dispatcher and absence composed: an older queued position against a sync that
   omits the aircraft. An abstract absence specification (a strip with an
   optional deadline) implemented by `AircraftAbsence` with one thread.
3. Coverage coordinator; the strips, runways and squawks of a sync; assignment
   and release of stands; frontend snapshots against concurrent strip updates.
4. Theorems: the refinement of the abstract absence specification of item 2,
   and the invariants of the modules still to come.

The number of runs stays small: a new component gets one run for its invariants
and its liveness together, and a second one only for a disagreement with a
comment or a test.

## 8. Not modelled, and why

AMAN, apart from its coordination requests, is a system of its own. Sector, route and stand computations are functions
of large airport files that TLC cannot enumerate meaningfully. Web endpoints,
external feeds, metrics, telemetry, generated database code and the assembly
have no protocol state. The plugin and the browser are the environment of the
models.
