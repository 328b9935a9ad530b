------------------------- MODULE ControllerOffline -------------------------
(***************************************************************************)
(* Controllers of one session going offline and coming back                *)
(* (backend/internal/euroscope/hub_offline_timers.go, deferred_source.go,  *)
(* the controller parts of handlers.go and sync_service.go, and            *)
(* backend/internal/services/controller.go).                               *)
(*                                                                         *)
(* The master's reader handles one message at a time.  When a controller   *)
(* leaves the last coverage of its position, a worker deletes its row      *)
(* after a grace period unless the position's timer is cancelled first,    *)
(* and asks the session's debouncer for one recalculation of the sectors.  *)
(* Readers and workers share the session's gate, so they run concurrently; *)
(* a change of master excludes both.  Each database statement and each     *)
(* critical section is one step.                                           *)
(*                                                                         *)
(* Overlap says whether a message and an expired worker, or two workers,   *)
(* may run between each other's steps, as in the program; FALSE is the     *)
(* schedule in which each of them finishes first.  Failing names the       *)
(* database calls of workers and of the debouncer that may return an       *)
(* error.                                                                  *)
(***************************************************************************)
EXTENDS Naturals, FiniteSets

CONSTANTS
    Controllers,   \* callsigns of operational controllers
    Positions,     \* frequencies
    Configured,    \* the ones the airport's configuration names
    None,          \* no row, not online, no key
    Overlap,       \* messages and workers interleave
    Failing,       \* database calls that may fail
    MaxMessages,   \* bound of the model: messages of masters
    MaxTimers,     \* bound of the model: offline workers started
    MaxMasters,    \* bound of the model: changes of master
    MaxBatches     \* bound of the model: debounce windows opened

ASSUME OfflineAssumption ==
    /\ Configured \subseteq Positions /\ None \notin Positions \cup Controllers
    /\ Overlap \in BOOLEAN /\ Failing \subseteq {"classify", "others", "delete", "recalculate"}
    /\ MaxMessages \in Nat /\ MaxTimers \in Nat /\ MaxMasters \in Nat /\ MaxBatches \in Nat

VARIABLES
    rows,        \* the controllers table: callsign to position
    seen,        \* history: where the master last reported each controller
    reader,      \* the message in work and its local variables
    messages,    \* messages so far
    masterAlive, \* the master's connection is open
    masterEpoch, \* the election the master belongs to
    timers,      \* offlineTimers: position name to worker, 0 if none
    worker,      \* the workers scheduleOfflineActions started
    scheduled,   \* how many
    extending,   \* where extendSessionTimers is
    collected,   \* the entries it has collected and not yet scheduled anew
    pending,     \* sessionUpdateTimers: the open debounce window, 0 if none
    opened,      \* windows opened so far
    armed,       \* windows whose timer is running
    fired,       \* windows whose function waits for sessionUpdateMu
    updating,    \* runs of runSessionUpdate before their recalculation
    sectors      \* the positions that own sectors since the last recalculation

hubVars == <<timers, worker, scheduled>>
bounceVars == <<pending, opened, armed, fired, updating>>
masterVars == <<masterAlive, masterEpoch, extending, collected>>
offlineVars == <<rows, seen, reader, messages, masterVars, hubVars, bounceVars, sectors>>

Where == Positions \cup {None}
OfflineWorkers == 1..MaxTimers
Batches == 1..MaxBatches
\* The timer key names the configured position, or nothing.
Key(p) == IF p \in Configured THEN p ELSE None
Keys == Configured \cup {None}

NoWorker == [pc |-> "none", who |-> None, pos |-> None, src |-> 0, live |-> FALSE]
WorkerPc == {"none", "wait", "look", "classify", "others", "drop", "dropSilently", "announce", "done"}

IdleReader == [pc |-> "idle", who |-> None, pos |-> None, row |-> None,
               todo |-> {}, listed |-> [c \in Controllers |-> None],
               cache |-> [c \in Controllers |-> None], changed |-> FALSE]
ReaderPc == {"idle", "cancel", "read", "write", "recalculate", "offline", "covered",
             "upsert", "syncSectors", "stale"}

\* The configured positions some row covers.
Covered == {p \in Configured : \E c \in Controllers : rows[c] = p}
CoveredByOther(c, p) == \E d \in Controllers \ {c} : rows[d] = p

OfflineInit ==
    /\ rows = [c \in Controllers |-> None] /\ seen = rows
    /\ reader = IdleReader /\ messages = 0
    /\ masterAlive = TRUE /\ masterEpoch = 0 /\ extending = "idle" /\ collected = {}
    /\ timers = [k \in Keys |-> 0]
    /\ worker = [w \in OfflineWorkers |-> NoWorker] /\ scheduled = 0
    /\ pending = 0 /\ opened = 0 /\ armed = {} /\ fired = {} /\ updating = {}
    /\ sectors = {}

-----------------------------------------------------------------------------
(* Offline timers *)

\* Workers past the look-up, which may change a row.
ActingWorkers ==
    {w \in OfflineWorkers : worker[w].pc \in {"classify", "others", "drop", "dropSilently", "announce"}}
Extending == extending = "collected"
ReaderMayStep == Overlap \/ (ActingWorkers = {} /\ ~Extending)
WorkerMayAct == Overlap \/ (reader.pc = "idle" /\ ActingWorkers = {} /\ ~Extending)

Cancelled(ws, w) == [ws EXCEPT ![w].live = FALSE]

\* Mutation: an earlier worker of the key is replaced without being cancelled.
ScheduleBeside(c, p) ==
    /\ scheduled < MaxTimers
    /\ scheduled' = scheduled + 1
    /\ worker' = [worker EXCEPT ![scheduled'] =
                     [pc |-> "wait", who |-> c, pos |-> p, src |-> masterEpoch, live |-> TRUE]]
    /\ timers' = [timers EXCEPT ![Key(p)] = scheduled']

\* scheduleOfflineActions: an earlier worker of the key is cancelled and replaced.
ScheduleOffline(c, p) ==
    /\ scheduled < MaxTimers
    /\ scheduled' = scheduled + 1
    /\ LET old == timers[Key(p)]
           ws == IF old = 0 THEN worker ELSE Cancelled(worker, old) IN
          worker' = [ws EXCEPT ![scheduled'] =
                        [pc |-> "wait", who |-> c, pos |-> p, src |-> masterEpoch, live |-> TRUE]]
    /\ timers' = [timers EXCEPT ![Key(p)] = scheduled']

\* cancelOfflineTimer: it does not wait for the worker.
CancelTimer(p) ==
    /\ UNCHANGED scheduled
    /\ IF p \in Configured /\ timers[p] # 0
       THEN /\ worker' = Cancelled(worker, timers[p])
            /\ timers' = [timers EXCEPT ![p] = 0]
       ELSE UNCHANGED <<worker, timers>>

StepTo(w, pc) == worker' = [worker EXCEPT ![w].pc = pc]

\* What a call leaves: its result, or the fallback if the call may fail.
Outcomes(call, result, fallback) == {result} \cup {fallback : f \in Failing \cap {call}}

\* The grace period is over: enterDeferredSource takes the gate if the worker
\* is not cancelled and its master still in office.
Expire(w) ==
    /\ worker[w].pc = "wait"
    /\ IF worker[w].live /\ worker[w].src = masterEpoch /\ masterAlive
       THEN StepTo(w, "look")
       ELSE StepTo(w, "done")
    /\ UNCHANGED <<rows, seen, reader, messages, masterVars, timers, scheduled, bounceVars, sectors>>

\* The look-up under offlineMu: the worker goes on only if the entry is its own.
LookUpTimer(w) ==
    /\ worker[w].pc = "look" /\ WorkerMayAct
    /\ IF timers[Key(worker[w].pos)] = w
       THEN /\ timers' = [timers EXCEPT ![Key(worker[w].pos)] = 0]
            /\ StepTo(w, "classify")
       ELSE StepTo(w, "done") /\ UNCHANGED timers
    /\ UNCHANGED <<rows, seen, reader, messages, masterVars, scheduled, bounceVars, sectors>>

\* Mutation: the position of the row is not compared.
ClassifyRowAnywhere(w) ==
    /\ worker[w].pc = "classify"
    /\ \E pc \in Outcomes("classify", IF rows[worker[w].who] # None THEN "others" ELSE "done", "done") :
          StepTo(w, pc)
    /\ UNCHANGED <<rows, seen, reader, messages, masterVars, timers, scheduled, bounceVars, sectors>>

\* classifyOfflineAction, the row: gone or on another position means skip; an
\* error ends the worker, whose timer is already forgotten.
ClassifyRow(w) ==
    /\ worker[w].pc = "classify"
    /\ \E pc \in Outcomes("classify", IF rows[worker[w].who] = worker[w].pos THEN "others" ELSE "done", "done") :
          StepTo(w, pc)
    /\ UNCHANGED <<rows, seen, reader, messages, masterVars, timers, scheduled, bounceVars, sectors>>

\* Mutation: the leaving controller's own row counts as coverage.
ClassifyOthersAndSelf(w) ==
    /\ worker[w].pc = "others"
    /\ \E pc \in Outcomes("others", IF worker[w].pos \in Covered THEN "dropSilently" ELSE "drop", "done") :
          StepTo(w, pc)
    /\ UNCHANGED <<rows, seen, reader, messages, masterVars, timers, scheduled, bounceVars, sectors>>

\* classifyOfflineAction, the others: somebody else's row means a silent cleanup.
ClassifyOthers(w) ==
    /\ worker[w].pc = "others"
    /\ \E pc \in Outcomes("others", IF CoveredByOther(worker[w].who, worker[w].pos)
                                   THEN "dropSilently" ELSE "drop", "done") :
          StepTo(w, pc)
    /\ UNCHANGED <<rows, seen, reader, messages, masterVars, timers, scheduled, bounceVars, sectors>>

\* controllerRepo.Delete: an error is logged and the worker goes on.
DropRow(w) ==
    /\ worker[w].pc \in {"drop", "dropSilently"}
    /\ rows' \in Outcomes("delete", [rows EXCEPT ![worker[w].who] = None], rows)
    /\ StepTo(w, IF worker[w].pc = "drop" THEN "announce" ELSE "done")
    /\ UNCHANGED <<seen, reader, messages, masterVars, timers, scheduled, bounceVars, sectors>>

-----------------------------------------------------------------------------
(* The session-update debouncer *)

\* scheduleSessionUpdate: an open window is extended, or one is opened.
\* Resetting a timer that has fired lets its function run once more.
ScheduleUpdate ==
    IF pending # 0
    THEN /\ armed' = armed \cup {pending}
         /\ UNCHANGED <<pending, opened, fired, updating>>
    ELSE /\ opened < MaxBatches
         /\ opened' = opened + 1
         /\ pending' = opened' /\ armed' = armed \cup {opened'}
         /\ UNCHANGED <<fired, updating>>

\* SendControllerOffline and scheduleSessionUpdate.
Announce(w) ==
    /\ worker[w].pc = "announce"
    /\ StepTo(w, "done")
    /\ ScheduleUpdate
    /\ UNCHANGED <<rows, seen, reader, messages, masterVars, timers, scheduled, sectors>>

\* The window's timer fires and its function starts.
WindowFires(b) ==
    /\ b \in armed /\ b \notin fired
    /\ armed' = armed \ {b} /\ fired' = fired \cup {b}
    /\ UNCHANGED <<rows, seen, reader, messages, masterVars, hubVars, pending, opened, updating, sectors>>

\* Mutation: the window stays open during the run it starts.
ConsumeLate(b) ==
    /\ b \in fired
    /\ fired' = fired \ {b}
    /\ IF pending = b
       THEN updating' = updating \cup {b}
       ELSE UNCHANGED updating
    /\ UNCHANGED <<rows, seen, reader, messages, masterVars, hubVars, pending, opened, armed, sectors>>

\* The function under sessionUpdateMu: it closes its window and runs the
\* update, unless the window was consumed or replaced.
Consume(b) ==
    /\ b \in fired
    /\ fired' = fired \ {b}
    /\ IF pending = b
       THEN pending' = 0 /\ updating' = updating \cup {b}
       ELSE UNCHANGED <<pending, updating>>
    /\ UNCHANGED <<rows, seen, reader, messages, masterVars, hubVars, opened, armed, sectors>>

\* runSessionUpdate: RecalculateSession, under the session's lock.  An error
\* is logged and not retried.
RunUpdate(b) ==
    /\ b \in updating
    /\ updating' = updating \ {b}
    /\ sectors' \in Outcomes("recalculate", Covered, sectors)
    /\ UNCHANGED <<rows, seen, reader, messages, masterVars, hubVars, pending, opened, armed, fired>>

-----------------------------------------------------------------------------
(* Messages of the master *)

ReceiveMessage(r, where) ==
    /\ reader.pc = "idle" /\ masterAlive /\ messages < MaxMessages /\ ReaderMayStep
    /\ messages' = messages + 1
    /\ reader' = r /\ seen' = where
    /\ UNCHANGED <<rows, masterVars, hubVars, bounceVars, sectors>>

\* handleControllerOnline
Online(c, p) ==
    ReceiveMessage([IdleReader EXCEPT !.pc = "cancel", !.who = c, !.pos = p], [seen EXCEPT ![c] = p])

\* handleControllerOffline
Offline(c) ==
    ReceiveMessage([IdleReader EXCEPT !.pc = "offline", !.who = c], [seen EXCEPT ![c] = None])

\* handleSync: the controllers the master sees; buildSyncState copies the table.
Sync(listed) ==
    ReceiveMessage([IdleReader EXCEPT !.pc = "upsert", !.listed = listed, !.cache = rows,
                               !.todo = {c \in Controllers : listed[c] # None}], listed)

ReaderTo(pc) == reader' = [reader EXCEPT !.pc = pc]
Done == reader' = IdleReader

OnlineCancel ==
    /\ reader.pc = "cancel" /\ ReaderMayStep
    /\ CancelTimer(reader.pos)
    /\ ReaderTo("read")
    /\ UNCHANGED <<rows, seen, messages, masterVars, bounceVars, sectors>>

\* ControllerOnlineWithOptions: a heartbeat changes nothing, unless the
\* controller's plugin has just logged in and the orchestration is forced.
OnlineRead ==
    /\ reader.pc = "read" /\ ReaderMayStep
    /\ \/ rows[reader.who] = reader.pos /\ (Done \/ ReaderTo("recalculate"))
       \/ rows[reader.who] # reader.pos
          /\ reader' = [reader EXCEPT !.pc = "write", !.row = rows[reader.who]]
    /\ UNCHANGED <<rows, seen, messages, masterVars, hubVars, bounceVars, sectors>>

\* Create, or SetPosition, which updates no row if the row has gone.
Upserted(c, old, p) ==
    IF old # None /\ rows[c] = None THEN rows ELSE [rows EXCEPT ![c] = p]

OnlineWrite ==
    /\ reader.pc = "write" /\ ReaderMayStep
    /\ rows' = Upserted(reader.who, reader.row, reader.pos)
    /\ IF reader.row = None \/ {reader.row, reader.pos} \cap Configured # {}
       THEN ReaderTo("recalculate") ELSE Done
    /\ UNCHANGED <<seen, messages, masterVars, hubVars, bounceVars, sectors>>

\* RecalculateSessionContext; on a sync UpdateSectors and UpdateLayouts, before
\* the missing controllers are looked for.
Recalculate ==
    /\ reader.pc \in {"recalculate", "syncSectors"} /\ ReaderMayStep
    /\ sectors' = Covered
    /\ IF reader.pc = "recalculate" THEN Done
       ELSE reader' = [reader EXCEPT !.pc = "stale",
                                     !.todo = {c \in Controllers : reader.cache[c] # None /\ reader.listed[c] = None}]
    /\ UNCHANGED <<rows, seen, messages, masterVars, hubVars, bounceVars>>

\* ControllerOffline, the row: none to remove, or not a configured position
\* and removed at once.
OfflineRead ==
    /\ reader.pc = "offline" /\ ReaderMayStep
    /\ LET p == rows[reader.who] IN
          IF p \in Configured
          THEN reader' = [reader EXCEPT !.pc = "covered", !.row = p] /\ UNCHANGED rows
          ELSE Done /\ rows' = [rows EXCEPT ![reader.who] = None]
    /\ UNCHANGED <<seen, messages, masterVars, hubVars, bounceVars, sectors>>

\* ControllerOffline, the others: a covered position loses the row silently;
\* an uncovered one gets its timer.
OfflineCovered ==
    /\ reader.pc = "covered" /\ ReaderMayStep
    /\ Done
    /\ \/ /\ CoveredByOther(reader.who, reader.row)
          /\ rows' = [rows EXCEPT ![reader.who] = None]
          /\ UNCHANGED hubVars
       \/ /\ ~CoveredByOther(reader.who, reader.row)
          /\ ScheduleOffline(reader.who, reader.row)
          /\ UNCHANGED rows
    /\ UNCHANGED <<seen, messages, masterVars, bounceVars, sectors>>

\* syncControllersFromEvent, one controller: UpsertController against the
\* copied table, then cancelOfflineTimer.
SyncUpsert(c) ==
    /\ reader.pc = "upsert" /\ c \in reader.todo /\ ReaderMayStep
    /\ LET p == reader.listed[c] IN
          /\ IF reader.cache[c] = p THEN UNCHANGED rows
             ELSE rows' = Upserted(c, reader.cache[c], p)
          /\ CancelTimer(p)
          /\ reader' = [reader EXCEPT !.todo = @ \ {c}, !.cache[c] = p,
                                      !.changed = reader.changed \/ reader.cache[c] # p]
    /\ UNCHANGED <<seen, messages, masterVars, bounceVars, sectors>>

\* The sectors are updated if a controller changed (or a runway did).
SyncListed ==
    /\ reader.pc = "upsert" /\ reader.todo = {} /\ ReaderMayStep
    /\ \/ ReaderTo("syncSectors")
       \/ /\ ~reader.changed
          /\ reader' = [reader EXCEPT !.pc = "stale",
                                      !.todo = {c \in Controllers : reader.cache[c] # None /\ reader.listed[c] = None}]
    /\ UNCHANGED <<rows, seen, messages, masterVars, hubVars, bounceVars, sectors>>

\* reconcileStaleController
SyncStale(c) ==
    /\ reader.pc = "stale" /\ c \in reader.todo /\ ReaderMayStep
    /\ ScheduleOffline(c, reader.cache[c])
    /\ reader' = [reader EXCEPT !.todo = @ \ {c}]
    /\ UNCHANGED <<rows, seen, messages, masterVars, bounceVars, sectors>>

SyncDone ==
    /\ reader.pc = "stale" /\ reader.todo = {} /\ ReaderMayStep
    /\ Done
    /\ UNCHANGED <<rows, seen, messages, masterVars, hubVars, bounceVars, sectors>>

-----------------------------------------------------------------------------
(* Masters *)

\* The master's connection closes; its reader finishes the message in work.
MasterLeaves ==
    /\ masterAlive /\ masterEpoch < MaxMasters
    /\ masterAlive' = FALSE
    /\ UNCHANGED <<rows, seen, reader, messages, masterEpoch, extending, collected, hubVars, bounceVars, sectors>>

\* A change of master holds the gate alone: invalidateSessionAbsence cancels
\* and forgets every timer of the session.  The rows stay until the new
\* master's sync.  When the former master has left, OnUnregister goes on to
\* extend the session's timers after the gate is free.
ChangeMaster ==
    /\ masterEpoch < MaxMasters /\ reader.pc = "idle"
    /\ ActingWorkers = {} /\ \A w \in OfflineWorkers : worker[w].pc # "look"
    /\ masterEpoch' = masterEpoch + 1 /\ masterAlive' = TRUE
    /\ worker' = [w \in OfflineWorkers |-> [worker[w] EXCEPT !.live = FALSE]]
    /\ timers' = [k \in Keys |-> 0]
    /\ extending' \in {extending, IF extending = "idle" THEN "called" ELSE extending}
    /\ UNCHANGED <<rows, seen, reader, messages, collected, scheduled, bounceVars, sectors>>

\* extendSessionTimers collects the entries under offlineMu ...
ExtendCollect ==
    /\ extending = "called" /\ WorkerMayAct
    /\ extending' = "collected"
    /\ collected' = {[who |-> worker[timers[k]].who, pos |-> worker[timers[k]].pos] :
                        k \in {j \in Keys : timers[j] # 0}}
    /\ UNCHANGED <<rows, seen, reader, messages, masterAlive, masterEpoch, hubVars, bounceVars, sectors>>

\* ... and schedules each anew, whatever has become of it since.
ExtendOne(e) ==
    /\ Extending /\ e \in collected
    /\ ScheduleOffline(e.who, e.pos)
    /\ collected' = collected \ {e}
    /\ UNCHANGED <<rows, seen, reader, messages, masterAlive, masterEpoch, extending, bounceVars, sectors>>

ExtendDone ==
    /\ Extending /\ collected = {}
    /\ extending' = "idle"
    /\ UNCHANGED <<rows, seen, reader, messages, masterAlive, masterEpoch, collected, hubVars, bounceVars, sectors>>

-----------------------------------------------------------------------------
ReaderStep ==
    \/ OnlineCancel \/ OnlineRead \/ OnlineWrite \/ Recalculate
    \/ OfflineRead \/ OfflineCovered
    \/ SyncListed \/ SyncDone
    \/ \E c \in Controllers : SyncUpsert(c) \/ SyncStale(c)

OfflineWorkerStep(w) ==
    \/ Expire(w) \/ LookUpTimer(w) \/ ClassifyRow(w) \/ ClassifyOthers(w) \/ DropRow(w) \/ Announce(w)

BatchStep(b) == WindowFires(b) \/ Consume(b) \/ RunUpdate(b)

ExtendStep == ExtendCollect \/ ExtendDone \/ (\E e \in collected : ExtendOne(e))

OfflineNext ==
    \/ \E c \in Controllers : (\E p \in Positions : Online(c, p)) \/ Offline(c)
    \/ \E listed \in [Controllers -> Where] : Sync(listed)
    \/ ReaderStep
    \/ \E w \in OfflineWorkers : OfflineWorkerStep(w)
    \/ \E b \in Batches : BatchStep(b)
    \/ MasterLeaves \/ ChangeMaster
    \/ ExtendStep

OfflineSpec == OfflineInit /\ [][OfflineNext]_offlineVars

\* Goroutines are scheduled: a handler finishes its message, a worker wakes
\* and proceeds, a timer fires and its function runs.
OfflineFairSpec ==
    /\ OfflineSpec
    /\ WF_offlineVars(ReaderStep) /\ WF_offlineVars(ExtendStep)
    /\ \A w \in OfflineWorkers : WF_offlineVars(OfflineWorkerStep(w))
    /\ \A b \in Batches : WF_offlineVars(WindowFires(b)) /\ WF_offlineVars(Consume(b)) /\ WF_offlineVars(RunUpdate(b))

-----------------------------------------------------------------------------
(* Properties *)

OfflineTypeOK ==
    /\ rows \in [Controllers -> Where] /\ seen \in [Controllers -> Where]
    /\ reader.pc \in ReaderPc /\ reader.todo \subseteq Controllers
    /\ messages \in 0..MaxMessages /\ masterEpoch \in 0..MaxMasters /\ masterAlive \in BOOLEAN
    /\ timers \in [Keys -> 0..MaxTimers] /\ scheduled \in 0..MaxTimers
    /\ \A w \in OfflineWorkers : worker[w].pc \in WorkerPc /\ worker[w].live \in BOOLEAN
    /\ pending \in 0..opened /\ opened \in 0..MaxBatches
    /\ armed \subseteq Batches /\ fired \subseteq Batches /\ updating \subseteq Batches
    /\ sectors \subseteq Configured

\* A worker that can still act is the one its position's timer names, so that
\* the controller's return can reach it: scheduleOfflineActions, extension and
\* a change of master leave no live worker behind.
LiveWorkerRegistered ==
    \A w \in OfflineWorkers :
        worker[w].pc \in {"wait", "look"} /\ worker[w].live => timers[Key(worker[w].pos)] = w

\* An open debounce window will be consumed: its timer runs or its function
\* waits for the mutex.  A timer reset after it fired, and a window replaced
\* while the old function waits, do not lose it.
WindowAlive == pending # 0 => pending \in armed \cup fired

\* A controller the master sees has its row: no worker started when it left,
\* moved or was missing from a list takes the row of a controller that is back.
OnlineKeepsRow ==
    reader.pc = "idle" => \A c \in Controllers : seen[c] # None => rows[c] = seen[c]

\* The sectors follow the controllers: a position gained or lost is followed
\* by a recalculation that has seen it, if the debouncer's recalculations
\* succeed: a worker that cannot read the table keeps the row, and one that
\* cannot delete it still asks for the recalculation.
SectorsCatchUp == (sectors # Covered) ~> (sectors = Covered)

\* With nothing left to do, a position is covered only if a controller the
\* master sees is on it ("Check whether any OTHER controller is still on this
\* position").
CoverageIsReal ==
    (/\ reader.pc = "idle"
     /\ \A w \in OfflineWorkers : worker[w].pc \in {"none", "done"})
    => \A p \in Covered : \E c \in Controllers : seen[c] = p

=============================================================================
