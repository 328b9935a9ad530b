--------------------------- MODULE AircraftAbsence ---------------------------
(***************************************************************************)
(* The deferred removal of one aircraft's strip                            *)
(* (backend/internal/euroscope: hub_aircraft_disconnect.go,                *)
(* deferred_source.go, the callers in handlers.go, client.go and           *)
(* sync_service.go, and extendSessionTimers of hub_offline_timers.go).     *)
(*                                                                         *)
(* When the master reports that an aircraft is gone a worker is started    *)
(* that removes the strip after a grace period; a later sighting cancels   *)
(* the worker and joins it.  Handlers and workers hold the read lock of    *)
(* the session's election gate, a change of master the write lock, and a   *)
(* waiting writer shuts out new readers.  Every critical section under     *)
(* aircraftDisconnectMu is one step.  Workers are numbered in the order in *)
(* which they are started.                                                 *)
(***************************************************************************)
EXTENDS Naturals, FiniteSets

CONSTANTS
    Handlers,     \* threads that apply the master's messages
    Trackers,     \* the ones that apply position reports (sightings only)
    MaxWorkers,   \* bound of the model: workers started
    MaxElections, \* bound of the model: changes of master
    MaxExtends    \* bound of the model: calls of extendSessionTimers

ASSUME AbsenceAssumption ==
    /\ Trackers \subseteq Handlers
    /\ MaxWorkers \in Nat /\ MaxElections \in Nat /\ MaxExtends \in Nat

VARIABLES
    epoch,     \* the election the current master belongs to
    alive,     \* the current master's connection is open
    writer,    \* a change of master waits for the gate
    strip,     \* the strip's row: shown, hidden (presence cleared) or deleted
    timer,     \* aircraftDisconnectTimers[key], 0 if there is none
    marker,    \* the key is in aircraftDisconnects
    started,   \* workers started so far
    wpc,       \* where each worker is
    src,       \* deferredSource of each worker's entry
    cancelled, \* workers whose context is cancelled
    hpc,       \* where each handler is
    hepoch,    \* the master epoch of the message it applies
    hentry,    \* the entry its cancelAircraftDisconnect joins
    hbar,      \* history: workers started when it took that entry
    ext,       \* where extendSessionTimers is
    extSrc,    \* the source it captured
    extends,   \* calls of extendSessionTimers so far
    due        \* history: the last fact of this election is an absence

gateVars == <<epoch, alive, writer>>
workVars == <<started, wpc, src>>
handVars == <<hpc, hepoch, hentry, hbar>>
extVars == <<ext, extSrc, extends>>
vars == <<gateVars, strip, timer, marker, cancelled, workVars, handVars, extVars, due>>

Workers == 1..MaxWorkers

\* Worker states between taking the gate and giving it back, and the ones in
\* which the worker changes the strip or tells the frontends.
Acting == {"op", "aman", "mark", "markHandled", "emit"}
WorkerInGate == Acting \cup {"look"}
WorkerState == WorkerInGate \cup {"none", "wait", "poll", "exit", "done"}

HandlerInGate == {"cancel", "join", "apply", "schedule"}
HandlerState == HandlerInGate \cup {"idle", "seen", "absent"}

Init ==
    /\ epoch = 1 /\ alive = TRUE /\ writer = FALSE
    /\ strip = "shown" /\ timer = 0 /\ marker = FALSE
    /\ started = 0
    /\ wpc = [w \in Workers |-> "none"]
    /\ src = [w \in Workers |-> 0]
    /\ cancelled = {}
    /\ hpc = [h \in Handlers |-> "idle"]
    /\ hepoch = [h \in Handlers |-> 0]
    /\ hentry = [h \in Handlers |-> 0]
    /\ hbar = [h \in Handlers |-> 0]
    /\ ext = "idle" /\ extSrc = 0 /\ extends = 0
    /\ due = FALSE

-----------------------------------------------------------------------------
(* The election gate *)

Readers == {w \in Workers : wpc[w] \in WorkerInGate} \cup {h \in Handlers : hpc[h] \in HandlerInGate}

\* The master's connection closes (the model's last master stays).
MasterCloses ==
    /\ alive /\ epoch <= MaxElections
    /\ alive' = FALSE
    /\ UNCHANGED <<epoch, writer, strip, timer, marker, cancelled, workVars, handVars, extVars, due>>

\* gate.Lock(): from now on new readers wait.
ElectWaits ==
    /\ ~writer /\ epoch <= MaxElections
    /\ writer' = TRUE
    /\ UNCHANGED <<epoch, alive, strip, timer, marker, cancelled, workVars, handVars, extVars, due>>

\* setMasterClientLocked with invalidateSessionAbsence: the pending absences
\* of the former master are cancelled and forgotten.  When the change comes
\* from OnUnregister, extendSessionTimers follows after the gate is free.
Elect ==
    /\ writer /\ Readers = {}
    /\ writer' = FALSE /\ epoch' = epoch + 1 /\ alive' = TRUE
    /\ cancelled' = IF timer = 0 THEN cancelled ELSE cancelled \cup {timer}
    /\ timer' = 0
    /\ due' = FALSE
    /\ \/ UNCHANGED extVars
       \/ /\ ext = "idle" /\ extends < MaxExtends
          /\ ext' = "called" /\ extends' = extends + 1
          /\ UNCHANGED extSrc
    /\ UNCHANGED <<strip, marker, workVars, handVars>>

-----------------------------------------------------------------------------
(* Scheduling *)

\* Room for one more worker beside the ones already announced.
Room ==
    started + (MaxExtends - extends) + (IF ext = "idle" THEN 0 ELSE 1)
        + Cardinality({h \in Handlers : hpc[h] \in {"absent", "schedule"}}) < MaxWorkers

\* Starts a worker for an entry with the given source.
StartWorker(source) ==
    /\ started < MaxWorkers
    /\ started' = started + 1
    /\ wpc' = [wpc EXCEPT ![started'] = "wait"]
    /\ src' = [src EXCEPT ![started'] = source]
    /\ timer' = started'

\* scheduleAircraftDisconnect under the mutex: nothing to do for a retained
\* disconnect; an entry of another source is cancelled and replaced; one of
\* the same source stays in charge (its deadline is reset); otherwise a worker
\* is started.
Schedule(source) ==
    IF marker \/ (timer # 0 /\ src[timer] = source)
    THEN UNCHANGED <<timer, cancelled, workVars>>
    ELSE /\ cancelled' = IF timer = 0 THEN cancelled ELSE cancelled \cup {timer}
         /\ StartWorker(source)

\* extendSessionTimers reads the pending entries, ...
ExtendSnapshot ==
    /\ ext = "called"
    /\ ext' = IF timer = 0 THEN "idle" ELSE "snapped"
    /\ UNCHANGED <<gateVars, strip, timer, marker, cancelled, workVars, handVars, extSrc, extends, due>>

\* ... captures the current source, ...
ExtendCapture ==
    /\ ext = "snapped"
    /\ ext' = "captured" /\ extSrc' = epoch
    /\ UNCHANGED <<gateVars, strip, timer, marker, cancelled, workVars, handVars, extends, due>>

\* ... and schedules the entry again, all without the gate.
ExtendSchedule ==
    /\ ext = "captured"
    /\ Schedule(extSrc)
    /\ ext' = "idle" /\ extSrc' = 0
    /\ UNCHANGED <<gateVars, strip, marker, handVars, extends, due>>

-----------------------------------------------------------------------------
(* Handlers of the master's messages *)

\* A message that shows the aircraft (a strip, a sync that lists it, a
\* position report) or its absence (a disconnect, a sync without it) arrives.
Receive(h) ==
    /\ hpc[h] = "idle" /\ alive
    /\ \E fact \in IF h \in Trackers \/ ~Room THEN {"seen"} ELSE {"seen", "absent"} :
          hpc' = [hpc EXCEPT ![h] = fact]
    /\ hepoch' = [hepoch EXCEPT ![h] = epoch]
    /\ UNCHANGED <<gateVars, strip, timer, marker, cancelled, workVars, hentry, hbar, extVars, due>>

\* ApplyScopedMessage / processAircraftPosition: the read lock, and the check
\* that the message is from the current master in the current epoch.
EnterGate(h) ==
    /\ hpc[h] \in {"seen", "absent"} /\ ~writer
    /\ hpc' = [hpc EXCEPT ![h] =
                 IF ~alive \/ hepoch[h] # epoch THEN "idle"
                 ELSE IF @ = "seen" THEN "cancel" ELSE "schedule"]
    /\ hepoch' = [hepoch EXCEPT ![h] = 0]
    /\ UNCHANGED <<gateVars, strip, timer, marker, cancelled, workVars, hentry, hbar, extVars, due>>

\* scheduleAircraftDisconnect for an absence of the current master; it gives
\* up when the airport's removal policy cannot be read.
ReportAbsent(h) ==
    /\ hpc[h] = "schedule"
    /\ \/ Schedule(epoch) /\ due' = ~marker
       \/ UNCHANGED <<timer, cancelled, workVars, due>>
    /\ hpc' = [hpc EXCEPT ![h] = "idle"]
    /\ UNCHANGED <<gateVars, strip, marker, hepoch, hentry, hbar, extVars>>

\* Mutation: a cancelled worker is not joined.
CancelWithoutJoin(h) ==
    /\ hpc[h] = "cancel"
    /\ marker' = FALSE
    /\ cancelled' = IF timer = 0 THEN cancelled ELSE cancelled \cup {timer}
    /\ hpc' = [hpc EXCEPT ![h] = "apply"]
    /\ hbar' = [hbar EXCEPT ![h] = started]
    /\ due' = FALSE
    /\ UNCHANGED <<gateVars, strip, timer, workVars, hepoch, hentry, extVars>>

\* Mutation: the pending worker is joined without being cancelled.
CancelForgotten(h) ==
    /\ hpc[h] = "cancel"
    /\ marker' = FALSE
    /\ hentry' = [hentry EXCEPT ![h] = timer]
    /\ hbar' = [hbar EXCEPT ![h] = started]
    /\ hpc' = [hpc EXCEPT ![h] = IF timer = 0 THEN "apply" ELSE "join"]
    /\ due' = FALSE
    /\ UNCHANGED <<gateVars, strip, timer, cancelled, workVars, hepoch, extVars>>

\* cancelAircraftDisconnect under the mutex.
CancelPending(h) ==
    /\ hpc[h] = "cancel"
    /\ marker' = FALSE
    /\ cancelled' = IF timer = 0 THEN cancelled ELSE cancelled \cup {timer}
    /\ hentry' = [hentry EXCEPT ![h] = timer]
    /\ hbar' = [hbar EXCEPT ![h] = started]
    /\ hpc' = [hpc EXCEPT ![h] = IF timer = 0 THEN "apply" ELSE "join"]
    /\ due' = FALSE
    /\ UNCHANGED <<gateVars, strip, timer, workVars, hepoch, extVars>>

\* <-entry.done
Joined(h) ==
    /\ hpc[h] = "join" /\ wpc[hentry[h]] = "done"
    /\ hpc' = [hpc EXCEPT ![h] = "apply"]
    /\ UNCHANGED <<gateVars, strip, timer, marker, cancelled, workVars, hepoch, hentry, hbar, extVars, due>>

\* SyncStrip restores the strip, or fails; a position report leaves the row's
\* existence alone.  Then the gate is released.
ApplySeen(h) ==
    /\ hpc[h] = "apply"
    /\ \/ h \notin Trackers /\ strip' = "shown"
       \/ UNCHANGED strip
    /\ hpc' = [hpc EXCEPT ![h] = "idle"]
    /\ hentry' = [hentry EXCEPT ![h] = 0] /\ hbar' = [hbar EXCEPT ![h] = 0]
    /\ UNCHANGED <<gateVars, timer, marker, cancelled, workVars, hepoch, extVars, due>>

-----------------------------------------------------------------------------
(* The worker: runAircraftDisconnect *)

Goto(w, s) == wpc' = [wpc EXCEPT ![w] = s]

\* The grace period, or the delay of a retry, is over.  It is at least 5
\* seconds long, so it does not elapse between two adjacent statements of
\* extendSessionTimers.
Fire(w) ==
    /\ wpc[w] = "wait" /\ ext # "captured"
    /\ Goto(w, "poll")
    /\ UNCHANGED <<gateVars, strip, timer, marker, cancelled, started, src, handVars, extVars, due>>

\* ctx.Done() while waiting for the timer.
StopWaiting(w) ==
    /\ wpc[w] = "wait" /\ w \in cancelled
    /\ Goto(w, "exit")
    /\ UNCHANGED <<gateVars, strip, timer, marker, cancelled, started, src, handVars, extVars, due>>

\* Mutation: a cancelled worker goes back to its timer and to the gate.
StopPollingRetries(w) ==
    /\ wpc[w] = "poll" /\ w \in cancelled
    /\ Goto(w, "wait")
    /\ UNCHANGED <<gateVars, strip, timer, marker, cancelled, started, src, handVars, extVars, due>>

\* ctx.Done() between two attempts of TryRLock.
StopPolling(w) ==
    /\ wpc[w] = "poll" /\ w \in cancelled
    /\ Goto(w, "exit")
    /\ UNCHANGED <<gateVars, strip, timer, marker, cancelled, started, src, handVars, extVars, due>>

\* Mutation: the source is not checked under the gate.
EnterUnchecked(w) ==
    /\ wpc[w] = "poll" /\ ~writer
    /\ Goto(w, IF w \in cancelled THEN "exit" ELSE "look")
    /\ UNCHANGED <<gateVars, strip, timer, marker, cancelled, started, src, handVars, extVars, due>>

\* TryRLock succeeds; the worker goes on if it is not cancelled and its source
\* is still the master of the same election.
EnterDeferredSource(w) ==
    /\ wpc[w] = "poll" /\ ~writer
    /\ Goto(w, IF w \in cancelled \/ src[w] # epoch \/ ~alive THEN "exit" ELSE "look")
    /\ UNCHANGED <<gateVars, strip, timer, marker, cancelled, started, src, handVars, extVars, due>>

\* The entry must still be the registered one.
LookUp(w) ==
    /\ wpc[w] = "look"
    /\ Goto(w, IF timer = w THEN "op" ELSE "exit")
    /\ UNCHANGED <<gateVars, strip, timer, marker, cancelled, started, src, handVars, extVars, due>>

\* Mutation: a failed operation is not retried.
FailedGivesUp(w) == Goto(w, "exit")

\* A failed operation is retried after a delay, without the gate, unless the
\* worker was cancelled.
Failed(w) == Goto(w, IF w \in cancelled THEN "exit" ELSE "wait")

\* Another source retains the strip: the retained-disconnect handler deals
\* with it (or fails, and is retried even if cancelled), ...
HandleRetained(w) ==
    /\ wpc[w] = "op"
    /\ \/ strip' = "hidden" /\ Goto(w, "markHandled")
       \/ UNCHANGED strip /\ Goto(w, "wait")
    /\ UNCHANGED <<gateVars, timer, marker, cancelled, started, src, handVars, extVars, due>>

\* ... or the EuroScope presence is cleared and ...
ClearSeen(w) ==
    /\ wpc[w] = "op"
    /\ \/ strip' = "hidden" /\ Goto(w, "aman")
       \/ UNCHANGED strip /\ Failed(w)
    /\ UNCHANGED <<gateVars, timer, marker, cancelled, started, src, handVars, extVars, due>>

\* ... the AMAN strip is retracted.
RetractAman(w) ==
    /\ wpc[w] = "aman"
    /\ Goto(w, "mark") \/ Failed(w)
    /\ UNCHANGED <<gateVars, strip, timer, marker, cancelled, started, src, handVars, extVars, due>>

\* The tombstone is left unless the entry was cancelled or replaced meanwhile.
Mark(w) ==
    /\ wpc[w] \in {"mark", "markHandled"}
    /\ IF w \in cancelled \/ timer # w
       THEN Goto(w, "exit") /\ UNCHANGED <<marker, due>>
       ELSE /\ marker' = TRUE /\ due' = FALSE
            /\ Goto(w, IF wpc[w] = "mark" THEN "emit" ELSE "exit")
    /\ UNCHANGED <<gateVars, strip, timer, cancelled, started, src, handVars, extVars>>

\* SendAircraftDisconnect
Emit(w) ==
    /\ wpc[w] = "emit"
    /\ Goto(w, "exit")
    /\ UNCHANGED <<gateVars, strip, timer, marker, cancelled, started, src, handVars, extVars, due>>

\* Nobody retains the strip: it is deleted.
DeleteStrip(w) ==
    /\ wpc[w] = "op"
    /\ \/ strip' = "deleted" /\ Goto(w, "exit") /\ due' = (due /\ timer # w)
       \/ UNCHANGED <<strip, due>> /\ Failed(w)
    /\ UNCHANGED <<gateVars, timer, marker, cancelled, started, src, handVars, extVars>>

\* Mutation: the key is unregistered whoever it belongs to.
ExitDropsAny(w) ==
    /\ wpc[w] = "exit"
    /\ timer' = 0
    /\ Goto(w, "done")
    /\ UNCHANGED <<gateVars, strip, marker, cancelled, started, src, handVars, extVars, due>>

\* The deferred function: the entry is unregistered and done closes.
Exit(w) ==
    /\ wpc[w] = "exit"
    /\ timer' = IF timer = w THEN 0 ELSE timer
    /\ Goto(w, "done")
    /\ UNCHANGED <<gateVars, strip, marker, cancelled, started, src, handVars, extVars, due>>

-----------------------------------------------------------------------------
HandlerStep(h) ==
    EnterGate(h) \/ ReportAbsent(h) \/ CancelPending(h) \/ Joined(h) \/ ApplySeen(h)

WorkerStep(w) ==
    \/ Fire(w) \/ StopWaiting(w) \/ StopPolling(w) \/ EnterDeferredSource(w) \/ LookUp(w)
    \/ HandleRetained(w) \/ ClearSeen(w) \/ RetractAman(w) \/ Mark(w) \/ Emit(w)
    \/ DeleteStrip(w) \/ Exit(w)

Next ==
    \/ MasterCloses \/ ElectWaits \/ Elect
    \/ ExtendSnapshot \/ ExtendCapture \/ ExtendSchedule
    \/ \E h \in Handlers : Receive(h) \/ HandlerStep(h)
    \/ \E w \in Workers : WorkerStep(w)

Spec == Init /\ [][Next]_vars

\* The worker's operation on the strip succeeds.
Succeeds(w) ==
    /\ HandleRetained(w) \/ ClearSeen(w) \/ DeleteStrip(w)
    /\ wpc'[w] \in {"markHandled", "aman", "exit"}

\* Threads run, a waiting election gets the gate once its readers left it, and
\* an operation on the strip that is retried does not fail for ever.
FairSpec ==
    /\ Spec
    /\ WF_vars(Elect)
    /\ \A h \in Handlers : WF_vars(HandlerStep(h))
    /\ \A w \in Workers : WF_vars(WorkerStep(w)) /\ SF_vars(Succeeds(w))

-----------------------------------------------------------------------------
(* Properties *)

\* The state has its type; only started workers are anywhere.
TypeOK ==
    /\ epoch \in Nat /\ alive \in BOOLEAN /\ writer \in BOOLEAN
    /\ strip \in {"shown", "hidden", "deleted"}
    /\ timer \in 0..started /\ marker \in BOOLEAN
    /\ started \in 0..MaxWorkers
    /\ wpc \in [Workers -> WorkerState] /\ src \in [Workers -> Nat]
    /\ \A w \in Workers : (wpc[w] = "none") <=> (w > started)
    /\ cancelled \subseteq 1..started
    /\ hpc \in [Handlers -> HandlerState] /\ hepoch \in [Handlers -> Nat]
    /\ hentry \in [Handlers -> 0..started] /\ hbar \in [Handlers -> 0..started]
    /\ ext \in {"idle", "called", "snapped", "captured"} /\ extSrc \in Nat
    /\ extends \in 0..MaxExtends
    /\ due \in BOOLEAN

\* When cancelAircraftDisconnect has returned, no worker that was there before
\* can clear the strip's presence, delete it or announce a disconnect.
CancelJoined ==
    \A h \in Handlers : hpc[h] = "apply" =>
        \A w \in Workers : w <= hbar[h] => wpc[w] \notin Acting

\* A strip is only removed on behalf of the master of the current election.
SourceCurrent == \A w \in Workers : wpc[w] \in Acting => src[w] = epoch

\* An absence that was recorded, and not contradicted since, has a worker that
\* will act on it.
AbsenceKept ==
    due /\ alive /\ strip # "deleted" =>
                   /\ timer # 0 /\ timer \notin cancelled
                   /\ src[timer] = epoch
                   /\ wpc[timer] \notin {"exit", "done"}

\* A worker that is not cancelled acts on the last fact of the master: the
\* aircraft was not sighted after the absence it was started for.
ActsOnAbsence ==
    \A w \in Workers : wpc[w] \in Acting \ {"emit"} /\ w \notin cancelled => due

\* A tombstone is left only while the strip is not shown.
TombstoneHidden == marker => strip # "shown"

\* Every handler returns: joining a worker never waits for an election that
\* waits for the handler.
HandlersReturn == \A h \in Handlers : (hpc[h] # "idle") ~> (hpc[h] = "idle")

\* A recorded absence is acted upon, unless it is contradicted or its source
\* goes away.
AbsenceActs == due ~> (~due \/ strip # "shown" \/ ~alive)

=============================================================================
