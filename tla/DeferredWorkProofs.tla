------------------------- MODULE DeferredWorkProofs -------------------------
(***************************************************************************)
(* Proofs about the deferred work of the EuroScope hub, which the master's *)
(* messages start and cancel and a change of master invalidates            *)
(* (deferred_source.go): AircraftAbsence, then ControllerOffline.          *)
(*                                                                         *)
(* For any number of handlers, workers and changes of master:              *)
(*                                                                         *)
(*  - the sources and the joined cancellation of the absence workers, and  *)
(*    with one handler and no extension that an absence is kept and acted  *)
(*    upon only while it holds;                                            *)
(*  - that every live offline worker is the one its timer names, that no   *)
(*    open debounce window is lost, and on the orderly schedule that a     *)
(*    controller the master sees keeps its row.                            *)
(***************************************************************************)
EXTENDS AircraftAbsence, ControllerOffline, TLAPS

-----------------------------------------------------------------------------
(* Deferred absence of an aircraft *)

\* A worker inside the gate belongs to the current election.
GateSource == \A w \in Workers : wpc[w] \in WorkerInGate => src[w] = epoch

\* A worker that acts is the registered one.
ActingRegistered == \A w \in Workers : wpc[w] \in Acting => timer = w

\* When an election passes between the capture of extendSessionTimers and its
\* registration, the workers of the new election have not fired yet: replacing
\* one of them interrupts nothing.
CaptureStale ==
    ext = "captured" /\ extSrc # epoch =>
        \A w \in Workers : src[w] = epoch => wpc[w] \notin WorkerInGate \cup {"poll"}

\* Sources are those of elections that took place.
SourcePast == extSrc <= epoch /\ \A w \in Workers : src[w] <= epoch

\* Once a handler has taken the entry to cancel, no other worker that was there
\* can be registered; once it has joined, that worker is done.
JoinInv ==
    \A h \in Handlers :
        /\ hpc[h] \in {"join", "apply"} =>
              \A w \in Workers : w <= hbar[h] => w = hentry[h] \/ timer # w
        /\ hpc[h] = "join" => hentry[h] # 0
        /\ hpc[h] = "apply" => hentry[h] = 0 \/ wpc[hentry[h]] = "done"

\* The inductive invariant.
IInv ==
    /\ TypeOK /\ GateSource /\ ActingRegistered
    /\ CaptureStale /\ SourcePast /\ JoinInv

-----------------------------------------------------------------------------
\* The initial state satisfies the invariant.
LEMMA InitInv == AbsenceAssumption /\ Init => IInv
  <1> SUFFICES ASSUME AbsenceAssumption, Init PROVE IInv
    OBVIOUS
  <1>1. alive \in BOOLEAN /\ writer \in BOOLEAN /\ marker \in BOOLEAN /\ due \in BOOLEAN
    BY Zenon DEF Init
  <1>2. TypeOK
    BY <1>1 DEF Init, TypeOK, AbsenceAssumption, Workers, WorkerState, WorkerInGate, HandlerState
  <1>3. GateSource /\ ActingRegistered /\ CaptureStale /\ SourcePast /\ JoinInv
    BY DEF Init, GateSource, ActingRegistered, CaptureStale, SourcePast, JoinInv, WorkerInGate, Acting, Workers
  <1> QED  BY <1>2, <1>3 DEF IInv

\* A worker that moves inside the gate, or out of it, disturbs nobody; when it
\* is done it unregisters its own entry only.
LEMMA WorkerMove ==
    ASSUME IInv, AbsenceAssumption, NEW w \in Workers, NEW s \in WorkerState \ {"none"},
           wpc' = [wpc EXCEPT ![w] = s],
           wpc[w] \notin {"none", "done"},
           UNCHANGED <<epoch, ext, extSrc, started, src, hpc, hentry, hbar>>,
           timer' = timer \/ (timer' = 0 /\ timer = w /\ s = "done"),
           s \in WorkerInGate => src[w] = epoch,
           s \in Acting => timer = w,
           s \in WorkerInGate \cup {"poll"} /\ ext = "captured" => wpc[w] \in WorkerInGate \cup {"poll"}
    PROVE  /\ GateSource' /\ ActingRegistered' /\ CaptureStale' /\ SourcePast' /\ JoinInv'
           /\ wpc' \in [Workers -> WorkerState] /\ timer' \in 0..started
           /\ \A x \in Workers : (wpc'[x] = "none") <=> (x > started)
  <1>1. wpc \in [Workers -> WorkerState] /\ timer \in 0..started /\ started \in 0..MaxWorkers
        /\ \A x \in Workers : (wpc[x] = "none") <=> (x > started)
    BY DEF IInv, TypeOK
  <1>2. \A x \in Workers : wpc'[x] = IF x = w THEN s ELSE wpc[x]
    BY <1>1
  <1>3. GateSource'
    BY <1>2 DEF IInv, GateSource
  <1>4. ActingRegistered'
    BY <1>2 DEF IInv, ActingRegistered, Acting
  <1>5. CaptureStale'
    BY <1>2 DEF IInv, CaptureStale
  <1>6. SourcePast'
    BY DEF IInv, SourcePast
  <1>7. JoinInv'
    <2> SUFFICES ASSUME NEW h \in Handlers
                 PROVE  /\ hpc[h] \in {"join", "apply"} =>
                              \A x \in Workers : x <= hbar[h] => x = hentry[h] \/ timer' # x
                        /\ hpc[h] = "join" => hentry[h] # 0
                        /\ hpc[h] = "apply" => hentry[h] = 0 \/ wpc'[hentry[h]] = "done"
      BY DEF JoinInv
    <2>1. hpc[h] \in {"join", "apply"} => \A x \in Workers : x <= hbar[h] => x = hentry[h] \/ timer' # x
      <3>1. \A x \in Workers : x # 0
        BY DEF Workers
      <3> QED  BY <3>1 DEF IInv, JoinInv
    <2>2. hpc[h] = "join" => hentry[h] # 0
      BY DEF IInv, JoinInv
    <2>3. hpc[h] = "apply" => hentry[h] = 0 \/ wpc'[hentry[h]] = "done"
      <3>1. hentry[h] \in 0..started
        BY DEF IInv, TypeOK
      <3>2. hentry[h] = 0 \/ hentry[h] \in Workers
        BY <1>1, <3>1 DEF Workers, AbsenceAssumption
      <3> QED  BY <1>2, <3>2 DEF IInv, JoinInv
    <2> QED  BY <2>1, <2>2, <2>3
  <1>8. wpc' \in [Workers -> WorkerState]
    BY <1>1
  <1>9. timer' \in 0..started
    BY <1>1 DEF AbsenceAssumption
  <1> QED  BY <1>1, <1>2, <1>3, <1>4, <1>5, <1>6, <1>7, <1>8, <1>9

\* What every step of a worker does to the state.
WorkerEffect(w, s) ==
    /\ wpc' = [wpc EXCEPT ![w] = s]
    /\ wpc[w] \notin {"none", "done"}
    /\ UNCHANGED <<gateVars, started, src, cancelled, handVars, extVars>>
    /\ timer' = timer \/ (timer' = 0 /\ timer = w /\ s = "done")
    /\ s \in WorkerInGate => src[w] = epoch
    /\ s \in Acting => timer = w
    /\ s \in WorkerInGate \cup {"poll"} /\ ext = "captured" => wpc[w] \in WorkerInGate \cup {"poll"}
    /\ strip' \in {"shown", "hidden", "deleted"} /\ marker' \in BOOLEAN /\ due' \in BOOLEAN

\* Every step of a worker has that effect.
LEMMA WorkerStepEffect ==
    ASSUME IInv, NEW w \in Workers, WorkerStep(w)
    PROVE  \E s \in WorkerState \ {"none"} : WorkerEffect(w, s)
  <1> USE DEF Goto
  <1>1. /\ strip \in {"shown", "hidden", "deleted"} /\ marker \in BOOLEAN /\ due \in BOOLEAN
        /\ wpc[w] \in WorkerInGate => src[w] = epoch
        /\ wpc[w] \in Acting => timer = w
    BY DEF IInv, TypeOK, GateSource, ActingRegistered
  <1>2. CASE Fire(w)
    <2>1. WorkerEffect(w, "poll")
      BY <1>1, <1>2 DEF Fire, WorkerEffect, WorkerInGate, Acting
    <2> QED  BY <2>1 DEF WorkerState
  <1>3. CASE StopWaiting(w) \/ StopPolling(w) \/ Emit(w)
    <2>1. WorkerEffect(w, "exit")
      BY <1>1, <1>3 DEF StopWaiting, StopPolling, Emit, WorkerEffect, WorkerInGate, Acting
    <2> QED  BY <2>1 DEF WorkerState
  <1>4. CASE EnterDeferredSource(w)
    <2>1. WorkerEffect(w, "exit") \/ WorkerEffect(w, "look")
      BY <1>1, <1>4 DEF EnterDeferredSource, WorkerEffect, WorkerInGate, Acting
    <2> QED  BY <2>1 DEF WorkerState, WorkerInGate
  <1>5. CASE LookUp(w)
    <2>1. WorkerEffect(w, "exit") \/ WorkerEffect(w, "op")
      BY <1>1, <1>5 DEF LookUp, WorkerEffect, WorkerInGate, Acting
    <2> QED  BY <2>1 DEF WorkerState, WorkerInGate, Acting
  <1>6. CASE HandleRetained(w)
    <2>1. WorkerEffect(w, "markHandled") \/ WorkerEffect(w, "wait")
      BY <1>1, <1>6 DEF HandleRetained, WorkerEffect, WorkerInGate, Acting
    <2> QED  BY <2>1 DEF WorkerState, WorkerInGate, Acting
  <1>7. CASE ClearSeen(w)
    <2>1. WorkerEffect(w, "aman") \/ WorkerEffect(w, "wait") \/ WorkerEffect(w, "exit")
      BY <1>1, <1>7 DEF ClearSeen, Failed, WorkerEffect, WorkerInGate, Acting
    <2> QED  BY <2>1 DEF WorkerState, WorkerInGate, Acting
  <1>8. CASE RetractAman(w)
    <2>1. WorkerEffect(w, "mark") \/ WorkerEffect(w, "wait") \/ WorkerEffect(w, "exit")
      BY <1>1, <1>8 DEF RetractAman, Failed, WorkerEffect, WorkerInGate, Acting
    <2> QED  BY <2>1 DEF WorkerState, WorkerInGate, Acting
  <1>9. CASE Mark(w)
    <2>1. marker' \in BOOLEAN /\ due' \in BOOLEAN
      BY <1>1, <1>9, Zenon DEF Mark
    <2>2. WorkerEffect(w, "emit") \/ WorkerEffect(w, "exit")
      BY <1>1, <1>9, <2>1 DEF Mark, WorkerEffect, WorkerInGate, Acting
    <2> QED  BY <2>2 DEF WorkerState, WorkerInGate, Acting
  <1>10. CASE DeleteStrip(w)
    <2>1. due' \in BOOLEAN
      BY <1>1, <1>10, Zenon DEF DeleteStrip
    <2>2. WorkerEffect(w, "wait") \/ WorkerEffect(w, "exit")
      BY <1>1, <1>10, <2>1 DEF DeleteStrip, Failed, WorkerEffect, WorkerInGate, Acting
    <2> QED  BY <2>2 DEF WorkerState, WorkerInGate, Acting
  <1>11. CASE Exit(w)
    <2>1. WorkerEffect(w, "done")
      BY <1>1, <1>11 DEF Exit, WorkerEffect, WorkerInGate, Acting
    <2> QED  BY <2>1 DEF WorkerState
  <1> QED  BY <1>2, <1>3, <1>4, <1>5, <1>6, <1>7, <1>8, <1>9, <1>10, <1>11 DEF WorkerStep

\* Steps of a worker preserve the invariant.
LEMMA WorkerInv ==
    ASSUME IInv, AbsenceAssumption, NEW w \in Workers, WorkerStep(w)
    PROVE  IInv'
  <1>1. PICK s \in WorkerState \ {"none"} : WorkerEffect(w, s)
    BY WorkerStepEffect
  <1>2. /\ GateSource' /\ ActingRegistered' /\ CaptureStale' /\ SourcePast' /\ JoinInv'
        /\ wpc' \in [Workers -> WorkerState] /\ timer' \in 0..started
        /\ \A x \in Workers : (wpc'[x] = "none") <=> (x > started)
    BY <1>1, WorkerMove DEF WorkerEffect, gateVars, handVars, extVars
  <1>3. UNCHANGED <<epoch, alive, writer, started, src, cancelled, hpc, hepoch, hentry, hbar, ext, extSrc, extends>>
    BY <1>1 DEF WorkerEffect, gateVars, handVars, extVars
  <1>4. strip' \in {"shown", "hidden", "deleted"} /\ marker' \in BOOLEAN /\ due' \in BOOLEAN
    BY <1>1 DEF WorkerEffect
  <1>5. TypeOK'
    BY <1>2, <1>3, <1>4 DEF IInv, TypeOK
  <1> QED  BY <1>2, <1>5 DEF IInv

\* Scheduling leaves the workers that exist alone; a new one waits, registered
\* in place of one that does not act.
LEMMA ScheduleFacts ==
    ASSUME IInv, AbsenceAssumption, NEW source \in Nat, source <= epoch, Schedule(source),
           UNCHANGED epoch,
           timer # 0 /\ src[timer] # source => wpc[timer] \notin Acting
    PROVE  /\ started' \in 0..MaxWorkers /\ started <= started'
           /\ timer' \in 0..started' /\ cancelled' \subseteq 1..started'
           /\ wpc' \in [Workers -> WorkerState] /\ src' \in [Workers -> Nat]
           /\ \A w \in Workers : (wpc'[w] = "none") <=> (w > started')
           /\ \A w \in Workers : w <= started => wpc'[w] = wpc[w] /\ (timer' = w => timer = w)
           /\ \A w \in Workers : (wpc'[w] = wpc[w] /\ src'[w] = src[w]) \/ wpc'[w] = "wait"
           /\ GateSource' /\ ActingRegistered'
           /\ \A w \in Workers : src'[w] <= epoch
  <1>1. /\ wpc \in [Workers -> WorkerState] /\ src \in [Workers -> Nat] /\ timer \in 0..started
        /\ started \in 0..MaxWorkers /\ cancelled \subseteq 1..started /\ epoch \in Nat
        /\ \A w \in Workers : (wpc[w] = "none") <=> (w > started)
        /\ \A w \in Workers : src[w] <= epoch
    BY DEF IInv, TypeOK, SourcePast
  <1>2. CASE UNCHANGED <<timer, cancelled, workVars>>
    <2>1. UNCHANGED <<timer, cancelled, started, wpc, src>>
      BY <1>2 DEF workVars
    <2> QED  BY <1>1, <2>1 DEF IInv, GateSource, ActingRegistered, AbsenceAssumption
  <1>3. CASE ~UNCHANGED <<timer, cancelled, workVars>>
    <2>1. /\ started < MaxWorkers /\ started' = started + 1 /\ timer' = started + 1
          /\ wpc' = [wpc EXCEPT ![started + 1] = "wait"]
          /\ src' = [src EXCEPT ![started + 1] = source]
          /\ cancelled' = IF timer = 0 THEN cancelled ELSE cancelled \cup {timer}
          /\ timer = 0 \/ src[timer] # source
      BY <1>3 DEF Schedule, StartWorker
    <2>2. started + 1 \in Workers /\ started' \in 0..MaxWorkers
      BY <1>1, <2>1 DEF Workers, AbsenceAssumption
    <2>3. \A w \in Workers : /\ wpc'[w] = IF w = started + 1 THEN "wait" ELSE wpc[w]
                             /\ src'[w] = IF w = started + 1 THEN source ELSE src[w]
      BY <1>1, <2>1, <2>2
    <2>4. wpc' \in [Workers -> WorkerState] /\ src' \in [Workers -> Nat]
      BY <1>1, <2>1, <2>2 DEF WorkerState
    <2>5. timer' \in 0..started' /\ cancelled' \subseteq 1..started'
      BY <1>1, <2>1 DEF AbsenceAssumption
    <2>6. \A w \in Workers : w \in Nat
      BY DEF Workers, AbsenceAssumption
    <2>7. \A w \in Workers : (wpc'[w] = "none") <=> (w > started')
      BY <1>1, <2>1, <2>3, <2>6 DEF AbsenceAssumption
    <2>8. \A w \in Workers : w <= started => wpc'[w] = wpc[w] /\ (timer' = w => timer = w)
      BY <1>1, <2>1, <2>3, <2>6 DEF AbsenceAssumption
    <2>9. GateSource'
      BY <2>3 DEF IInv, GateSource, WorkerInGate, Acting
    <2>10. ActingRegistered'
      <3> SUFFICES ASSUME NEW w \in Workers, wpc'[w] \in Acting PROVE FALSE
        BY DEF ActingRegistered
      <3>1. wpc[w] \in Acting
        BY <2>3 DEF Acting
      <3>2. timer = w
        BY <3>1 DEF IInv, ActingRegistered
      <3>3. timer # 0
        BY <3>2 DEF Workers
      <3> QED  BY <2>1, <3>1, <3>2, <3>3
    <2> QED  BY <1>1, <2>1, <2>2, <2>3, <2>4, <2>5, <2>7, <2>8, <2>9, <2>10 DEF AbsenceAssumption
  <1> QED  BY <1>2, <1>3

\* Handlers' entries stay joined when workers are added.
LEMMA ScheduleJoin ==
    ASSUME IInv, AbsenceAssumption,
           \A w \in Workers : w <= started => wpc'[w] = wpc[w] /\ (timer' = w => timer = w),
           UNCHANGED <<hentry, hbar>>,
           \A h \in Handlers : hpc'[h] \in {"join", "apply"} => hpc'[h] = hpc[h]
    PROVE  JoinInv'
  <1> SUFFICES ASSUME NEW h \in Handlers, hpc'[h] \in {"join", "apply"}
               PROVE  /\ \A w \in Workers : w <= hbar[h] => w = hentry[h] \/ timer' # w
                      /\ hpc'[h] = "join" => hentry[h] # 0
                      /\ hpc'[h] = "apply" => hentry[h] = 0 \/ wpc'[hentry[h]] = "done"
    BY DEF JoinInv
  <1>1. hpc'[h] = hpc[h]
    OBVIOUS
  <1>2. hbar[h] \in 0..started /\ hentry[h] \in 0..started /\ started \in 0..MaxWorkers
    BY DEF IInv, TypeOK
  <1>3. \A w \in Workers : w <= hbar[h] => w <= started
    BY <1>2 DEF Workers, AbsenceAssumption
  <1>4. hentry[h] = 0 \/ (hentry[h] \in Workers /\ hentry[h] <= started)
    BY <1>2 DEF Workers, AbsenceAssumption
  <1> QED  BY <1>1, <1>3, <1>4 DEF IInv, JoinInv

\* Steps of a handler preserve the invariant.
LEMMA HandlerInv ==
    ASSUME IInv, AbsenceAssumption, NEW h \in Handlers, Receive(h) \/ HandlerStep(h)
    PROVE  IInv'
  <1>1. CASE Receive(h) \/ EnterGate(h) \/ ApplySeen(h)
    <2>1. /\ UNCHANGED <<epoch, alive, writer, timer, marker, cancelled, started, wpc, src, ext, extSrc, extends, due>>
          /\ hpc' \in [Handlers -> HandlerState] /\ hepoch' \in [Handlers -> Nat]
          /\ strip' \in {"shown", "hidden", "deleted"}
      BY <1>1 DEF Receive, EnterGate, ApplySeen, gateVars, workVars, extVars, IInv, TypeOK,
                  HandlerState, HandlerInGate
    <2>2. hentry' \in [Handlers -> 0..started] /\ hbar' \in [Handlers -> 0..started]
      BY <1>1 DEF Receive, EnterGate, ApplySeen, IInv, TypeOK, AbsenceAssumption
    <2>3. \A x \in Handlers : hpc'[x] \in {"join", "apply"} =>
              hpc'[x] = hpc[x] /\ hentry'[x] = hentry[x] /\ hbar'[x] = hbar[x]
      BY <1>1 DEF Receive, EnterGate, ApplySeen, IInv, TypeOK
    <2>4. TypeOK'
      BY <2>1, <2>2 DEF IInv, TypeOK
    <2>5. JoinInv'
      BY <2>1, <2>3 DEF IInv, JoinInv
    <2> QED  BY <2>1, <2>4, <2>5 DEF IInv, GateSource, ActingRegistered, CaptureStale, SourcePast
  <1>2. CASE ReportAbsent(h)
    <2>1. /\ UNCHANGED <<epoch, alive, writer, strip, marker, hepoch, hentry, hbar, ext, extSrc, extends>>
          /\ hpc' = [hpc EXCEPT ![h] = "idle"]
      BY <1>2 DEF ReportAbsent, gateVars, extVars
    <2>2. hpc' \in [Handlers -> HandlerState]
          /\ \A x \in Handlers : hpc'[x] \in {"join", "apply"} => hpc'[x] = hpc[x]
      BY <2>1 DEF IInv, TypeOK, HandlerState
    <2>3. due' \in BOOLEAN
      <3>1. marker \in BOOLEAN /\ due \in BOOLEAN
        BY DEF IInv, TypeOK
      <3> QED  BY <1>2, <3>1, Zenon DEF ReportAbsent
    <2>4. CASE Schedule(epoch)
      <3>1. epoch \in Nat /\ epoch <= epoch
        BY DEF IInv, TypeOK
      <3>2. timer # 0 /\ src[timer] # epoch => wpc[timer] \notin Acting
        <4>1. timer = 0 \/ timer \in Workers
          BY DEF IInv, TypeOK, Workers, AbsenceAssumption
        <4> QED  BY <4>1 DEF IInv, GateSource, WorkerInGate
      <3>3. /\ started' \in 0..MaxWorkers /\ started <= started'
            /\ timer' \in 0..started' /\ cancelled' \subseteq 1..started'
            /\ wpc' \in [Workers -> WorkerState] /\ src' \in [Workers -> Nat]
            /\ \A w \in Workers : (wpc'[w] = "none") <=> (w > started')
            /\ \A w \in Workers : w <= started => wpc'[w] = wpc[w] /\ (timer' = w => timer = w)
            /\ \A w \in Workers : (wpc'[w] = wpc[w] /\ src'[w] = src[w]) \/ wpc'[w] = "wait"
            /\ GateSource' /\ ActingRegistered'
            /\ \A w \in Workers : src'[w] <= epoch
        BY <2>1, <2>4, <3>1, <3>2, ScheduleFacts
      <3>4. JoinInv'
        BY <2>1, <2>2, <3>3, ScheduleJoin
      <3>5. CaptureStale'
        BY <2>1, <3>3 DEF IInv, CaptureStale, WorkerInGate, Acting
      <3>6. SourcePast'
        BY <2>1, <3>3 DEF IInv, SourcePast
      <3>7. hentry' \in [Handlers -> 0..started'] /\ hbar' \in [Handlers -> 0..started']
        <4>1. hentry \in [Handlers -> 0..started] /\ hbar \in [Handlers -> 0..started] /\ started \in 0..MaxWorkers
          BY DEF IInv, TypeOK
        <4>2. 0..started \subseteq 0..started'
          BY <3>3, <4>1 DEF AbsenceAssumption
        <4> QED  BY <2>1, <4>1, <4>2
      <3>8. TypeOK'
        BY <2>1, <2>2, <2>3, <3>3, <3>7 DEF IInv, TypeOK
      <3> QED  BY <3>3, <3>4, <3>5, <3>6, <3>8 DEF IInv
    <2>5. CASE UNCHANGED <<timer, cancelled, workVars>>
      <3>1. UNCHANGED <<timer, cancelled, started, wpc, src>>
        BY <2>5 DEF workVars
      <3>2. TypeOK'
        BY <2>1, <2>2, <2>3, <3>1 DEF IInv, TypeOK
      <3>3. JoinInv'
        BY <2>1, <2>2, <3>1 DEF IInv, JoinInv
      <3> QED  BY <2>1, <3>1, <3>2, <3>3 DEF IInv, GateSource, ActingRegistered, CaptureStale, SourcePast
    <2> QED  BY <1>2, <2>4, <2>5 DEF ReportAbsent
  <1>3. CASE CancelPending(h)
    <2>1. /\ UNCHANGED <<epoch, alive, writer, strip, timer, started, wpc, src, hepoch, ext, extSrc, extends>>
          /\ hpc' = [hpc EXCEPT ![h] = IF timer = 0 THEN "apply" ELSE "join"]
          /\ hentry' = [hentry EXCEPT ![h] = timer] /\ hbar' = [hbar EXCEPT ![h] = started]
          /\ cancelled' = IF timer = 0 THEN cancelled ELSE cancelled \cup {timer}
      BY <1>3 DEF CancelPending, gateVars, workVars, extVars
    <2>2. marker' \in BOOLEAN /\ due' \in BOOLEAN
      BY <1>3, Zenon DEF CancelPending
    <2>3. timer \in 0..started /\ started \in 0..MaxWorkers /\ cancelled \subseteq 1..started
      BY DEF IInv, TypeOK
    <2>4. cancelled' \subseteq 1..started
      BY <2>1, <2>3 DEF AbsenceAssumption
    <2>5. /\ hpc' \in [Handlers -> HandlerState]
          /\ hentry' \in [Handlers -> 0..started] /\ hbar' \in [Handlers -> 0..started]
      BY <2>1, <2>3 DEF IInv, TypeOK, HandlerState, HandlerInGate, AbsenceAssumption
    <2>6. TypeOK'
      BY <2>1, <2>2, <2>4, <2>5 DEF IInv, TypeOK
    <2>7. JoinInv'
      <3> SUFFICES ASSUME NEW x \in Handlers
                   PROVE  /\ hpc'[x] \in {"join", "apply"} =>
                                \A w \in Workers : w <= hbar'[x] => w = hentry'[x] \/ timer # w
                          /\ hpc'[x] = "join" => hentry'[x] # 0
                          /\ hpc'[x] = "apply" => hentry'[x] = 0 \/ wpc[hentry'[x]] = "done"
        BY <2>1 DEF JoinInv
      <3>1. CASE x = h
        BY <2>1, <3>1 DEF IInv, TypeOK
      <3>2. CASE x # h
        <4>1. hpc'[x] = hpc[x] /\ hentry'[x] = hentry[x] /\ hbar'[x] = hbar[x]
          BY <2>1, <3>2 DEF IInv, TypeOK
        <4> QED  BY <4>1 DEF IInv, JoinInv
      <3> QED  BY <3>1, <3>2
    <2> QED  BY <2>1, <2>6, <2>7 DEF IInv, GateSource, ActingRegistered, CaptureStale, SourcePast
  <1>4. CASE Joined(h)
    <2>1. /\ UNCHANGED <<epoch, alive, writer, strip, timer, marker, cancelled, started, wpc, src, hepoch,
                         hentry, hbar, ext, extSrc, extends, due>>
          /\ hpc[h] = "join" /\ wpc[hentry[h]] = "done"
          /\ hpc' = [hpc EXCEPT ![h] = "apply"]
      BY <1>4 DEF Joined, gateVars, workVars, extVars
    <2>2. TypeOK'
      BY <2>1 DEF IInv, TypeOK, HandlerState, HandlerInGate
    <2>3. \A x \in Handlers : hpc'[x] = IF x = h THEN "apply" ELSE hpc[x]
      BY <2>1 DEF IInv, TypeOK
    <2>4. JoinInv'
      BY <2>1, <2>3 DEF IInv, JoinInv
    <2> QED  BY <2>1, <2>2, <2>4 DEF IInv, GateSource, ActingRegistered, CaptureStale, SourcePast
  <1> QED  BY <1>1, <1>2, <1>3, <1>4 DEF HandlerStep

\* Elections, and extendSessionTimers, preserve the invariant.
LEMMA ElectionInv ==
    ASSUME IInv, AbsenceAssumption,
           MasterCloses \/ ElectWaits \/ Elect \/ ExtendSnapshot \/ ExtendCapture \/ ExtendSchedule
    PROVE  IInv'
  <1>1. CASE MasterCloses \/ ElectWaits
    <2>1. UNCHANGED <<epoch, strip, timer, marker, cancelled, started, wpc, src, hpc, hepoch, hentry, hbar,
                      ext, extSrc, extends, due>>
      BY <1>1 DEF MasterCloses, ElectWaits, workVars, handVars, extVars
    <2>2. alive' \in BOOLEAN /\ writer' \in BOOLEAN
      <3>1. alive \in BOOLEAN /\ writer \in BOOLEAN
        BY DEF IInv, TypeOK
      <3> QED  BY <1>1, <3>1, Zenon DEF MasterCloses, ElectWaits
    <2>3. TypeOK'
      BY <2>1, <2>2 DEF IInv, TypeOK
    <2> QED  BY <2>1, <2>3 DEF IInv, GateSource, ActingRegistered, CaptureStale, SourcePast, JoinInv
  <1>2. CASE Elect
    <2>1. /\ Readers = {} /\ epoch' = epoch + 1 /\ timer' = 0
          /\ cancelled' = IF timer = 0 THEN cancelled ELSE cancelled \cup {timer}
          /\ UNCHANGED <<strip, marker, started, wpc, src, hpc, hepoch, hentry, hbar, extSrc>>
      BY <1>2 DEF Elect, workVars, handVars, extVars
    <2>2. alive' \in BOOLEAN /\ writer' \in BOOLEAN /\ due' \in BOOLEAN
      BY <1>2, Zenon DEF Elect
    <2>3. ext' \in {"idle", "called", "snapped", "captured"} /\ extends' \in 0..MaxExtends
      BY <1>2 DEF Elect, extVars, IInv, TypeOK, AbsenceAssumption
    <2>4. /\ timer \in 0..started /\ started \in 0..MaxWorkers /\ epoch \in Nat
          /\ cancelled \subseteq 1..started
      BY DEF IInv, TypeOK
    <2>5. timer' \in 0..started /\ cancelled' \subseteq 1..started /\ epoch' \in Nat
      BY <2>1, <2>4 DEF AbsenceAssumption
    <2>6. TypeOK'
      BY <2>1, <2>2, <2>3, <2>5 DEF IInv, TypeOK
    <2>7. \A w \in Workers : wpc[w] \notin WorkerInGate
      BY <2>1 DEF Readers
    <2>8. GateSource' /\ ActingRegistered'
      BY <2>1, <2>7 DEF GateSource, ActingRegistered, WorkerInGate
    <2>9. SourcePast'
      BY <2>1, <2>4 DEF IInv, SourcePast, TypeOK
    <2>10. CaptureStale'
      <3>1. \A w \in Workers : src[w] \in Nat /\ src[w] <= epoch
        BY DEF IInv, TypeOK, SourcePast
      <3>2. \A w \in Workers : src'[w] # epoch'
        BY <2>1, <2>4, <3>1
      <3> QED  BY <3>2 DEF CaptureStale
    <2>11. JoinInv'
      <3>1. \A w \in Workers : w # 0
        BY DEF Workers
      <3> QED  BY <2>1, <3>1 DEF IInv, JoinInv
    <2> QED  BY <2>6, <2>8, <2>9, <2>10, <2>11 DEF IInv
  <1>3. CASE ExtendSnapshot \/ ExtendCapture
    <2>1. UNCHANGED <<epoch, alive, writer, strip, timer, marker, cancelled, started, wpc, src, hpc, hepoch,
                      hentry, hbar, extends, due>>
      BY <1>3 DEF ExtendSnapshot, ExtendCapture, gateVars, workVars, handVars
    <2>2. /\ ext' \in {"idle", "called", "snapped", "captured"} /\ extSrc' \in Nat
          /\ extSrc' <= epoch
          /\ ext' = "captured" => extSrc' = epoch
      BY <1>3 DEF ExtendSnapshot, ExtendCapture, IInv, TypeOK, SourcePast
    <2>3. TypeOK'
      BY <2>1, <2>2 DEF IInv, TypeOK
    <2> QED  BY <2>1, <2>2, <2>3 DEF IInv, GateSource, ActingRegistered, CaptureStale, SourcePast, JoinInv
  <1>4. CASE ExtendSchedule
    <2>1. /\ ext = "captured" /\ ext' = "idle" /\ extSrc' = 0
          /\ Schedule(extSrc)
          /\ UNCHANGED <<epoch, alive, writer, strip, marker, hpc, hepoch, hentry, hbar, extends, due>>
      BY <1>4 DEF ExtendSchedule, gateVars, handVars
    <2>2. extSrc \in Nat /\ extSrc <= epoch
      BY DEF IInv, TypeOK, SourcePast
    <2>3. timer # 0 /\ src[timer] # extSrc => wpc[timer] \notin Acting
      <3>1. timer = 0 \/ timer \in Workers
        BY DEF IInv, TypeOK, Workers, AbsenceAssumption
      <3> QED  BY <2>1, <3>1 DEF IInv, GateSource, CaptureStale, WorkerInGate
    <2>4. /\ started' \in 0..MaxWorkers /\ started <= started'
          /\ timer' \in 0..started' /\ cancelled' \subseteq 1..started'
          /\ wpc' \in [Workers -> WorkerState] /\ src' \in [Workers -> Nat]
          /\ \A w \in Workers : (wpc'[w] = "none") <=> (w > started')
          /\ \A w \in Workers : w <= started => wpc'[w] = wpc[w] /\ (timer' = w => timer = w)
          /\ GateSource' /\ ActingRegistered'
          /\ \A w \in Workers : src'[w] <= epoch
      BY <2>1, <2>2, <2>3, ScheduleFacts
    <2>5. JoinInv'
      BY <2>1, <2>4, ScheduleJoin
    <2>6. SourcePast' /\ CaptureStale'
      BY <2>1, <2>4 DEF IInv, TypeOK, SourcePast, CaptureStale
    <2>7. hentry' \in [Handlers -> 0..started'] /\ hbar' \in [Handlers -> 0..started']
      <3>1. hentry \in [Handlers -> 0..started] /\ hbar \in [Handlers -> 0..started] /\ started \in 0..MaxWorkers
        BY DEF IInv, TypeOK
      <3>2. 0..started \subseteq 0..started'
        BY <2>4, <3>1 DEF AbsenceAssumption
      <3> QED  BY <2>1, <3>1, <3>2
    <2>8. TypeOK'
      BY <2>1, <2>4, <2>7 DEF IInv, TypeOK
    <2> QED  BY <2>4, <2>5, <2>6, <2>8 DEF IInv
  <1> QED  BY <1>1, <1>2, <1>3, <1>4

\* Every step preserves the invariant.
LEMMA NextInv == AbsenceAssumption /\ IInv /\ [Next]_vars => IInv'
  <1> SUFFICES ASSUME AbsenceAssumption, IInv, [Next]_vars PROVE IInv'
    OBVIOUS
  <1>1. CASE UNCHANGED vars
    <2>1. UNCHANGED <<epoch, alive, writer, strip, timer, marker, cancelled, started, wpc, src, hpc, hepoch,
                      hentry, hbar, ext, extSrc, extends, due>>
      BY <1>1 DEF vars, gateVars, workVars, handVars, extVars
    <2>2. TypeOK'
      BY <2>1 DEF IInv, TypeOK
    <2> QED  BY <2>1, <2>2 DEF IInv, GateSource, ActingRegistered, CaptureStale, SourcePast, JoinInv
  <1>2. CASE Next
    BY <1>2, ElectionInv, HandlerInv, WorkerInv DEF Next
  <1> QED  BY <1>1, <1>2

\* The invariant holds in every reachable state.
THEOREM AbsenceInvariant == Spec => []IInv
  BY AbsenceAssumption, InitInv, NextInv, PTL DEF Spec

\* Type correctness of the deferred removal.
THEOREM AbsenceTypeOK == Spec => []TypeOK
  BY AbsenceInvariant, PTL DEF IInv

\* A strip is removed on behalf of the current election's master only: a worker
\* of a former master never gets past the gate.
THEOREM AbsenceSourceCurrent == Spec => []SourceCurrent
  <1>1. IInv => SourceCurrent
    BY DEF IInv, GateSource, SourceCurrent, WorkerInGate
  <1> QED  BY <1>1, AbsenceInvariant, PTL

\* When cancelAircraftDisconnect returns, no earlier worker can still change
\* the strip or announce a disconnect: the joined one is done, and no other
\* can be the registered one.
THEOREM AbsenceCancelJoined == Spec => []CancelJoined
  <1>1. IInv => CancelJoined
    <2> SUFFICES ASSUME IInv, NEW h \in Handlers, hpc[h] = "apply",
                        NEW w \in Workers, w <= hbar[h], wpc[w] \in Acting
                 PROVE  FALSE
      BY DEF CancelJoined
    <2>1. timer = w
      BY DEF IInv, ActingRegistered
    <2>2. w = hentry[h] /\ (hentry[h] = 0 \/ wpc[hentry[h]] = "done")
      BY <2>1 DEF IInv, JoinInv
    <2>3. w # 0
      BY DEF Workers
    <2> QED  BY <2>2, <2>3 DEF Acting
  <1> QED  BY <1>1, AbsenceInvariant, PTL

-----------------------------------------------------------------------------
(* One handler at a time: the last fact of the master decides *)

\* The registered worker belongs to this election.  While it is not cancelled
\* it acts on an absence that still stands, or it has done so and leaves, or
\* its master is gone.  A cancelled one is registered only while the handler
\* that cancelled it joins it.
Standing ==
    /\ timer # 0 => wpc[timer] # "done" /\ src[timer] = epoch
    /\ timer # 0 /\ timer \notin cancelled =>
          /\ wpc[timer] = "emit" => marker
          /\ wpc[timer] = "exit" => marker \/ strip = "deleted" \/ ~alive
          /\ wpc[timer] \notin {"emit", "exit"} => due
    /\ due => ~marker /\ timer \notin cancelled
    /\ due /\ alive /\ strip # "deleted" => timer # 0

\* What the handler, between the cancellation and its end, may rely on.
Joining ==
    \A h \in Handlers :
        /\ hpc[h] = "join" => timer \in {0, hentry[h]}
        /\ hpc[h] = "apply" => timer = 0
        /\ hpc[h] \in {"join", "apply"} => ~due /\ ~marker /\ (timer = 0 \/ timer \in cancelled)
        /\ hpc[h] # "join" => timer \notin cancelled

\* The strip is hidden from the operation that hides it to the tombstone, and
\* as long as the tombstone is there.
Hiding ==
    /\ timer # 0 /\ wpc[timer] \in {"aman", "mark", "markHandled", "emit"} => strip = "hidden"
    /\ TombstoneHidden

Serial == ext = "idle" /\ Standing /\ Joining /\ Hiding

\* At most one handler.
OneHandler == \A g, h \in Handlers : g = h

\* The registered worker is one of the started workers, and 0 is none.
LEMMA Registered ==
    ASSUME IInv, AbsenceAssumption
    PROVE  /\ timer # 0 => timer \in Workers
           /\ 0 \notin Workers /\ 0 \notin cancelled /\ started \in Nat
           /\ wpc \in [Workers -> WorkerState] /\ src \in [Workers -> Nat]
           /\ cancelled \subseteq 1..started
  BY DEF IInv, TypeOK, Workers, AbsenceAssumption

\* A worker that is not registered does not act: its steps change nothing the
\* invariant speaks of.
LEMMA BystanderSerial ==
    ASSUME IInv, AbsenceAssumption, Serial, NEW w \in Workers, WorkerStep(w), timer # w
    PROVE  Serial'
  <1>1. wpc[w] \notin Acting
    BY DEF IInv, ActingRegistered
  <1>2. /\ UNCHANGED <<alive, epoch, strip, timer, marker, cancelled, src, hpc, hentry, ext, due>>
        /\ \E s : wpc' = [wpc EXCEPT ![w] = s]
    BY <1>1
    DEF WorkerStep, Fire, StopWaiting, StopPolling, EnterDeferredSource, LookUp, HandleRetained, ClearSeen,
        RetractAman, Mark, Emit, DeleteStrip, Exit, Goto, Acting, gateVars, handVars, extVars
  <1>3. timer # 0 => wpc'[timer] = wpc[timer]
    BY <1>2, Registered
  <1> QED  BY <1>2, <1>3 DEF Serial, Standing, Joining, Hiding, TombstoneHidden

\* What a step of the registered worker has to show.
LEMMA ActorSerial ==
    ASSUME IInv, AbsenceAssumption, Serial, NEW w \in Workers, timer = w, NEW s \in WorkerState \ {"done"},
           wpc' = [wpc EXCEPT ![w] = s],
           UNCHANGED <<alive, epoch, timer, cancelled, src, hpc, hentry, ext>>,
           w \notin cancelled =>
              /\ s = "emit" => marker'
              /\ s = "exit" => marker' \/ strip' = "deleted" \/ ~alive
              /\ s \notin {"emit", "exit"} => due',
           due' => due /\ ~marker',
           w \in cancelled => ~marker' \/ marker,
           s \in {"aman", "mark", "markHandled", "emit"} => strip' = "hidden",
           marker' => strip' # "shown",
           strip' = strip \/ strip' \in {"hidden", "deleted"}
    PROVE  Serial'
  <1>1. wpc'[w] = s /\ w # 0
    BY Registered
  <1>2. Standing'
    BY <1>1 DEF Serial, Standing
  <1>3. Joining'
    BY <1>1, Registered DEF Serial, Joining
  <1>4. Hiding'
    BY <1>1 DEF Serial, Hiding, TombstoneHidden
  <1> QED  BY <1>2, <1>3, <1>4 DEF Serial

\* The steps of the registered worker.
LEMMA WorkerSerial ==
    ASSUME IInv, AbsenceAssumption, Serial, NEW w \in Workers, WorkerStep(w)
    PROVE  Serial'
  <1>1. CASE timer # w
    BY <1>1, BystanderSerial
  <1>2. CASE timer = w
    <2>0. /\ w # 0 /\ src[w] = epoch /\ wpc \in [Workers -> WorkerState] /\ wpc[w] # "done"
          /\ w \notin cancelled =>
                /\ wpc[w] = "emit" => marker
                /\ wpc[w] = "exit" => marker \/ strip = "deleted" \/ ~alive
                /\ wpc[w] \notin {"emit", "exit"} => due
          /\ due => ~marker /\ w \notin cancelled
          /\ wpc[w] \in {"aman", "mark", "markHandled", "emit"} => strip = "hidden"
          /\ marker => strip # "shown"
      BY <1>2, Registered DEF Serial, Standing, Hiding, TombstoneHidden
    <2>1. UNCHANGED <<alive, epoch, cancelled, src, hpc, hentry, ext>>
      BY DEF WorkerStep, Fire, StopWaiting, StopPolling, EnterDeferredSource, LookUp, HandleRetained, ClearSeen,
             RetractAman, Mark, Emit, DeleteStrip, Exit, gateVars, handVars, extVars
    <2>s. \A s \in {"wait", "poll", "exit", "look", "op", "aman", "mark", "markHandled", "emit"} :
             s \in WorkerState \ {"done"}
      BY DEF WorkerState, WorkerInGate, Acting
    \* Steps that only move on, or leave because they must.
    <2>2. ASSUME NEW s \in {"wait", "poll", "look", "op", "mark", "exit"}, Goto(w, s),
                 wpc[w] \notin {"emit", "exit"},
                 s = "exit" => w \in cancelled \/ ~alive,
                 s = "mark" => wpc[w] = "aman",
                 UNCHANGED <<strip, timer, marker, due>>
          PROVE  Serial'
      BY <1>2, <2>0, <2>1, <2>2, <2>s, ActorSerial DEF Goto
    <2>3. CASE Fire(w)
      BY <2>2, <2>3 DEF Fire
    <2>4. CASE StopWaiting(w) \/ StopPolling(w)
      BY <2>2, <2>4 DEF StopWaiting, StopPolling
    <2>5. CASE EnterDeferredSource(w)
      BY <2>0, <2>2, <2>5 DEF EnterDeferredSource
    <2>6. CASE LookUp(w)
      BY <1>2, <2>2, <2>6 DEF LookUp
    <2>7. CASE HandleRetained(w) \/ ClearSeen(w)
      <3>1. wpc[w] = "op" /\ UNCHANGED <<timer, marker, due>>
        BY <2>7 DEF HandleRetained, ClearSeen
      <3>2. CASE UNCHANGED strip /\ (Goto(w, "wait") \/ Failed(w))
        BY <2>2, <3>1, <3>2 DEF Failed
      <3>3. CASE strip' = "hidden" /\ (Goto(w, "markHandled") \/ Goto(w, "aman"))
        BY <1>2, <2>0, <2>1, <2>s, <3>1, <3>3, ActorSerial DEF Goto
      <3> QED  BY <2>7, <3>2, <3>3 DEF HandleRetained, ClearSeen
    <2>8. CASE RetractAman(w)
      BY <2>2, <2>8 DEF RetractAman, Failed
    <2>9. CASE Mark(w)
      <3>1. wpc[w] \in {"mark", "markHandled"} /\ UNCHANGED <<strip, timer>>
        BY <2>9 DEF Mark
      <3>2. CASE w \in cancelled
        BY <1>2, <2>2, <2>9, <3>1, <3>2 DEF Mark
      <3>3. CASE w \notin cancelled
        <4>1. marker' /\ ~due' /\ (Goto(w, "emit") \/ Goto(w, "exit"))
          BY <1>2, <2>9, <3>3 DEF Mark
        <4> QED  BY <1>2, <2>0, <2>1, <2>s, <3>1, <3>3, <4>1, ActorSerial DEF Goto
      <3> QED  BY <3>2, <3>3
    <2>10. CASE Emit(w)
      <3>1. wpc[w] = "emit" /\ Goto(w, "exit") /\ UNCHANGED <<strip, timer, marker, due>>
        BY <2>10 DEF Emit
      <3> QED  BY <1>2, <2>0, <2>1, <2>s, <3>1, ActorSerial DEF Goto
    <2>11. CASE DeleteStrip(w)
      <3>1. wpc[w] = "op" /\ UNCHANGED <<timer, marker>>
        BY <2>11 DEF DeleteStrip
      <3>2. CASE UNCHANGED <<strip, due>> /\ Failed(w)
        BY <2>2, <3>1, <3>2 DEF Failed
      <3>3. CASE strip' = "deleted" /\ Goto(w, "exit") /\ ~due'
        BY <1>2, <2>0, <2>1, <2>s, <3>1, <3>3, ActorSerial DEF Goto
      <3> QED  BY <1>2, <2>11, <3>2, <3>3 DEF DeleteStrip
    <2>12. CASE Exit(w)
      <3>1. wpc[w] = "exit" /\ timer' = 0 /\ UNCHANGED <<strip, marker, due>>
        BY <1>2, <2>12 DEF Exit
      <3>2. Standing'
        BY <2>0, <2>1, <3>1, Registered DEF Standing
      <3>3. Joining'
        BY <2>1, <3>1, Registered DEF Serial, Joining
      <3>4. Hiding'
        BY <3>1 DEF Serial, Hiding, TombstoneHidden
      <3> QED  BY <2>1, <3>2, <3>3, <3>4 DEF Serial
    <2> QED  BY <2>3, <2>4, <2>5, <2>6, <2>7, <2>8, <2>9, <2>10, <2>11, <2>12 DEF WorkerStep
  <1> QED  BY <1>1, <1>2

\* The handler's steps: an absence registers a worker that stands for it, a
\* sighting has joined the worker before it is applied.
LEMMA HandlerSerial ==
    ASSUME IInv, AbsenceAssumption, Serial, OneHandler, NEW h \in Handlers, Receive(h) \/ HandlerStep(h)
    PROVE  Serial'
  <1>0. /\ timer # 0 => timer \in Workers
        /\ 0 \notin Workers /\ 0 \notin cancelled /\ started \in Nat
        /\ wpc \in [Workers -> WorkerState] /\ src \in [Workers -> Nat]
        /\ cancelled \subseteq 1..started /\ hpc \in [Handlers -> HandlerState]
        /\ hentry \in [Handlers -> 0..started]
    BY Registered DEF IInv, TypeOK
  <1>1. \A g \in Handlers : g = h
    BY DEF OneHandler
  <1>2. UNCHANGED <<alive, epoch, ext>>
    BY DEF Receive, HandlerStep, EnterGate, ReportAbsent, CancelPending, Joined, ApplySeen, gateVars, extVars
  <1>3. CASE Receive(h) \/ EnterGate(h)
    <2>1. /\ UNCHANGED <<strip, timer, marker, cancelled, wpc, src, due>>
          /\ hpc[h] \in {"idle", "seen", "absent"}
      BY <1>3 DEF Receive, EnterGate, workVars
    <2>2. hpc'[h] \notin {"join", "apply"}
      BY <1>0, <1>3 DEF Receive, EnterGate
    <2>3. Joining'
      BY <1>1, <2>1, <2>2 DEF Serial, Joining
    <2> QED  BY <1>2, <2>1, <2>3 DEF Serial, Standing, Hiding, TombstoneHidden
  <1>4. CASE ReportAbsent(h)
    <2>1. hpc[h] = "schedule" /\ hpc' = [hpc EXCEPT ![h] = "idle"] /\ UNCHANGED <<strip, marker>>
      BY <1>4 DEF ReportAbsent
    <2>2. hpc'[h] = "idle" /\ timer \notin cancelled
      BY <1>0, <2>1 DEF Serial, Joining
    <2>3. CASE UNCHANGED <<timer, cancelled, workVars>> /\ UNCHANGED due
      <3>1. Joining'
        BY <1>1, <2>2, <2>3 DEF Joining
      <3> QED  BY <1>2, <2>1, <2>3, <3>1 DEF Serial, Standing, Hiding, TombstoneHidden, workVars
    <2>4. CASE UNCHANGED <<timer, cancelled, workVars>> /\ due' = ~marker /\ (marker \/ timer # 0)
      <3>1. Joining'
        BY <1>1, <2>2, <2>4 DEF Joining
      <3>2. Standing'
        BY <1>2, <2>1, <2>2, <2>4 DEF Serial, Standing, workVars
      <3> QED  BY <1>2, <2>1, <2>4, <3>1, <3>2 DEF Serial, Hiding, TombstoneHidden, workVars
    <2>5. CASE /\ ~marker /\ due' = ~marker /\ timer = 0 /\ cancelled' = cancelled
               /\ StartWorker(epoch)
      <3>1. /\ started < MaxWorkers /\ timer' = started + 1
            /\ wpc' = [wpc EXCEPT ![started + 1] = "wait"]
            /\ src' = [src EXCEPT ![started + 1] = epoch]
        BY <2>5 DEF StartWorker
      <3>2. started + 1 \in Workers /\ started + 1 # 0 /\ started + 1 \notin cancelled
        BY <1>0, <3>1 DEF Workers, AbsenceAssumption
      <3>3. wpc'[timer'] = "wait" /\ src'[timer'] = epoch
        BY <1>0, <3>1, <3>2
      <3>4. Joining'
        BY <1>1, <2>2, <2>5, <3>1, <3>2 DEF Joining
      <3>5. Standing'
        BY <1>2, <2>1, <2>5, <3>1, <3>2, <3>3 DEF Standing
      <3>6. Hiding'
        BY <2>1, <3>3 DEF Serial, Hiding, TombstoneHidden
      <3> QED  BY <1>2, <3>4, <3>5, <3>6 DEF Serial
    <2>6. timer # 0 => src[timer] = epoch
      BY DEF Serial, Standing
    <2> QED  BY <1>4, <2>3, <2>4, <2>5, <2>6 DEF ReportAbsent, Schedule
  <1>5. CASE CancelPending(h)
    <2>1. /\ UNCHANGED <<strip, timer, wpc, src>> /\ ~marker' /\ ~due'
          /\ cancelled' = IF timer = 0 THEN cancelled ELSE cancelled \cup {timer}
          /\ hentry' = [hentry EXCEPT ![h] = timer]
          /\ hpc' = [hpc EXCEPT ![h] = IF timer = 0 THEN "apply" ELSE "join"]
      BY <1>5 DEF CancelPending, workVars
    <2>2. hentry'[h] = timer /\ hpc'[h] = (IF timer = 0 THEN "apply" ELSE "join")
      BY <1>0, <2>1
    <2>3. Joining'
      BY <1>0, <1>1, <2>1, <2>2 DEF Joining
    <2>4. Standing'
      BY <1>2, <2>1 DEF Serial, Standing
    <2>5. Hiding'
      BY <2>1 DEF Serial, Hiding, TombstoneHidden
    <2> QED  BY <1>2, <2>3, <2>4, <2>5 DEF Serial
  <1>6. CASE Joined(h)
    <2>1. /\ UNCHANGED <<strip, timer, marker, cancelled, wpc, src, hentry, due>>
          /\ hpc[h] = "join" /\ wpc[hentry[h]] = "done" /\ hpc' = [hpc EXCEPT ![h] = "apply"]
      BY <1>6 DEF Joined, workVars
    <2>2. timer = 0 /\ hpc'[h] = "apply"
      BY <1>0, <2>1 DEF Serial, Standing, Joining
    <2>3. Joining'
      BY <1>0, <1>1, <2>1, <2>2 DEF Serial, Joining
    <2> QED  BY <1>2, <2>1, <2>3 DEF Serial, Standing, Hiding, TombstoneHidden
  <1>7. CASE ApplySeen(h)
    <2>1. /\ UNCHANGED <<timer, marker, cancelled, wpc, src, due>>
          /\ hpc[h] = "apply" /\ hpc' = [hpc EXCEPT ![h] = "idle"]
      BY <1>7 DEF ApplySeen, workVars
    <2>2. timer = 0 /\ ~due /\ ~marker /\ hpc'[h] = "idle"
      BY <1>0, <2>1 DEF Serial, Joining
    <2>3. Joining'
      BY <1>0, <1>1, <2>1, <2>2 DEF Joining
    <2>4. Standing' /\ Hiding'
      BY <2>1, <2>2 DEF Standing, Hiding, TombstoneHidden
    <2> QED  BY <1>2, <2>3, <2>4 DEF Serial
  <1> QED  BY <1>3, <1>4, <1>5, <1>6, <1>7 DEF HandlerStep

\* Every step keeps the serial invariant.
LEMMA SerialNext ==
    ASSUME AbsenceAssumption, OneHandler, MaxExtends = 0, IInv, Serial, [Next]_vars
    PROVE  Serial'
  <1>1. CASE UNCHANGED vars
    BY <1>1 DEF vars, gateVars, workVars, handVars, extVars, Serial, Standing, Joining, Hiding, TombstoneHidden
  <1>2. CASE MasterCloses \/ ElectWaits
    <2>1. /\ UNCHANGED <<epoch, strip, timer, marker, cancelled, wpc, src, hpc, hentry, ext, due>>
          /\ alive' => alive
      BY <1>2 DEF MasterCloses, ElectWaits, workVars, handVars, extVars
    <2> QED  BY <2>1 DEF Serial, Standing, Joining, Hiding, TombstoneHidden
  <1>3. CASE Elect
    <2>1. /\ Readers = {} /\ timer' = 0 /\ ~due' /\ UNCHANGED <<strip, marker, hpc, hentry>>
          /\ cancelled' = IF timer = 0 THEN cancelled ELSE cancelled \cup {timer}
      BY <1>3 DEF Elect, handVars
    <2>2. UNCHANGED ext
      BY <1>3 DEF Elect, extVars, IInv, TypeOK
    <2>3. \A h \in Handlers : hpc[h] \notin {"join", "apply"}
      BY <2>1 DEF Readers, HandlerInGate
    <2>4. 0 \notin cancelled'
      BY <2>1, Registered
    <2>5. Joining'
      BY <2>1, <2>3, <2>4 DEF Joining
    <2>6. Standing' /\ Hiding'
      BY <2>1 DEF Serial, Standing, Hiding, TombstoneHidden
    <2> QED  BY <2>2, <2>5, <2>6 DEF Serial
  <1>4. ~(ExtendSnapshot \/ ExtendCapture \/ ExtendSchedule)
    BY DEF Serial, ExtendSnapshot, ExtendCapture, ExtendSchedule
  <1> QED  BY <1>1, <1>2, <1>3, <1>4, HandlerSerial, WorkerSerial DEF Next

\* The serial invariant holds in every reachable state.
THEOREM AbsenceSerial ==
    ASSUME OneHandler, MaxExtends = 0
    PROVE  Spec => []Serial
  <1>1. Init => Serial
    BY DEF Init, Serial, Standing, Joining, Hiding, TombstoneHidden
  <1>2. IInv /\ Serial /\ [Next]_vars => Serial'
    BY SerialNext, AbsenceAssumption
  <1> QED  BY <1>1, <1>2, AbsenceInvariant, PTL DEF Spec

\* Messages applied one at a time: a recorded absence that nothing contradicts
\* keeps a live worker of this election, across retries and elections.
THEOREM AbsenceIsKept ==
    ASSUME OneHandler, MaxExtends = 0
    PROVE  Spec => []AbsenceKept
  <1>1. Serial => AbsenceKept
    BY DEF Serial, Standing, AbsenceKept
  <1> QED  BY <1>1, AbsenceSerial, PTL

\* Messages applied one at a time: a worker that is not cancelled acts on the
\* last fact of the master.
THEOREM AbsenceActsOnFact ==
    ASSUME OneHandler, MaxExtends = 0
    PROVE  Spec => []ActsOnAbsence
  <1>1. IInv /\ Serial => ActsOnAbsence
    <2> SUFFICES ASSUME IInv, Serial, NEW w \in Workers, wpc[w] \in Acting \ {"emit"}, w \notin cancelled
                 PROVE  due
      BY DEF ActsOnAbsence
    <2>1. timer = w /\ w # 0
      BY AbsenceAssumption, Registered DEF IInv, ActingRegistered
    <2> QED  BY <2>1 DEF Serial, Standing, Acting
  <1> QED  BY <1>1, AbsenceSerial, AbsenceInvariant, PTL

\* Messages applied one at a time: a tombstone is left only on a strip that is
\* not shown, so a later disconnect of a shown strip is never ignored.
THEOREM AbsenceTombstoneHidden ==
    ASSUME OneHandler, MaxExtends = 0
    PROVE  Spec => []TombstoneHidden
  <1>1. Serial => TombstoneHidden
    BY DEF Serial, Hiding
  <1> QED  BY <1>1, AbsenceSerial, PTL

-----------------------------------------------------------------------------
(* Offline timers of controllers *)

\* An offline worker, as scheduleOfflineActions starts it.
WorkerRecord ==
    [pc : WorkerPc, who : Controllers \cup {None}, pos : Where, src : Nat, live : BOOLEAN]

\* The message in work and its handler's local variables.
ReaderRecord ==
    [pc : ReaderPc, who : Controllers \cup {None}, pos : Where, row : Where, todo : SUBSET Controllers,
     listed : [Controllers -> Where], cache : [Controllers -> Where], changed : BOOLEAN]

\* The tables, the master and extendSessionTimers.
BoardTyped ==
    /\ rows \in [Controllers -> Where] /\ seen \in [Controllers -> Where]
    /\ messages \in 0..MaxMessages /\ masterEpoch \in 0..MaxMasters /\ masterAlive \in BOOLEAN
    /\ extending \in {"idle", "called", "collected"}
    /\ collected \subseteq [who : Controllers, pos : Positions]
    /\ sectors \subseteq Configured

\* The message in work, with what each of its steps relies on.
ReaderTyped ==
    /\ reader \in ReaderRecord
    /\ reader.pc \in {"cancel", "read", "write", "offline", "covered"} => reader.who \in Controllers
    /\ reader.pc \in {"cancel", "read", "write"} => reader.pos \in Positions
    /\ reader.pc = "covered" => reader.row \in Configured
    /\ reader.pc = "upsert" => \A c \in reader.todo : reader.listed[c] # None
    /\ reader.pc = "stale" => \A c \in reader.todo : reader.cache[c] # None /\ reader.listed[c] = None

\* The worker a timer names was started for a controller on that timer's
\* position.
TimerNames(k) ==
    timers[k] # 0 => /\ worker[timers[k]].who \in Controllers
                     /\ worker[timers[k]].pos \in Positions
                     /\ Key(worker[timers[k]].pos) = k

\* The timers and their workers.
TimersTyped ==
    /\ scheduled \in 0..MaxTimers
    /\ timers \in [Keys -> 0..scheduled]
    /\ worker \in [OfflineWorkers -> WorkerRecord]
    /\ \A k \in Keys : TimerNames(k)

\* The debouncer.
BounceTyped ==
    /\ opened \in 0..MaxBatches /\ pending \in 0..opened
    /\ armed \subseteq Batches /\ fired \subseteq Batches /\ updating \subseteq Batches

\* The inductive invariant, for every interleaving.
OfflineInv ==
    BoardTyped /\ ReaderTyped /\ TimersTyped /\ BounceTyped /\ LiveWorkerRegistered /\ WindowAlive

\* A worker that keeps its place, its controller and its position.
SameWork(w) ==
    worker'[w].pc = worker[w].pc /\ worker'[w].who = worker[w].who /\ worker'[w].pos = worker[w].pos

\* The timer keys of positions, and workers, are what they should be.
LEMMA KeyType ==
    ASSUME OfflineAssumption, NEW p \in Where
    PROVE  Key(p) \in Keys
  BY DEF Key, Keys, Where, OfflineAssumption

\* What scheduleOfflineActions does to the timers, worker by worker.
LEMMA OfflineScheduleFacts ==
    ASSUME OfflineAssumption, TimersTyped, masterEpoch \in Nat,
           NEW c \in Controllers, NEW p \in Positions, ScheduleOffline(c, p)
    PROVE  /\ scheduled' = scheduled + 1 /\ scheduled' \in OfflineWorkers /\ scheduled' \in 0..MaxTimers
           /\ worker' \in [OfflineWorkers -> WorkerRecord]
           /\ worker'[scheduled'].pc = "wait" /\ worker'[scheduled'].who = c /\ worker'[scheduled'].pos = p
           /\ \A w \in OfflineWorkers \ {scheduled'} :
                 SameWork(w) /\ (worker'[w].live => worker[w].live /\ w # timers[Key(p)])
           /\ timers' \in [Keys -> 0..scheduled']
           /\ timers'[Key(p)] = scheduled'
           /\ \A k \in Keys \ {Key(p)} : timers'[k] = timers[k]
  <1> DEFINE n == scheduled + 1
             old == timers[Key(p)]
             ws == IF old = 0 THEN worker ELSE [worker EXCEPT ![old].live = FALSE]
             r == [pc |-> "wait", who |-> c, pos |-> p, src |-> masterEpoch, live |-> TRUE]
  <1>1. /\ scheduled' = n /\ scheduled < MaxTimers
        /\ worker' = [ws EXCEPT ![n] = r]
        /\ timers' = [timers EXCEPT ![Key(p)] = n]
    BY DEF ScheduleOffline, Cancelled
  <1>2. Key(p) \in Keys
    BY KeyType DEF Where
  <1>3. scheduled \in Nat /\ n \in OfflineWorkers /\ n \in 0..MaxTimers /\ old \in 0..scheduled
    BY <1>1, <1>2 DEF TimersTyped, OfflineWorkers, OfflineAssumption
  <1>4. r \in WorkerRecord
    BY DEF WorkerRecord, WorkerPc, Where
  <1>5. /\ ws \in [OfflineWorkers -> WorkerRecord]
        /\ \A w \in OfflineWorkers :
              /\ ws[w].pc = worker[w].pc /\ ws[w].who = worker[w].who /\ ws[w].pos = worker[w].pos
              /\ ws[w].live => worker[w].live /\ w # old
    <2>0. worker \in [OfflineWorkers -> WorkerRecord] /\ 0 \notin OfflineWorkers
      BY DEF TimersTyped, OfflineWorkers
    <2>1. CASE old = 0
      BY <2>0, <2>1
    <2>2. CASE old # 0
      <3>1. old \in OfflineWorkers
        BY <1>3, <2>2 DEF TimersTyped, OfflineWorkers, OfflineAssumption
      <3>2. ws = [worker EXCEPT ![old] = [worker[old] EXCEPT !.live = FALSE]]
        BY <2>2
      <3>3. worker[old] \in WorkerRecord
        BY <2>0, <3>1
      <3> DEFINE x == [worker[old] EXCEPT !.live = FALSE]
      <3>4. x \in WorkerRecord /\ x.pc = worker[old].pc /\ x.who = worker[old].who /\ x.pos = worker[old].pos /\ ~x.live
        BY <3>3 DEF WorkerRecord
      <3>5. ws = [worker EXCEPT ![old] = x]
        BY <3>2
      <3> HIDE DEF x, ws, old
      <3> QED  BY <2>0, <3>1, <3>4, <3>5
    <2> QED  BY <2>1, <2>2
  <1> HIDE DEF n, ws, r, old
  <1>6. worker' \in [OfflineWorkers -> WorkerRecord] /\ worker'[n] = r /\ \A w \in OfflineWorkers \ {n} : worker'[w] = ws[w]
    BY <1>1, <1>3, <1>4, <1>5
  <1>7. r.pc = "wait" /\ r.who = c /\ r.pos = p
    BY DEF r
  <1>8. timers' \in [Keys -> 0..n] /\ timers'[Key(p)] = n /\ \A k \in Keys \ {Key(p)} : timers'[k] = timers[k]
    <2>1. timers \in [Keys -> 0..scheduled] /\ 0..scheduled \subseteq 0..n /\ n \in 0..n
      BY <1>3 DEF TimersTyped, n
    <2> QED  BY <1>1, <1>2, <2>1
  <1>9. \A w \in OfflineWorkers \ {n} : SameWork(w) /\ (worker'[w].live => worker[w].live /\ w # old)
    BY <1>5, <1>6 DEF SameWork
  <1> QED  BY <1>1, <1>3, <1>6, <1>7, <1>8, <1>9 DEF n, old

\* A schedule keeps the timers and their workers together: the worker it
\* replaces is cancelled.
LEMMA ScheduleKeeps ==
    ASSUME OfflineAssumption, TimersTyped, LiveWorkerRegistered, masterEpoch \in Nat,
           NEW c \in Controllers, NEW p \in Positions, ScheduleOffline(c, p)
    PROVE  TimersTyped' /\ LiveWorkerRegistered'
  <1>1. /\ scheduled' = scheduled + 1 /\ scheduled' \in OfflineWorkers /\ scheduled' \in 0..MaxTimers
        /\ worker' \in [OfflineWorkers -> WorkerRecord]
        /\ worker'[scheduled'].pc = "wait" /\ worker'[scheduled'].who = c /\ worker'[scheduled'].pos = p
        /\ \A w \in OfflineWorkers \ {scheduled'} :
              SameWork(w) /\ (worker'[w].live => worker[w].live /\ w # timers[Key(p)])
        /\ timers' \in [Keys -> 0..scheduled']
        /\ timers'[Key(p)] = scheduled'
        /\ \A k \in Keys \ {Key(p)} : timers'[k] = timers[k]
    BY OfflineScheduleFacts
  <1>2. \A k \in Keys : timers[k] # 0 => timers[k] \in OfflineWorkers \ {scheduled'}
    BY <1>1 DEF TimersTyped, OfflineWorkers, OfflineAssumption
  <1>3. \A k \in Keys : TimerNames(k)'
    BY <1>1, <1>2 DEF TimersTyped, TimerNames, SameWork
  <1>4. LiveWorkerRegistered'
    <2> SUFFICES ASSUME NEW w \in OfflineWorkers, worker'[w].pc \in {"wait", "look"}, worker'[w].live
                 PROVE  timers'[Key(worker'[w].pos)] = w
      BY DEF LiveWorkerRegistered
    <2>1. CASE w = scheduled'
      BY <1>1, <2>1
    <2>2. CASE w # scheduled'
      <3>1. worker[w].pc \in {"wait", "look"} /\ worker[w].live /\ w # timers[Key(p)] /\ worker'[w].pos = worker[w].pos
        BY <1>1, <2>2 DEF SameWork
      <3>2. timers[Key(worker[w].pos)] = w
        BY <3>1 DEF LiveWorkerRegistered
      <3>3. Key(worker[w].pos) \in Keys
        BY KeyType DEF TimersTyped, WorkerRecord
      <3> QED  BY <1>1, <3>1, <3>2, <3>3
    <2> QED  BY <2>1, <2>2
  <1> QED  BY <1>1, <1>3, <1>4 DEF TimersTyped

\* What cancelOfflineTimer does, worker by worker.
LEMMA CancelFacts ==
    ASSUME OfflineAssumption, TimersTyped, NEW p \in Where, CancelTimer(p)
    PROVE  /\ scheduled' = scheduled
           /\ worker' \in [OfflineWorkers -> WorkerRecord]
           /\ \A w \in OfflineWorkers : SameWork(w) /\ (worker'[w].live => worker[w].live)
           /\ p \in Configured /\ timers[p] # 0 => ~worker'[timers[p]].live
           /\ timers' \in [Keys -> 0..scheduled]
           /\ p \in Configured => timers'[p] = 0
           /\ \A k \in Keys : p \notin Configured \/ k # p => timers'[k] = timers[k]
  <1>0. worker \in [OfflineWorkers -> WorkerRecord] /\ timers \in [Keys -> 0..scheduled] /\ scheduled \in 0..MaxTimers
    BY DEF TimersTyped
  <1>1. CASE p \in Configured /\ timers[p] # 0
    <2> DEFINE old == timers[p]
               x == [worker[old] EXCEPT !.live = FALSE]
    <2>1. p \in Keys /\ old \in OfflineWorkers
      BY <1>0, <1>1 DEF Keys, OfflineWorkers, OfflineAssumption
    <2>2. worker[old] \in WorkerRecord
      BY <1>0, <2>1
    <2>3. x \in WorkerRecord /\ x.pc = worker[old].pc /\ x.who = worker[old].who /\ x.pos = worker[old].pos /\ ~x.live
      BY <2>2 DEF WorkerRecord
    <2>4. worker' = [worker EXCEPT ![old] = x] /\ timers' = [timers EXCEPT ![p] = 0] /\ scheduled' = scheduled
      BY <1>1 DEF CancelTimer, Cancelled
    <2> HIDE DEF x
    <2>5. worker' \in [OfflineWorkers -> WorkerRecord] /\ worker'[old] = x /\ \A w \in OfflineWorkers \ {old} : worker'[w] = worker[w]
      BY <1>0, <2>1, <2>3, <2>4
    <2>6. timers' \in [Keys -> 0..scheduled] /\ timers'[p] = 0 /\ \A k \in Keys \ {p} : timers'[k] = timers[k]
      BY <1>0, <2>1, <2>4
    <2>7. ~worker'[old].live
      BY <2>3, <2>5
    <2>8. \A w \in OfflineWorkers : SameWork(w)
      BY <2>3, <2>5 DEF SameWork
    <2>9. \A w \in OfflineWorkers : worker'[w].live => worker[w].live
      BY <2>5, <2>7
    <2> QED  BY <1>1, <2>4, <2>5, <2>6, <2>7, <2>8, <2>9
  <1>2. CASE ~(p \in Configured /\ timers[p] # 0)
    BY <1>0, <1>2 DEF CancelTimer, SameWork
  <1> QED  BY <1>1, <1>2

\* A cancellation keeps the timers and their workers together.
LEMMA CancelKeeps ==
    ASSUME OfflineAssumption, TimersTyped, LiveWorkerRegistered, NEW p \in Where, CancelTimer(p)
    PROVE  TimersTyped' /\ LiveWorkerRegistered'
  <1>1. /\ scheduled' = scheduled
        /\ worker' \in [OfflineWorkers -> WorkerRecord]
        /\ \A w \in OfflineWorkers : SameWork(w) /\ (worker'[w].live => worker[w].live)
        /\ p \in Configured /\ timers[p] # 0 => ~worker'[timers[p]].live
        /\ timers' \in [Keys -> 0..scheduled]
        /\ p \in Configured => timers'[p] = 0
        /\ \A k \in Keys : p \notin Configured \/ k # p => timers'[k] = timers[k]
    BY CancelFacts
  <1>2. \A k \in Keys : timers[k] # 0 => timers[k] \in OfflineWorkers
    BY DEF TimersTyped, OfflineWorkers, OfflineAssumption
  <1>3. \A k \in Keys : TimerNames(k)'
    BY <1>1, <1>2 DEF TimersTyped, TimerNames, SameWork
  <1>4. LiveWorkerRegistered'
    <2> SUFFICES ASSUME NEW w \in OfflineWorkers, worker'[w].pc \in {"wait", "look"}, worker'[w].live
                 PROVE  timers'[Key(worker'[w].pos)] = w
      BY DEF LiveWorkerRegistered
    <2>1. worker[w].pc \in {"wait", "look"} /\ worker[w].live /\ worker'[w].pos = worker[w].pos
      BY <1>1 DEF SameWork
    <2>2. timers[Key(worker[w].pos)] = w
      BY <2>1 DEF LiveWorkerRegistered
    <2>3. Key(worker[w].pos) \in Keys /\ w # 0
      BY KeyType DEF TimersTyped, WorkerRecord, OfflineWorkers
    <2> QED  BY <1>1, <2>1, <2>2, <2>3
  <1> QED  BY <1>1, <1>3, <1>4 DEF TimersTyped

\* The idle reader is well-formed.
LEMMA IdleReaderType == IdleReader \in ReaderRecord /\ IdleReader.pc = "idle"
  BY DEF IdleReader, ReaderRecord, ReaderPc, Where

\* A reader that only moves on keeps its locals.
LEMMA ReaderMoves ==
    ASSUME reader \in ReaderRecord, NEW s \in ReaderPc, ReaderTo(s)
    PROVE  /\ reader' \in ReaderRecord /\ reader'.pc = s
           /\ reader'.who = reader.who /\ reader'.pos = reader.pos /\ reader'.row = reader.row
           /\ reader'.todo = reader.todo /\ reader'.listed = reader.listed /\ reader'.cache = reader.cache
  BY DEF ReaderTo, ReaderRecord

\* The worker steps and the timers: the look-up unregisters what it takes.
LEMMA WorkerMoves ==
    ASSUME TimersTyped, LiveWorkerRegistered, OfflineAssumption,
           NEW w \in OfflineWorkers, NEW s \in WorkerPc, StepTo(w, s), UNCHANGED <<timers, scheduled>>,
           s \in {"wait", "look"} => worker[w].pc \in {"wait", "look"}
    PROVE  TimersTyped' /\ LiveWorkerRegistered'
  <1>1. /\ worker \in [OfflineWorkers -> WorkerRecord]
        /\ \A k \in Keys : timers[k] # 0 => timers[k] \in OfflineWorkers
    BY DEF TimersTyped, OfflineWorkers, OfflineAssumption
  <1> DEFINE x == [worker[w] EXCEPT !.pc = s]
  <1>2. /\ x \in WorkerRecord /\ x.pc = s /\ x.who = worker[w].who /\ x.pos = worker[w].pos
        /\ x.live = worker[w].live
    <2>1. worker[w] \in WorkerRecord
      BY <1>1
    <2> QED  BY <2>1 DEF WorkerRecord
  <1>3. worker' = [worker EXCEPT ![w] = x]
    BY DEF StepTo
  <1> HIDE DEF x
  <1>4. /\ worker' \in [OfflineWorkers -> WorkerRecord]
        /\ worker'[w] = x /\ \A u \in OfflineWorkers \ {w} : worker'[u] = worker[u]
    BY <1>1, <1>2, <1>3
  <1>5. \A k \in Keys : TimerNames(k)'
    BY <1>1, <1>2, <1>4 DEF TimersTyped, TimerNames
  <1>6. LiveWorkerRegistered'
    <2> SUFFICES ASSUME NEW u \in OfflineWorkers, worker'[u].pc \in {"wait", "look"}, worker'[u].live
                 PROVE  timers[Key(worker'[u].pos)] = u
      BY DEF LiveWorkerRegistered
    <2>1. worker[u].pc \in {"wait", "look"} /\ worker[u].live /\ worker'[u].pos = worker[u].pos
      BY <1>2, <1>4
    <2> QED  BY <2>1 DEF LiveWorkerRegistered
  <1> QED  BY <1>4, <1>5, <1>6 DEF TimersTyped

\* The look-up of a registered worker takes its timer.
LEMMA WorkerTakes ==
    ASSUME TimersTyped, LiveWorkerRegistered, OfflineAssumption,
           NEW w \in OfflineWorkers, StepTo(w, "classify"), scheduled' = scheduled,
           timers[Key(worker[w].pos)] = w,
           timers' = [timers EXCEPT ![Key(worker[w].pos)] = 0]
    PROVE  TimersTyped' /\ LiveWorkerRegistered'
  <1> DEFINE x == [worker[w] EXCEPT !.pc = "classify"]
             key == Key(worker[w].pos)
  <1>1. /\ worker \in [OfflineWorkers -> WorkerRecord] /\ timers \in [Keys -> 0..scheduled]
        /\ scheduled \in 0..MaxTimers /\ worker[w] \in WorkerRecord
        /\ \A k \in Keys : timers[k] # 0 => timers[k] \in OfflineWorkers
    BY DEF TimersTyped, OfflineWorkers, OfflineAssumption
  <1>2. x \in WorkerRecord /\ x.pc = "classify" /\ x.who = worker[w].who /\ x.pos = worker[w].pos
    BY <1>1 DEF WorkerRecord, WorkerPc
  <1>3. worker' = [worker EXCEPT ![w] = x]
    BY DEF StepTo
  <1>4. key \in Keys
    BY <1>1, KeyType DEF WorkerRecord
  <1> HIDE DEF x, key
  <1>5. /\ worker' \in [OfflineWorkers -> WorkerRecord]
        /\ worker'[w] = x /\ \A u \in OfflineWorkers \ {w} : worker'[u] = worker[u]
    BY <1>1, <1>2, <1>3
  <1>6. /\ timers' \in [Keys -> 0..scheduled]
        /\ timers'[key] = 0 /\ \A k \in Keys \ {key} : timers'[k] = timers[k]
    <2>1. timers' = [timers EXCEPT ![key] = 0] /\ 0 \in 0..scheduled
      BY <1>1 DEF key
    <2> QED  BY <1>1, <1>4, <2>1
  <1>7. \A k \in Keys : TimerNames(k)'
    BY <1>1, <1>2, <1>5, <1>6 DEF TimersTyped, TimerNames
  <1>8. LiveWorkerRegistered'
    <2> SUFFICES ASSUME NEW u \in OfflineWorkers, worker'[u].pc \in {"wait", "look"}, worker'[u].live
                 PROVE  timers'[Key(worker'[u].pos)] = u
      BY DEF LiveWorkerRegistered
    <2>1. u # w /\ worker'[u] = worker[u]
      BY <1>2, <1>5
    <2>2. timers[Key(worker[u].pos)] = u /\ Key(worker[u].pos) \in Keys
      BY <1>1, <2>1, KeyType DEF LiveWorkerRegistered, WorkerRecord
    <2> QED  BY <1>6, <2>1, <2>2 DEF key
  <1> QED  BY <1>1, <1>5, <1>6, <1>7, <1>8 DEF TimersTyped

\* Asking for a recalculation leaves an open window that will be consumed.
LEMMA ScheduleUpdateKeeps ==
    ASSUME BounceTyped, WindowAlive, OfflineAssumption, ScheduleUpdate
    PROVE  BounceTyped' /\ WindowAlive'
  <1>1. CASE pending # 0
    <2>1. pending \in Batches
      BY <1>1 DEF BounceTyped, Batches, OfflineAssumption
    <2> QED  BY <1>1, <2>1 DEF ScheduleUpdate, BounceTyped, WindowAlive
  <1>2. CASE pending = 0
    <2>1. /\ opened < MaxBatches /\ opened' = opened + 1 /\ pending' = opened + 1
          /\ armed' = armed \cup {opened + 1} /\ UNCHANGED <<fired, updating>>
      BY <1>2 DEF ScheduleUpdate
    <2>2. opened + 1 \in Batches /\ opened + 1 \in 0..MaxBatches /\ opened + 1 \in 0..(opened + 1)
      BY <2>1 DEF BounceTyped, Batches, OfflineAssumption
    <2> QED  BY <2>1, <2>2 DEF BounceTyped, WindowAlive
  <1> QED  BY <1>1, <1>2

\* The covered positions are configured ones.
LEMMA CoveredType == Covered \subseteq Configured
  BY DEF Covered

\* OfflineInit establishes the invariant.
LEMMA OfflineInitInv == OfflineAssumption /\ OfflineInit => OfflineInv
  <1> SUFFICES ASSUME OfflineAssumption, OfflineInit PROVE OfflineInv
    OBVIOUS
  <1>1. BoardTyped
    <2>1. masterAlive \in BOOLEAN
      BY DEF OfflineInit
    <2> QED  BY <2>1 DEF OfflineInit, BoardTyped, Where, OfflineAssumption
  <1>2. ReaderTyped
    BY IdleReaderType DEF OfflineInit, ReaderTyped
  <1>3. NoWorker \in WorkerRecord /\ NoWorker.pc = "none"
    BY DEF NoWorker, WorkerRecord, WorkerPc, Where
  <1>4. TimersTyped /\ LiveWorkerRegistered
    BY <1>3 DEF OfflineInit, TimersTyped, TimerNames, LiveWorkerRegistered, OfflineAssumption
  <1>5. BounceTyped /\ WindowAlive
    BY DEF OfflineInit, BounceTyped, WindowAlive, OfflineAssumption
  <1> QED  BY <1>1, <1>2, <1>4, <1>5 DEF OfflineInv

\* What nothing happens to stays as it is.
LEMMA TimersStay ==
    ASSUME TimersTyped, LiveWorkerRegistered, UNCHANGED hubVars
    PROVE  TimersTyped' /\ LiveWorkerRegistered'
  BY DEF TimersTyped, TimerNames, LiveWorkerRegistered, hubVars

\* What nothing happens to stays as it is.
LEMMA BounceStays ==
    ASSUME BounceTyped, WindowAlive, UNCHANGED bounceVars
    PROVE  BounceTyped' /\ WindowAlive'
  BY DEF BounceTyped, WindowAlive, bounceVars

\* The arrival of a message.
LEMMA ReceiveInv ==
    ASSUME OfflineAssumption, OfflineInv,
           \/ \E c \in Controllers : (\E p \in Positions : Online(c, p)) \/ Offline(c)
           \/ \E listed \in [Controllers -> Where] : Sync(listed)
    PROVE  OfflineInv'
  <1>0. BoardTyped /\ TimersTyped /\ LiveWorkerRegistered /\ BounceTyped /\ WindowAlive
    BY DEF OfflineInv
  <1>1. ASSUME NEW r, NEW where \in [Controllers -> Where], ReceiveMessage(r, where),
               r \in ReaderRecord,
               \/ r.pc = "cancel" /\ r.who \in Controllers /\ r.pos \in Positions
               \/ r.pc = "offline" /\ r.who \in Controllers
               \/ r.pc = "upsert" /\ \A c \in r.todo : r.listed[c] # None
        PROVE  OfflineInv'
    <2>1. /\ reader' = r /\ seen' = where /\ messages < MaxMessages /\ messages' = messages + 1
          /\ UNCHANGED <<rows, masterVars, hubVars, bounceVars, sectors>>
      BY <1>1 DEF ReceiveMessage
    <2>2. BoardTyped'
      BY <1>0, <1>1, <2>1 DEF BoardTyped, masterVars, OfflineAssumption
    <2>3. ReaderTyped'
      BY <1>1, <2>1 DEF ReaderTyped
    <2> QED  BY <1>0, <2>1, <2>2, <2>3, TimersStay, BounceStays DEF OfflineInv
  <1>2. ASSUME NEW c \in Controllers, NEW p \in Positions, Online(c, p)
        PROVE  OfflineInv'
    <2> DEFINE r == [IdleReader EXCEPT !.pc = "cancel", !.who = c, !.pos = p]
    <2>1. r \in ReaderRecord /\ r.pc = "cancel" /\ r.who = c /\ r.pos = p
      BY IdleReaderType DEF ReaderRecord, ReaderPc, Where
    <2>2. [seen EXCEPT ![c] = p] \in [Controllers -> Where]
      BY <1>0 DEF BoardTyped, Where
    <2>3. ReceiveMessage(r, [seen EXCEPT ![c] = p])
      BY <1>2 DEF Online
    <2> HIDE DEF r
    <2> QED  BY <1>1, <2>1, <2>2, <2>3
  <1>3. ASSUME NEW c \in Controllers, Offline(c)
        PROVE  OfflineInv'
    <2> DEFINE r == [IdleReader EXCEPT !.pc = "offline", !.who = c]
    <2>1. r \in ReaderRecord /\ r.pc = "offline" /\ r.who = c
      BY IdleReaderType DEF ReaderRecord, ReaderPc, Where
    <2>2. [seen EXCEPT ![c] = None] \in [Controllers -> Where]
      BY <1>0 DEF BoardTyped, Where
    <2>3. ReceiveMessage(r, [seen EXCEPT ![c] = None])
      BY <1>3 DEF Offline
    <2> HIDE DEF r
    <2> QED  BY <1>1, <2>1, <2>2, <2>3
  <1>4. ASSUME NEW listed \in [Controllers -> Where], Sync(listed)
        PROVE  OfflineInv'
    <2> DEFINE r == [IdleReader EXCEPT !.pc = "upsert", !.listed = listed, !.cache = rows,
                                       !.todo = {c \in Controllers : listed[c] # None}]
    <2>1. /\ r \in ReaderRecord /\ r.pc = "upsert" /\ r.listed = listed
          /\ r.todo = {c \in Controllers : listed[c] # None}
      BY <1>0, IdleReaderType DEF ReaderRecord, ReaderPc, BoardTyped
    <2>2. ReceiveMessage(r, listed)
      BY <1>4 DEF Sync
    <2> HIDE DEF r
    <2>3. \A c \in r.todo : r.listed[c] # None
      BY <2>1
    <2> QED  BY <1>1, <2>1, <2>2, <2>3
  <1> QED  BY <1>2, <1>3, <1>4

\* The steps of a message that touch no timer.
LEMMA ReaderPlainInv ==
    ASSUME OfflineAssumption, OfflineInv,
           OnlineRead \/ OnlineWrite \/ Recalculate \/ OfflineRead \/ SyncListed \/ SyncDone
    PROVE  OfflineInv'
  <1>0. /\ BoardTyped /\ ReaderTyped /\ TimersTyped /\ LiveWorkerRegistered /\ BounceTyped /\ WindowAlive
        /\ reader \in ReaderRecord /\ rows \in [Controllers -> Where]
    BY DEF OfflineInv, BoardTyped, ReaderTyped
  <1>1. UNCHANGED <<seen, messages, masterVars, hubVars, bounceVars>>
    BY DEF OnlineRead, OnlineWrite, Recalculate, OfflineRead, SyncListed, SyncDone
  <1>2. ASSUME rows' \in [Controllers -> Where], sectors' \subseteq Configured, ReaderTyped'
        PROVE  OfflineInv'
    <2>1. BoardTyped'
      BY <1>0, <1>1, <1>2 DEF BoardTyped, masterVars
    <2> QED  BY <1>0, <1>1, <1>2, <2>1, TimersStay, BounceStays DEF OfflineInv
  <1>3. Done => ReaderTyped'
    BY IdleReaderType DEF Done, ReaderTyped
  <1>4. ASSUME NEW s \in {"recalculate", "syncSectors"}, ReaderTo(s)
        PROVE  ReaderTyped'
    <2>1. s \in ReaderPc
      BY DEF ReaderPc
    <2>2. reader' \in ReaderRecord /\ reader'.pc = s
      BY <1>0, <1>4, <2>1, ReaderMoves
    <2> QED  BY <2>2 DEF ReaderTyped
  <1>5. sectors \subseteq Configured
    BY <1>0 DEF BoardTyped
  \* The reader looks for the missing controllers.
  <1>6. ASSUME reader' = [reader EXCEPT !.pc = "stale",
                             !.todo = {c \in Controllers : reader.cache[c] # None /\ reader.listed[c] = None}]
        PROVE  ReaderTyped'
    <2> DEFINE T == {c \in Controllers : reader.cache[c] # None /\ reader.listed[c] = None}
    <2>1. /\ reader' \in ReaderRecord /\ reader'.pc = "stale" /\ reader'.todo = T
          /\ reader'.cache = reader.cache /\ reader'.listed = reader.listed
      <3>1. T \in SUBSET Controllers /\ reader' = [reader EXCEPT !.pc = "stale", !.todo = T]
        BY <1>6
      <3> HIDE DEF T
      <3> QED  BY <1>0, <3>1 DEF ReaderRecord, ReaderPc
    <2> QED  BY <2>1 DEF ReaderTyped
  <1>7. CASE OnlineRead
    <2>1. UNCHANGED <<rows, sectors>>
      BY <1>7 DEF OnlineRead
    <2>2. CASE Done \/ ReaderTo("recalculate")
      BY <1>0, <1>2, <1>3, <1>4, <1>5, <2>1, <2>2
    <2>3. CASE reader' = [reader EXCEPT !.pc = "write", !.row = rows[reader.who]]
      <3>1. reader.who \in Controllers /\ reader.pos \in Positions /\ rows[reader.who] \in Where
        BY <1>0, <1>7 DEF OnlineRead, ReaderTyped
      <3>2. reader' \in ReaderRecord /\ reader'.pc = "write" /\ reader'.who = reader.who /\ reader'.pos = reader.pos
        BY <1>0, <2>3, <3>1 DEF ReaderRecord, ReaderPc
      <3>3. ReaderTyped'
        BY <3>1, <3>2 DEF ReaderTyped
      <3> QED  BY <1>0, <1>2, <1>5, <2>1, <3>3
    <2> QED  BY <1>7, <2>2, <2>3 DEF OnlineRead
  <1>8. CASE OnlineWrite
    <2>1. sectors' = sectors /\ rows' = Upserted(reader.who, reader.row, reader.pos)
      BY <1>8 DEF OnlineWrite
    <2>2. reader.who \in Controllers /\ reader.pos \in Where
      BY <1>0, <1>8 DEF OnlineWrite, ReaderTyped, Where
    <2>3. rows' \in [Controllers -> Where]
      BY <1>0, <2>1, <2>2 DEF Upserted
    <2>4. Done \/ ReaderTo("recalculate")
      BY <1>8 DEF OnlineWrite
    <2> QED  BY <1>2, <1>3, <1>4, <1>5, <2>1, <2>3, <2>4
  <1>9. CASE Recalculate
    <2>1. rows' = rows /\ sectors' \subseteq Configured
      BY <1>9, CoveredType DEF Recalculate
    <2>2. ReaderTyped'
      BY <1>3, <1>6, <1>9 DEF Recalculate
    <2> QED  BY <1>0, <1>2, <2>1, <2>2
  <1>10. CASE OfflineRead
    <2>1. sectors' = sectors /\ reader.who \in Controllers
      BY <1>0, <1>10 DEF OfflineRead, ReaderTyped
    <2>2. CASE rows[reader.who] \in Configured
      <3>1. rows' = rows /\ reader' = [reader EXCEPT !.pc = "covered", !.row = rows[reader.who]]
        BY <1>10, <2>2 DEF OfflineRead
      <3>2. /\ reader' \in ReaderRecord /\ reader'.pc = "covered" /\ reader'.who = reader.who
            /\ reader'.row \in Configured
        BY <1>0, <2>1, <2>2, <3>1 DEF ReaderRecord, ReaderPc
      <3>3. ReaderTyped'
        BY <2>1, <3>2 DEF ReaderTyped
      <3> QED  BY <1>0, <1>2, <1>5, <2>1, <3>1, <3>3
    <2>3. CASE rows[reader.who] \notin Configured
      <3>1. Done /\ rows' = [rows EXCEPT ![reader.who] = None]
        BY <1>10, <2>3 DEF OfflineRead
      <3>2. rows' \in [Controllers -> Where]
        BY <1>0, <3>1 DEF Where
      <3> QED  BY <1>2, <1>3, <1>5, <2>1, <3>1, <3>2
    <2> QED  BY <2>2, <2>3
  <1>11. CASE SyncListed
    <2>1. UNCHANGED <<rows, sectors>>
      BY <1>11 DEF SyncListed
    <2>2. ReaderTyped'
      BY <1>4, <1>6, <1>11 DEF SyncListed
    <2> QED  BY <1>0, <1>2, <1>5, <2>1, <2>2
  <1>12. CASE SyncDone
    <2>1. UNCHANGED <<rows, sectors>> /\ Done
      BY <1>12 DEF SyncDone
    <2> QED  BY <1>0, <1>2, <1>3, <1>5, <2>1
  <1> QED  BY <1>7, <1>8, <1>9, <1>10, <1>11, <1>12

\* The steps of a message that cancel or start a timer.
LEMMA ReaderTimerInv ==
    ASSUME OfflineAssumption, OfflineInv,
           OnlineCancel \/ OfflineCovered \/ (\E c \in Controllers : SyncUpsert(c) \/ SyncStale(c))
    PROVE  OfflineInv'
  <1>0. /\ BoardTyped /\ ReaderTyped /\ TimersTyped /\ LiveWorkerRegistered /\ BounceTyped /\ WindowAlive
        /\ reader \in ReaderRecord /\ rows \in [Controllers -> Where] /\ masterEpoch \in Nat
    BY DEF OfflineInv, BoardTyped, ReaderTyped
  <1>1. UNCHANGED <<seen, messages, masterVars, bounceVars, sectors>>
    BY DEF OnlineCancel, OfflineCovered, SyncUpsert, SyncStale
  <1>2. ASSUME rows' \in [Controllers -> Where], ReaderTyped', TimersTyped', LiveWorkerRegistered'
        PROVE  OfflineInv'
    <2>1. BoardTyped'
      BY <1>0, <1>1, <1>2 DEF BoardTyped, masterVars
    <2> QED  BY <1>0, <1>1, <1>2, <2>1, BounceStays DEF OfflineInv
  <1>3. CASE OnlineCancel
    <2>1. rows' = rows /\ CancelTimer(reader.pos) /\ ReaderTo("read")
      BY <1>3 DEF OnlineCancel
    <2>2. reader.who \in Controllers /\ reader.pos \in Positions
      BY <1>0, <1>3 DEF OnlineCancel, ReaderTyped
    <2>3. "read" \in ReaderPc /\ reader.pos \in Where
      BY <2>2 DEF ReaderPc, Where
    <2>4. reader' \in ReaderRecord /\ reader'.pc = "read" /\ reader'.who = reader.who /\ reader'.pos = reader.pos
      BY <1>0, <2>1, <2>3, ReaderMoves
    <2>5. ReaderTyped'
      BY <2>2, <2>4 DEF ReaderTyped
    <2>6. TimersTyped' /\ LiveWorkerRegistered'
      BY <1>0, <2>1, <2>3, CancelKeeps
    <2> QED  BY <1>0, <1>2, <2>1, <2>5, <2>6
  <1>4. CASE OfflineCovered
    <2>1. Done /\ reader.who \in Controllers /\ reader.row \in Positions
      BY <1>0, <1>4 DEF OfflineCovered, ReaderTyped, OfflineAssumption
    <2>2. ReaderTyped'
      BY <2>1, IdleReaderType DEF Done, ReaderTyped
    <2>3. CASE rows' = [rows EXCEPT ![reader.who] = None] /\ UNCHANGED hubVars
      <3>1. rows' \in [Controllers -> Where]
        BY <1>0, <2>3 DEF Where
      <3> QED  BY <1>0, <1>2, <2>2, <2>3, <3>1, TimersStay
    <2>4. CASE ScheduleOffline(reader.who, reader.row) /\ UNCHANGED rows
      <3>1. TimersTyped' /\ LiveWorkerRegistered'
        BY <1>0, <2>1, <2>4, ScheduleKeeps
      <3> QED  BY <1>0, <1>2, <2>2, <2>4, <3>1
    <2> QED  BY <1>4, <2>3, <2>4 DEF OfflineCovered
  <1>5. ASSUME NEW c \in Controllers, SyncUpsert(c)
        PROVE  OfflineInv'
    <2> DEFINE p == reader.listed[c]
               T == reader.todo \ {c}
               K == [reader.cache EXCEPT ![c] = p]
               g == reader.changed \/ reader.cache[c] # p
    <2>1. /\ c \in reader.todo /\ CancelTimer(p)
          /\ rows' = rows \/ rows' = Upserted(c, reader.cache[c], p)
          /\ reader' = [reader EXCEPT !.todo = T, !.cache = K, !.changed = g]
      BY <1>5 DEF SyncUpsert
    <2>2. p \in Where /\ K \in [Controllers -> Where] /\ T \in SUBSET Controllers /\ g \in BOOLEAN
      BY <1>0 DEF ReaderRecord
    <2>3. rows' \in [Controllers -> Where]
      BY <1>0, <2>1, <2>2 DEF Upserted
    <2>4. reader.pc = "upsert" /\ \A d \in reader.todo : reader.listed[d] # None
      BY <1>0, <1>5 DEF SyncUpsert, ReaderTyped
    <2> HIDE DEF p, K, g
    <2>5. reader' \in ReaderRecord /\ reader'.pc = "upsert" /\ reader'.todo = T /\ reader'.listed = reader.listed
      BY <1>0, <2>1, <2>2, <2>4 DEF ReaderRecord
    <2>6. ReaderTyped'
      BY <2>4, <2>5 DEF ReaderTyped
    <2>7. TimersTyped' /\ LiveWorkerRegistered'
      BY <1>0, <2>1, <2>2, CancelKeeps
    <2> QED  BY <1>2, <2>3, <2>6, <2>7
  <1>6. ASSUME NEW c \in Controllers, SyncStale(c)
        PROVE  OfflineInv'
    <2> DEFINE T == reader.todo \ {c}
    <2>1. /\ c \in reader.todo /\ ScheduleOffline(c, reader.cache[c]) /\ rows' = rows
          /\ reader' = [reader EXCEPT !.todo = T] /\ reader.pc = "stale"
      BY <1>6 DEF SyncStale
    <2>2. T \in SUBSET Controllers /\ \A d \in reader.todo : reader.cache[d] # None /\ reader.listed[d] = None
      BY <1>0, <2>1 DEF ReaderRecord, ReaderTyped
    <2>3. reader.cache[c] \in Positions
      BY <1>0, <2>1, <2>2 DEF ReaderRecord, Where
    <2>4. /\ reader' \in ReaderRecord /\ reader'.pc = "stale" /\ reader'.todo = T
          /\ reader'.cache = reader.cache /\ reader'.listed = reader.listed
      BY <1>0, <2>1, <2>2 DEF ReaderRecord
    <2>5. ReaderTyped'
      BY <2>2, <2>4 DEF ReaderTyped
    <2>6. TimersTyped' /\ LiveWorkerRegistered'
      BY <1>0, <2>1, <2>3, ScheduleKeeps
    <2> QED  BY <1>0, <1>2, <2>1, <2>5, <2>6
  <1> QED  BY <1>3, <1>4, <1>5, <1>6

\* A database call has its result or its fallback.
LEMMA OutcomeType ==
    ASSUME NEW call, NEW result, NEW fallback, NEW x \in Outcomes(call, result, fallback)
    PROVE  x \in {result, fallback}
  BY DEF Outcomes

\* Where classification sends a worker, and what a deletion leaves.
LEMMA ClassifyTo ==
    ASSUME NEW w
    PROVE  /\ ClassifyRow(w) => \/ StepTo(w, "done")
                                \/ rows[worker[w].who] = worker[w].pos /\ StepTo(w, "others")
           /\ ClassifyOthers(w) => \E s \in {"drop", "dropSilently", "done"} : StepTo(w, s)
           /\ DropRow(w) => rows' \in {rows, [rows EXCEPT ![worker[w].who] = None]}
  <1>1. ASSUME ClassifyRow(w)
        PROVE  StepTo(w, "done") \/ (rows[worker[w].who] = worker[w].pos /\ StepTo(w, "others"))
    <2>1. PICK s \in Outcomes("classify", IF rows[worker[w].who] = worker[w].pos THEN "others" ELSE "done", "done") :
             StepTo(w, s)
      BY <1>1 DEF ClassifyRow
    <2>2. s \in {IF rows[worker[w].who] = worker[w].pos THEN "others" ELSE "done", "done"}
      BY OutcomeType
    <2> QED  BY <2>1, <2>2
  <1>2. ASSUME ClassifyOthers(w)
        PROVE  \E s \in {"drop", "dropSilently", "done"} : StepTo(w, s)
    <2>1. PICK s \in Outcomes("others", IF CoveredByOther(worker[w].who, worker[w].pos)
                                         THEN "dropSilently" ELSE "drop", "done") :
             StepTo(w, s)
      BY <1>2 DEF ClassifyOthers
    <2>2. s \in {IF CoveredByOther(worker[w].who, worker[w].pos) THEN "dropSilently" ELSE "drop", "done"}
      BY OutcomeType
    <2> QED  BY <2>1, <2>2
  <1>3. ASSUME DropRow(w)
        PROVE  rows' \in {rows, [rows EXCEPT ![worker[w].who] = None]}
    <2>1. rows' \in Outcomes("delete", [rows EXCEPT ![worker[w].who] = None], rows)
      BY <1>3 DEF DropRow
    <2> QED  BY <2>1, OutcomeType
  <1> QED  BY <1>1, <1>2, <1>3

\* The steps of an offline worker.
LEMMA OfflineWorkerInv ==
    ASSUME OfflineAssumption, OfflineInv, NEW w \in OfflineWorkers, OfflineWorkerStep(w)
    PROVE  OfflineInv'
  <1>0. BoardTyped /\ ReaderTyped /\ TimersTyped /\ LiveWorkerRegistered /\ BounceTyped /\ WindowAlive
    BY DEF OfflineInv
  <1>1. UNCHANGED <<seen, reader, messages, masterVars, sectors, scheduled>>
    BY DEF OfflineWorkerStep, Expire, LookUpTimer, ClassifyRow, ClassifyOthers, DropRow, Announce
  <1>2. ReaderTyped'
    BY <1>0, <1>1 DEF ReaderTyped
  <1>3. BoardTyped'
    <2>1. rows' \in [Controllers -> Where]
      <3>1. CASE rows' = rows
        BY <1>0, <3>1 DEF BoardTyped
      <3>2. CASE rows' = [rows EXCEPT ![worker[w].who] = None]
        BY <1>0, <3>2 DEF BoardTyped, Where
      <3>3. rows' = rows \/ DropRow(w)
        BY DEF OfflineWorkerStep, Expire, LookUpTimer, ClassifyRow, ClassifyOthers, Announce
      <3> QED  BY <3>1, <3>2, <3>3, ClassifyTo
    <2> QED  BY <1>0, <1>1, <2>1 DEF BoardTyped, masterVars
  <1>4. BounceTyped' /\ WindowAlive'
    <2>1. CASE ScheduleUpdate
      BY <1>0, <2>1, ScheduleUpdateKeeps
    <2>2. CASE UNCHANGED bounceVars
      BY <1>0, <2>2, BounceStays
    <2> QED
      BY <2>1, <2>2
      DEF OfflineWorkerStep, Expire, LookUpTimer, ClassifyRow, ClassifyOthers, DropRow, Announce
  <1>5. TimersTyped' /\ LiveWorkerRegistered'
    <2>1. ASSUME NEW s \in {"look", "others", "drop", "dropSilently", "announce", "done"}, StepTo(w, s),
                 timers' = timers, s = "look" => worker[w].pc = "wait"
          PROVE  TimersTyped' /\ LiveWorkerRegistered'
      <3>1. s \in WorkerPc
        BY DEF WorkerPc
      <3> QED  BY <1>0, <1>1, <2>1, <3>1, WorkerMoves
    <2>2. CASE LookUpTimer(w)
      <3>1. CASE timers[Key(worker[w].pos)] = w
        BY <1>0, <1>1, <2>2, <3>1, WorkerTakes DEF LookUpTimer
      <3>2. CASE timers[Key(worker[w].pos)] # w
        BY <2>1, <2>2, <3>2 DEF LookUpTimer
      <3> QED  BY <3>1, <3>2
    <2>3. CASE Expire(w)
      BY <2>1, <2>3 DEF Expire
    <2>4. CASE ClassifyRow(w) \/ ClassifyOthers(w)
      <3>1. timers' = timers
        BY <2>4 DEF ClassifyRow, ClassifyOthers
      <3>2. PICK s \in {"others", "drop", "dropSilently", "done"} : StepTo(w, s)
        BY <2>4, ClassifyTo
      <3> QED  BY <2>1, <3>1, <3>2
    <2>5. CASE DropRow(w) \/ Announce(w)
      BY <2>1, <2>5 DEF DropRow, Announce
    <2> QED  BY <2>2, <2>3, <2>4, <2>5 DEF OfflineWorkerStep
  <1> QED  BY <1>2, <1>3, <1>4, <1>5 DEF OfflineInv

\* The debouncer's own steps.
LEMMA BatchInv ==
    ASSUME OfflineAssumption, OfflineInv, NEW b \in Batches, BatchStep(b)
    PROVE  OfflineInv'
  <1>0. BoardTyped /\ ReaderTyped /\ TimersTyped /\ LiveWorkerRegistered /\ BounceTyped /\ WindowAlive
    BY DEF OfflineInv
  <1>1. UNCHANGED <<rows, seen, reader, messages, masterVars, hubVars>> /\ sectors' \in {sectors, Covered}
    <2>1. CASE RunUpdate(b)
      <3>1. sectors' \in Outcomes("recalculate", Covered, sectors)
        BY <2>1 DEF RunUpdate
      <3> QED  BY <2>1, <3>1, OutcomeType DEF RunUpdate
    <2> QED  BY <2>1 DEF BatchStep, WindowFires, Consume
  <1>2. BoardTyped' /\ ReaderTyped'
    BY <1>0, <1>1, CoveredType DEF BoardTyped, ReaderTyped, masterVars
  <1>3. BounceTyped' /\ WindowAlive'
    <2>1. CASE WindowFires(b)
      BY <1>0, <2>1 DEF WindowFires, BounceTyped, WindowAlive
    <2>2. CASE Consume(b)
      <3>1. 0 \in 0..opened
        BY <1>0 DEF BounceTyped, OfflineAssumption
      <3> QED  BY <1>0, <2>2, <3>1 DEF Consume, BounceTyped, WindowAlive
    <2>3. CASE RunUpdate(b)
      BY <1>0, <2>3 DEF RunUpdate, BounceTyped, WindowAlive
    <2> QED  BY <2>1, <2>2, <2>3 DEF BatchStep
  <1> QED  BY <1>0, <1>1, <1>2, <1>3, TimersStay DEF OfflineInv

\* A change of master, and extendSessionTimers.
LEMMA MasterInv ==
    ASSUME OfflineAssumption, OfflineInv, MasterLeaves \/ ChangeMaster \/ ExtendStep
    PROVE  OfflineInv'
  <1>0. BoardTyped /\ ReaderTyped /\ TimersTyped /\ LiveWorkerRegistered /\ BounceTyped /\ WindowAlive
    BY DEF OfflineInv
  <1>1. UNCHANGED <<rows, seen, reader, messages, bounceVars, sectors>>
    BY DEF MasterLeaves, ChangeMaster, ExtendStep, ExtendCollect, ExtendOne, ExtendDone
  <1>2. ReaderTyped' /\ BounceTyped' /\ WindowAlive'
    BY <1>0, <1>1, BounceStays DEF ReaderTyped
  <1>3. ASSUME masterEpoch' \in 0..MaxMasters, masterAlive' \in BOOLEAN,
               extending' \in {"idle", "called", "collected"},
               collected' \subseteq [who : Controllers, pos : Positions]
        PROVE  BoardTyped'
    BY <1>0, <1>1, <1>3 DEF BoardTyped
  <1>4. /\ masterEpoch \in 0..MaxMasters /\ masterAlive \in BOOLEAN
        /\ extending \in {"idle", "called", "collected"}
        /\ collected \subseteq [who : Controllers, pos : Positions]
    BY <1>0 DEF BoardTyped
  <1>5. CASE MasterLeaves
    <2>1. masterAlive' \in BOOLEAN
      BY <1>5, Zenon DEF MasterLeaves
    <2>2. UNCHANGED <<masterEpoch, extending, collected, hubVars>>
      BY <1>5 DEF MasterLeaves
    <2> QED  BY <1>0, <1>2, <1>3, <1>4, <2>1, <2>2, TimersStay DEF OfflineInv
  <1>6. CASE ChangeMaster
    <2>1. masterAlive' \in BOOLEAN
      BY <1>6, Zenon DEF ChangeMaster
    <2>2. /\ masterEpoch' \in 0..MaxMasters /\ extending' \in {"idle", "called", "collected"}
          /\ collected' = collected /\ scheduled' = scheduled
          /\ worker' = [w \in OfflineWorkers |-> [worker[w] EXCEPT !.live = FALSE]]
          /\ timers' = [k \in Keys |-> 0]
      BY <1>4, <1>6 DEF ChangeMaster, OfflineAssumption
    <2>3. \A w \in OfflineWorkers : worker'[w] \in WorkerRecord /\ ~worker'[w].live
      <3> SUFFICES ASSUME NEW w \in OfflineWorkers
                   PROVE  worker'[w] \in WorkerRecord /\ ~worker'[w].live
        OBVIOUS
      <3>1. worker[w] \in WorkerRecord /\ worker'[w] = [worker[w] EXCEPT !.live = FALSE]
        BY <1>0, <2>2 DEF TimersTyped
      <3> QED  BY <3>1 DEF WorkerRecord
    <2>4. TimersTyped'
      <3>1. 0 \in 0..scheduled
        BY <1>0 DEF TimersTyped, OfflineAssumption
      <3>2. worker' \in [OfflineWorkers -> WorkerRecord]
        BY <2>2, <2>3
      <3> QED  BY <1>0, <2>2, <3>1, <3>2 DEF TimersTyped, TimerNames
    <2>5. LiveWorkerRegistered'
      BY <2>3 DEF LiveWorkerRegistered
    <2> QED  BY <1>2, <1>3, <1>4, <2>1, <2>2, <2>4, <2>5 DEF OfflineInv
  <1>7. CASE ExtendCollect
    <2>1. /\ UNCHANGED <<masterAlive, masterEpoch, hubVars>> /\ extending' = "collected"
          /\ collected' = {[who |-> worker[timers[k]].who, pos |-> worker[timers[k]].pos] :
                              k \in {j \in Keys : timers[j] # 0}}
      BY <1>7 DEF ExtendCollect
    <2>2. collected' \subseteq [who : Controllers, pos : Positions]
      BY <1>0, <2>1 DEF TimersTyped, TimerNames
    <2> QED  BY <1>0, <1>2, <1>3, <1>4, <2>1, <2>2, TimersStay DEF OfflineInv
  <1>8. ASSUME NEW e \in collected, ExtendOne(e)
        PROVE  OfflineInv'
    <2>1. UNCHANGED <<masterAlive, masterEpoch, extending>> /\ collected' = collected \ {e}
      BY <1>8 DEF ExtendOne
    <2>2. e.who \in Controllers /\ e.pos \in Positions /\ ScheduleOffline(e.who, e.pos) /\ masterEpoch \in Nat
      BY <1>4, <1>8 DEF ExtendOne, OfflineAssumption
    <2>3. TimersTyped' /\ LiveWorkerRegistered'
      BY <1>0, <2>2, ScheduleKeeps
    <2> QED  BY <1>2, <1>3, <1>4, <2>1, <2>3 DEF OfflineInv
  <1>9. CASE ExtendDone
    <2>1. UNCHANGED <<masterAlive, masterEpoch, collected, hubVars>> /\ extending' = "idle"
      BY <1>9 DEF ExtendDone
    <2> QED  BY <1>0, <1>2, <1>3, <1>4, <2>1, TimersStay DEF OfflineInv
  <1> QED  BY <1>5, <1>6, <1>7, <1>8, <1>9 DEF ExtendStep

\* Every step preserves the invariant.
LEMMA OfflineStepInv == OfflineAssumption /\ OfflineInv /\ [OfflineNext]_offlineVars => OfflineInv'
  <1> SUFFICES ASSUME OfflineAssumption, OfflineInv, [OfflineNext]_offlineVars PROVE OfflineInv'
    OBVIOUS
  <1>1. CASE UNCHANGED offlineVars
    <2>1. UNCHANGED <<rows, seen, reader, messages, masterVars, hubVars, bounceVars, sectors>>
      BY <1>1 DEF offlineVars
    <2>2. BoardTyped' /\ ReaderTyped'
      BY <2>1 DEF OfflineInv, BoardTyped, ReaderTyped, masterVars
    <2> QED  BY <2>1, <2>2, TimersStay, BounceStays DEF OfflineInv
  <1>2. CASE ReaderStep
    BY <1>2, ReaderPlainInv, ReaderTimerInv DEF ReaderStep
  <1> QED
    BY <1>1, <1>2, ReceiveInv, OfflineWorkerInv, BatchInv, MasterInv DEF OfflineNext

\* The invariant holds in every reachable state, whatever interleaves.
THEOREM OfflineInvariant == OfflineSpec => []OfflineInv
  BY OfflineAssumption, OfflineInitInv, OfflineStepInv, PTL DEF OfflineSpec

\* Whatever interleaves, a worker that can still act is the one its position's
\* timer names: scheduleOfflineActions, cancelOfflineTimer, the extension of
\* the timers and a change of master leave no live worker behind.
THEOREM OfflineLiveWorkerRegistered == OfflineSpec => []LiveWorkerRegistered
  BY OfflineInvariant, PTL DEF OfflineInv

\* An open debounce window is never lost, whatever the order in which its
\* timer fires, is reset and its function gets sessionUpdateMu.
THEOREM OfflineWindowAlive == OfflineSpec => []WindowAlive
  BY OfflineInvariant, PTL DEF OfflineInv

\* The variables keep their types, whatever interleaves.
THEOREM OfflineTyped == OfflineSpec => []OfflineTypeOK
  <1>1. OfflineAssumption /\ OfflineInv => OfflineTypeOK
    <2> SUFFICES ASSUME OfflineAssumption, OfflineInv PROVE OfflineTypeOK
      OBVIOUS
    <2>1. scheduled \in 0..MaxTimers /\ timers \in [Keys -> 0..scheduled] /\ 0..scheduled \subseteq 0..MaxTimers
      BY DEF OfflineInv, TimersTyped, OfflineAssumption
    <2>2. \A w \in OfflineWorkers : worker[w].pc \in WorkerPc /\ worker[w].live \in BOOLEAN
      BY DEF OfflineInv, TimersTyped, WorkerRecord
    <2>3. reader.pc \in ReaderPc /\ reader.todo \subseteq Controllers
      BY DEF OfflineInv, ReaderTyped, ReaderRecord
    <2> QED  BY <2>1, <2>2, <2>3 DEF OfflineTypeOK, OfflineInv, BoardTyped, BounceTyped
  <1> QED  BY <1>1, OfflineAssumption, OfflineInvariant, PTL

-----------------------------------------------------------------------------
(* The orderly schedule: ~Overlap, and a key for every position *)

\* A message and an expiry exclude each other, and so do they and the second
\* half of extendSessionTimers.
Exclusive ==
    /\ reader.pc # "idle" => ActingWorkers = {} /\ ~Extending
    /\ Extending => ActingWorkers = {}

\* A worker past its look-up acts for a controller the master does not see
\* where the worker was started for.
ActsForAbsent ==
    \A w \in ActingWorkers :
        /\ worker[w].who \in Controllers
        /\ seen[worker[w].who] # worker[w].pos
        /\ worker[w].pos \in Positions
        /\ worker[w].pc \in {"others", "drop", "dropSilently"} => seen[worker[w].who] = None

\* The message in work is about to cancel the timer of a position at which it
\* reports controller c.
WillCancel(c, p) ==
    \/ reader.pc = "cancel" /\ reader.pos = p
    \/ reader.pc = "upsert" /\ c \in reader.todo

\* A timer is for a controller the master does not see there.
TimerForAbsent(k) ==
    timers[k] # 0 =>
        \/ seen[worker[timers[k]].who] # worker[timers[k]].pos
        \/ WillCancel(worker[timers[k]].who, worker[timers[k]].pos)

\* So is every timer, and every entry to be scheduled anew.
TimersForAbsent ==
    /\ \A k \in Keys : TimerForAbsent(k)
    /\ Extending => \A e \in collected : seen[e.who] # e.pos

\* The row of a controller the master sees is where it sees it.
RowFollows(c) == seen[c] # None => rows[c] = seen[c]

\* What has been written so far of the message in work.
RowsFollow ==
    /\ reader.pc \in {"cancel", "read", "write"} =>
          seen[reader.who] = reader.pos /\ \A c \in Controllers \ {reader.who} : RowFollows(c)
    /\ reader.pc = "write" => reader.row = rows[reader.who]
    /\ reader.pc \in {"offline", "covered"} => seen[reader.who] = None
    /\ reader.pc \in {"upsert", "syncSectors", "stale"} => reader.listed = seen
    /\ reader.pc = "upsert" =>
          reader.cache = rows /\ \A c \in Controllers \ reader.todo : RowFollows(c)
    /\ reader.pc \notin {"cancel", "read", "write", "upsert"} => \A c \in Controllers : RowFollows(c)

\* What is left of the invariant when every position has its own key.
Orderly == Exclusive /\ ActsForAbsent /\ TimersForAbsent /\ RowsFollow

\* With every position configured, a timer is for its own position.
LEMMA TimerPosition ==
    ASSUME OfflineAssumption, Configured = Positions, TimersTyped, NEW k \in Keys, timers[k] # 0
    PROVE  /\ timers[k] \in OfflineWorkers /\ k \in Positions
           /\ worker[timers[k]].who \in Controllers /\ worker[timers[k]].pos = k
  <1>1. timers[k] \in OfflineWorkers
    BY DEF TimersTyped, OfflineWorkers, OfflineAssumption
  <1>2. /\ worker[timers[k]].who \in Controllers /\ worker[timers[k]].pos \in Positions
        /\ Key(worker[timers[k]].pos) = k
    BY DEF TimersTyped, TimerNames
  <1> QED  BY <1>1, <1>2 DEF Key

\* While a message is in work no worker acts and nothing is extended, and a
\* step that moves no worker keeps it so.
LEMMA StaysQuiet ==
    ASSUME Exclusive, reader.pc # "idle", extending' = extending,
           \A w \in OfflineWorkers : worker'[w].pc = worker[w].pc \/ worker'[w].pc = "wait"
    PROVE  ~Extending' /\ Exclusive' /\ ActsForAbsent'
  <1>1. ActingWorkers = {} /\ ~Extending
    BY DEF Exclusive
  <1>2. ActingWorkers' = {}
    BY <1>1 DEF ActingWorkers
  <1>3. ~Extending'
    BY <1>1 DEF Extending
  <1> QED  BY <1>2, <1>3 DEF Exclusive, ActsForAbsent

\* With an idle reader no row and no timer is ahead of the master's report.
LEMMA IdleOrderly ==
    ASSUME Orderly, reader.pc = "idle"
    PROVE  /\ \A c \in Controllers : RowFollows(c)
           /\ \A k \in Keys : timers[k] # 0 => seen[worker[timers[k]].who] # worker[timers[k]].pos
  BY DEF Orderly, RowsFollow, TimersForAbsent, TimerForAbsent, WillCancel

\* The arrival of a message.
LEMMA ReceiveOrderly ==
    ASSUME OfflineAssumption, Configured = Positions, ~Overlap, OfflineInv, Orderly,
           \/ \E c \in Controllers : (\E p \in Positions : Online(c, p)) \/ Offline(c)
           \/ \E listed \in [Controllers -> Where] : Sync(listed)
    PROVE  Orderly'
  <1>0. /\ TimersTyped /\ seen \in [Controllers -> Where] /\ rows \in [Controllers -> Where]
        /\ IdleReader \in ReaderRecord
    BY IdleReaderType DEF OfflineInv, BoardTyped
  <1>1. ASSUME NEW r, NEW where, ReceiveMessage(r, where)
        PROVE  /\ reader' = r /\ seen' = where /\ UNCHANGED <<rows, timers, worker, extending>>
               /\ ~Extending' /\ Exclusive' /\ ActsForAbsent'
               /\ \A c \in Controllers : RowFollows(c)
               /\ \A k \in Keys : timers[k] # 0 => seen[worker[timers[k]].who] # worker[timers[k]].pos
    <2>1. /\ reader.pc = "idle" /\ ReaderMayStep /\ reader' = r /\ seen' = where
          /\ UNCHANGED <<rows, timers, worker, extending>>
      BY <1>1 DEF ReceiveMessage, hubVars, masterVars
    <2>2. ActingWorkers = {} /\ ~Extending
      BY <2>1 DEF ReaderMayStep
    <2>3. ActingWorkers' = {} /\ ~Extending'
      BY <2>1, <2>2 DEF ActingWorkers, Extending
    <2>4. Exclusive' /\ ActsForAbsent'
      BY <2>3 DEF Exclusive, ActsForAbsent
    <2> QED  BY <2>1, <2>3, <2>4, IdleOrderly
  <1>2. ASSUME NEW c \in Controllers, NEW p \in Positions, Online(c, p)
        PROVE  Orderly'
    <2> DEFINE r == [IdleReader EXCEPT !.pc = "cancel", !.who = c, !.pos = p]
    <2>1. r.pc = "cancel" /\ r.who = c /\ r.pos = p
      BY <1>0 DEF ReaderRecord
    <2>2. ReceiveMessage(r, [seen EXCEPT ![c] = p])
      BY <1>2 DEF Online
    <2> HIDE DEF r
    <2>3. /\ reader' = r /\ UNCHANGED <<rows, timers, worker, extending>> /\ ~Extending'
          /\ seen' = [seen EXCEPT ![c] = p] /\ Exclusive' /\ ActsForAbsent'
      BY <1>1, <2>2
    <2>4. seen'[c] = p /\ \A d \in Controllers \ {c} : seen'[d] = seen[d]
      BY <1>0, <2>3
    <2>5. TimersForAbsent'
      <3> SUFFICES ASSUME NEW k \in Keys, timers[k] # 0
                   PROVE  \/ seen'[worker[timers[k]].who] # worker[timers[k]].pos
                          \/ r.pc = "cancel" /\ r.pos = worker[timers[k]].pos
        BY <2>3 DEF TimersForAbsent, TimerForAbsent, WillCancel
      <3>1. worker[timers[k]].who \in Controllers /\ seen[worker[timers[k]].who] # worker[timers[k]].pos
        BY <1>0, <1>1, <2>2, TimerPosition
      <3> QED  BY <2>1, <2>4, <3>1
    <2>6. RowsFollow'
      <3>1. \A d \in Controllers \ {c} : RowFollows(d)'
        BY <1>1, <2>2, <2>3, <2>4 DEF RowFollows
      <3> QED  BY <2>1, <2>3, <2>4, <3>1 DEF RowsFollow
    <2> QED  BY <2>3, <2>5, <2>6 DEF Orderly
  <1>3. ASSUME NEW c \in Controllers, Offline(c)
        PROVE  Orderly'
    <2> DEFINE r == [IdleReader EXCEPT !.pc = "offline", !.who = c]
    <2>1. r.pc = "offline" /\ r.who = c
      BY <1>0 DEF ReaderRecord
    <2>2. ReceiveMessage(r, [seen EXCEPT ![c] = None])
      BY <1>3 DEF Offline
    <2> HIDE DEF r
    <2>3. /\ reader' = r /\ UNCHANGED <<rows, timers, worker, extending>> /\ ~Extending'
          /\ seen' = [seen EXCEPT ![c] = None] /\ Exclusive' /\ ActsForAbsent'
      BY <1>1, <2>2
    <2>4. seen'[c] = None /\ \A d \in Controllers \ {c} : seen'[d] = seen[d]
      BY <1>0, <2>3
    <2>5. TimersForAbsent'
      <3> SUFFICES ASSUME NEW k \in Keys, timers[k] # 0
                   PROVE  seen'[worker[timers[k]].who] # worker[timers[k]].pos
        BY <2>3 DEF TimersForAbsent, TimerForAbsent, WillCancel
      <3>1. /\ worker[timers[k]].who \in Controllers /\ seen[worker[timers[k]].who] # worker[timers[k]].pos
            /\ worker[timers[k]].pos \in Positions
        BY <1>0, <1>1, <2>2, TimerPosition
      <3> QED  BY <2>4, <3>1 DEF OfflineAssumption
    <2>6. RowsFollow'
      <3>1. \A d \in Controllers : RowFollows(d)'
        BY <1>1, <2>2, <2>3, <2>4 DEF RowFollows
      <3> QED  BY <2>1, <2>3, <2>4, <3>1 DEF RowsFollow
    <2> QED  BY <2>3, <2>5, <2>6 DEF Orderly
  <1>4. ASSUME NEW listed \in [Controllers -> Where], Sync(listed)
        PROVE  Orderly'
    <2> DEFINE T == {c \in Controllers : listed[c] # None}
               r == [IdleReader EXCEPT !.pc = "upsert", !.listed = listed, !.cache = rows, !.todo = T]
    <2>1. ReceiveMessage(r, listed)
      BY <1>4 DEF Sync
    <2>2. r.pc = "upsert" /\ r.listed = listed /\ r.cache = rows /\ r.todo = T
      <3> HIDE DEF T
      <3> QED  BY <1>0 DEF ReaderRecord
    <2> HIDE DEF r
    <2>3. /\ reader' = r /\ UNCHANGED <<rows, timers, worker, extending>> /\ ~Extending'
          /\ seen' = listed /\ Exclusive' /\ ActsForAbsent'
      BY <1>1, <2>1
    <2>5. TimersForAbsent'
      <3> SUFFICES ASSUME NEW k \in Keys, timers[k] # 0
                   PROVE  \/ listed[worker[timers[k]].who] # worker[timers[k]].pos
                          \/ r.pc = "upsert" /\ worker[timers[k]].who \in r.todo
        BY <2>3 DEF TimersForAbsent, TimerForAbsent, WillCancel
      <3>1. worker[timers[k]].who \in Controllers /\ worker[timers[k]].pos \in Positions
        BY <1>0, TimerPosition
      <3> QED  BY <2>2, <3>1 DEF OfflineAssumption
    <2>6. RowsFollow'
      <3>1. \A d \in Controllers \ T : RowFollows(d)'
        BY <2>3 DEF RowFollows
      <3> HIDE DEF T
      <3> QED  BY <2>2, <2>3, <3>1 DEF RowsFollow
    <2> QED  BY <2>3, <2>5, <2>6 DEF Orderly
  <1> QED  BY <1>2, <1>3, <1>4

\* The steps of a message that touch no timer.
LEMMA ReaderPlainOrderly ==
    ASSUME OfflineAssumption, Configured = Positions, OfflineInv, Orderly,
           OnlineRead \/ OnlineWrite \/ Recalculate \/ OfflineRead \/ SyncListed \/ SyncDone
    PROVE  Orderly'
  <1>0. /\ ReaderTyped /\ reader \in ReaderRecord /\ TimersTyped
        /\ rows \in [Controllers -> Where] /\ seen \in [Controllers -> Where]
        /\ Exclusive /\ ActsForAbsent /\ TimersForAbsent /\ RowsFollow
    BY DEF OfflineInv, BoardTyped, ReaderTyped, Orderly
  <1>1. UNCHANGED <<seen, timers, worker, extending, collected>> /\ reader.pc # "idle"
    BY DEF OnlineRead, OnlineWrite, Recalculate, OfflineRead, SyncListed, SyncDone, masterVars, hubVars
  <1>2. Exclusive' /\ ActsForAbsent' /\ ~Extending'
    BY <1>0, <1>1, StaysQuiet
  \* Only a reader that still has timers to cancel may leave one for a
  \* controller that is back, and none of these steps is such a reader's.
  <1>3. TimersForAbsent'
    <2>1. ~\E c \in Controllers, p \in Positions : WillCancel(c, p)
      BY DEF WillCancel, OnlineRead, OnlineWrite, Recalculate, OfflineRead, SyncListed, SyncDone
    <2> SUFFICES ASSUME NEW k \in Keys, timers[k] # 0
                 PROVE  seen[worker[timers[k]].who] # worker[timers[k]].pos
      BY <1>1, <1>2 DEF TimersForAbsent, TimerForAbsent
    <2>2. worker[timers[k]].who \in Controllers /\ worker[timers[k]].pos \in Positions
      BY <1>0, TimerPosition
    <2> QED  BY <1>0, <2>1, <2>2 DEF TimersForAbsent, TimerForAbsent
  <1>4. ASSUME RowsFollow' PROVE Orderly'
    BY <1>2, <1>3, <1>4 DEF Orderly
  <1>5. ASSUME \A c \in Controllers : RowFollows(c)', Done \/ ReaderTo("recalculate")
        PROVE  RowsFollow'
    <2>1. CASE Done
      BY <1>5, <2>1, IdleReaderType DEF Done, RowsFollow
    <2>2. CASE ReaderTo("recalculate")
      <3>1. reader'.pc = "recalculate"
        BY <1>0, <2>2, ReaderMoves DEF ReaderPc
      <3> QED  BY <1>5, <3>1 DEF RowsFollow
    <2> QED  BY <1>5, <2>1, <2>2
  <1>6. rows' = rows => \A c \in Controllers : RowFollows(c)' <=> RowFollows(c)
    BY <1>1 DEF RowFollows
  \* A reader that looks for the missing controllers.
  <1>7. ASSUME \A c \in Controllers : RowFollows(c)', reader.listed = seen,
               NEW T, reader' = [reader EXCEPT !.pc = "stale", !.todo = T]
        PROVE  RowsFollow'
    <2>1. reader'.pc = "stale" /\ reader'.listed = reader.listed
      BY <1>0, <1>7 DEF ReaderRecord
    <2> QED  BY <1>1, <1>7, <2>1 DEF RowsFollow
  <1>8. CASE OnlineRead
    <2>1. /\ rows' = rows /\ reader.pc = "read" /\ reader.who \in Controllers /\ seen[reader.who] = reader.pos
          /\ \A c \in Controllers \ {reader.who} : RowFollows(c)
      BY <1>0, <1>8 DEF OnlineRead, ReaderTyped, RowsFollow
    <2>2. CASE rows[reader.who] = reader.pos /\ (Done \/ ReaderTo("recalculate"))
      <3>1. \A c \in Controllers : RowFollows(c)'
        BY <1>6, <2>1, <2>2 DEF RowFollows
      <3> QED  BY <1>4, <1>5, <2>2, <3>1
    <2>3. CASE reader' = [reader EXCEPT !.pc = "write", !.row = rows[reader.who]]
      <3>1. /\ reader'.pc = "write" /\ reader'.who = reader.who /\ reader'.pos = reader.pos
            /\ reader'.row = rows[reader.who]
        BY <1>0, <2>3 DEF ReaderRecord
      <3>2. RowsFollow'
        BY <1>1, <1>6, <2>1, <3>1 DEF RowsFollow
      <3> QED  BY <1>4, <3>2
    <2> QED  BY <1>8, <2>2, <2>3 DEF OnlineRead
  <1>9. CASE OnlineWrite
    <2>1. /\ reader.who \in Controllers /\ seen[reader.who] = reader.pos /\ reader.row = rows[reader.who]
          /\ \A c \in Controllers \ {reader.who} : RowFollows(c)
          /\ rows' = Upserted(reader.who, reader.row, reader.pos)
      BY <1>0, <1>9 DEF OnlineWrite, ReaderTyped, RowsFollow
    <2>2. rows' = [rows EXCEPT ![reader.who] = reader.pos]
      BY <2>1 DEF Upserted
    <2>3. \A c \in Controllers : RowFollows(c)'
      BY <1>0, <1>1, <2>1, <2>2 DEF RowFollows
    <2>4. Done \/ ReaderTo("recalculate")
      BY <1>9 DEF OnlineWrite
    <2> QED  BY <1>4, <1>5, <2>3, <2>4
  <1>10. CASE Recalculate
    <2>1. rows' = rows /\ \A c \in Controllers : RowFollows(c)'
      BY <1>0, <1>6, <1>10 DEF Recalculate, RowsFollow
    <2>2. CASE reader.pc = "recalculate"
      BY <1>4, <1>5, <1>10, <2>1, <2>2 DEF Recalculate
    <2>3. CASE reader.pc = "syncSectors"
      <3>1. reader.listed = seen
        BY <1>0, <2>3 DEF RowsFollow
      <3> QED  BY <1>4, <1>7, <1>10, <2>1, <2>3, <3>1 DEF Recalculate
    <2> QED  BY <1>10, <2>2, <2>3 DEF Recalculate
  <1>11. CASE OfflineRead
    <2>1. /\ reader.who \in Controllers /\ seen[reader.who] = None
          /\ \A c \in Controllers : RowFollows(c)
      BY <1>0, <1>11 DEF OfflineRead, ReaderTyped, RowsFollow
    <2>2. CASE rows[reader.who] \in Configured
      <3>1. rows' = rows /\ reader' = [reader EXCEPT !.pc = "covered", !.row = rows[reader.who]]
        BY <1>11, <2>2 DEF OfflineRead
      <3>2. reader'.pc = "covered" /\ reader'.who = reader.who
        BY <1>0, <3>1 DEF ReaderRecord
      <3>3. RowsFollow'
        BY <1>1, <1>6, <2>1, <3>1, <3>2 DEF RowsFollow
      <3> QED  BY <1>4, <3>3
    <2>3. CASE rows[reader.who] \notin Configured
      <3>1. Done /\ rows' = [rows EXCEPT ![reader.who] = None]
        BY <1>11, <2>3 DEF OfflineRead
      <3>2. \A c \in Controllers : RowFollows(c)'
        BY <1>0, <1>1, <2>1, <3>1 DEF RowFollows
      <3> QED  BY <1>4, <1>5, <3>1, <3>2
    <2> QED  BY <2>2, <2>3
  <1>12. CASE SyncListed
    <2>1. /\ rows' = rows /\ reader.listed = seen /\ reader.todo = {}
          /\ \A c \in Controllers \ reader.todo : RowFollows(c)
      BY <1>0, <1>12 DEF SyncListed, RowsFollow
    <2>2. \A c \in Controllers : RowFollows(c)'
      BY <1>6, <2>1
    <2>3. CASE ReaderTo("syncSectors")
      <3>1. reader'.pc = "syncSectors" /\ reader'.listed = reader.listed
        BY <1>0, <2>3, ReaderMoves DEF ReaderPc
      <3>2. RowsFollow'
        BY <1>1, <2>1, <2>2, <3>1 DEF RowsFollow
      <3> QED  BY <1>4, <3>2
    <2>4. CASE ~ReaderTo("syncSectors")
      BY <1>4, <1>7, <1>12, <2>1, <2>2, <2>4 DEF SyncListed
    <2> QED  BY <2>3, <2>4
  <1>13. CASE SyncDone
    <2>1. rows' = rows /\ Done /\ \A c \in Controllers : RowFollows(c)
      BY <1>0, <1>13 DEF SyncDone, RowsFollow
    <2>2. \A c \in Controllers : RowFollows(c)'
      BY <1>6, <2>1
    <2> QED  BY <1>4, <1>5, <2>1, <2>2
  <1> QED  BY <1>8, <1>9, <1>10, <1>11, <1>12, <1>13

\* The steps of a message that cancel or start a timer.
LEMMA ReaderTimerOrderly ==
    ASSUME OfflineAssumption, Configured = Positions, OfflineInv, Orderly,
           OnlineCancel \/ OfflineCovered \/ (\E c \in Controllers : SyncUpsert(c) \/ SyncStale(c))
    PROVE  Orderly'
  <1>0. /\ ReaderTyped /\ reader \in ReaderRecord /\ TimersTyped /\ masterEpoch \in Nat
        /\ rows \in [Controllers -> Where] /\ seen \in [Controllers -> Where]
        /\ Exclusive /\ ActsForAbsent /\ TimersForAbsent /\ RowsFollow
    BY DEF OfflineInv, BoardTyped, ReaderTyped, Orderly
  <1>1. UNCHANGED <<seen, extending, collected>> /\ reader.pc # "idle"
    BY DEF OnlineCancel, OfflineCovered, SyncUpsert, SyncStale, masterVars
  <1>2. ASSUME \A w \in OfflineWorkers : worker'[w].pc = worker[w].pc \/ worker'[w].pc = "wait",
               RowsFollow',
               \A k \in Keys : TimerForAbsent(k)'
        PROVE  Orderly'
    <2>1. Exclusive' /\ ActsForAbsent' /\ ~Extending'
      BY <1>0, <1>1, <1>2, StaysQuiet
    <2>2. TimersForAbsent'
      BY <1>1, <1>2, <2>1 DEF TimersForAbsent, TimerForAbsent
    <2> QED  BY <1>2, <2>1, <2>2 DEF Orderly
  \* A timer started for a controller the master no longer sees.
  <1>3. ASSUME NEW c \in Controllers, NEW p \in Positions, ScheduleOffline(c, p), seen[c] = None,
               reader.pc \in {"covered", "stale"}, RowsFollow'
        PROVE  Orderly'
    <2>1. /\ scheduled' = scheduled + 1 /\ scheduled' \in OfflineWorkers
          /\ worker'[scheduled'].pc = "wait" /\ worker'[scheduled'].who = c /\ worker'[scheduled'].pos = p
          /\ \A w \in OfflineWorkers \ {scheduled'} : SameWork(w)
          /\ timers'[Key(p)] = scheduled'
          /\ \A k \in Keys \ {Key(p)} : timers'[k] = timers[k]
      BY <1>0, <1>3, OfflineScheduleFacts
    <2>2. \A w \in OfflineWorkers : worker'[w].pc = worker[w].pc \/ worker'[w].pc = "wait"
      BY <2>1 DEF SameWork
    <2>3. ASSUME NEW k \in Keys, timers'[k] # 0
          PROVE  seen[worker'[timers'[k]].who] # worker'[timers'[k]].pos
      <3>1. CASE k = Key(p)
        BY <1>3, <2>1, <3>1 DEF OfflineAssumption
      <3>2. CASE k # Key(p)
        <4>1. timers[k] \in OfflineWorkers /\ timers'[k] = timers[k] /\ timers[k] # scheduled'
          BY <1>0, <2>1, <2>3, <3>2, TimerPosition DEF TimersTyped
        <4>2. worker'[timers[k]].who = worker[timers[k]].who /\ worker'[timers[k]].pos = worker[timers[k]].pos
          BY <2>1, <4>1 DEF SameWork
        <4>3. seen[worker[timers[k]].who] # worker[timers[k]].pos
          BY <1>0, <1>3, <2>3, <4>1 DEF TimersForAbsent, TimerForAbsent, WillCancel
        <4> QED  BY <4>1, <4>2, <4>3
      <3> QED  BY <3>1, <3>2
    <2> QED  BY <1>1, <1>2, <1>3, <2>2, <2>3 DEF TimerForAbsent
  <1>4. CASE OnlineCancel
    <2>1. /\ reader.pc = "cancel" /\ reader.who \in Controllers /\ reader.pos \in Positions
          /\ rows' = rows /\ CancelTimer(reader.pos) /\ ReaderTo("read")
          /\ seen[reader.who] = reader.pos /\ \A c \in Controllers \ {reader.who} : RowFollows(c)
      BY <1>0, <1>4 DEF OnlineCancel, ReaderTyped, RowsFollow
    <2>2. reader'.pc = "read" /\ reader'.who = reader.who /\ reader'.pos = reader.pos
      BY <1>0, <2>1, ReaderMoves DEF ReaderPc
    <2>3. RowsFollow'
      BY <1>1, <2>1, <2>2 DEF RowsFollow, RowFollows
    <2>4. /\ \A w \in OfflineWorkers : SameWork(w)
          /\ timers'[reader.pos] = 0 /\ \A k \in Keys \ {reader.pos} : timers'[k] = timers[k]
      BY <1>0, <2>1, CancelFacts DEF Where
    <2>5. ASSUME NEW k \in Keys, timers'[k] # 0
          PROVE  seen[worker'[timers'[k]].who] # worker'[timers'[k]].pos
      <3>1. k # reader.pos /\ timers'[k] = timers[k]
        BY <2>4, <2>5
      <3>2. timers[k] \in OfflineWorkers /\ worker[timers[k]].pos = k
        BY <1>0, <2>5, <3>1, TimerPosition
      <3>3. seen[worker[timers[k]].who] # worker[timers[k]].pos
        BY <1>0, <2>1, <2>5, <3>1, <3>2 DEF TimersForAbsent, TimerForAbsent, WillCancel
      <3> QED  BY <2>4, <3>1, <3>2, <3>3 DEF SameWork
    <2> QED  BY <1>1, <1>2, <2>3, <2>4, <2>5 DEF SameWork, TimerForAbsent
  <1>5. CASE OfflineCovered
    <2>1. /\ reader.pc = "covered" /\ reader.who \in Controllers /\ reader.row \in Positions /\ Done
          /\ seen[reader.who] = None /\ \A c \in Controllers : RowFollows(c)
      BY <1>0, <1>5 DEF OfflineCovered, ReaderTyped, RowsFollow
    <2>2. (\A c \in Controllers : RowFollows(c)') => RowsFollow'
      BY <2>1, IdleReaderType DEF Done, RowsFollow
    <2>3. CASE rows' = [rows EXCEPT ![reader.who] = None] /\ UNCHANGED hubVars
      <3>1. \A c \in Controllers : RowFollows(c)'
        BY <1>0, <1>1, <2>1, <2>3 DEF RowFollows
      <3>2. \A k \in Keys : timers[k] # 0 => seen[worker[timers[k]].who] # worker[timers[k]].pos
        BY <1>0, <2>1 DEF TimersForAbsent, TimerForAbsent, WillCancel
      <3>3. timers' = timers /\ worker' = worker
        BY <2>3 DEF hubVars
      <3> QED  BY <1>1, <1>2, <2>2, <3>1, <3>2, <3>3 DEF TimerForAbsent
    <2>4. CASE ScheduleOffline(reader.who, reader.row) /\ UNCHANGED rows
      <3>1. \A c \in Controllers : RowFollows(c)'
        BY <1>1, <2>1, <2>4 DEF RowFollows
      <3> QED  BY <1>3, <2>1, <2>2, <2>4, <3>1
    <2> QED  BY <1>5, <2>3, <2>4 DEF OfflineCovered
  <1>6. ASSUME NEW c \in Controllers, SyncUpsert(c)
        PROVE  Orderly'
    <2> DEFINE p == reader.listed[c]
               T == reader.todo \ {c}
               K == [reader.cache EXCEPT ![c] = p]
               g == reader.changed \/ reader.cache[c] # p
    <2>1. /\ reader.pc = "upsert" /\ c \in reader.todo /\ CancelTimer(p)
          /\ IF reader.cache[c] = p THEN rows' = rows ELSE rows' = Upserted(c, reader.cache[c], p)
          /\ reader' = [reader EXCEPT !.todo = T, !.cache = K, !.changed = g]
      BY <1>6 DEF SyncUpsert
    <2>2. /\ reader.listed = seen /\ reader.cache = rows
          /\ \A d \in Controllers \ reader.todo : RowFollows(d)
      BY <1>0, <2>1 DEF RowsFollow
    <2>3. p = seen[c] /\ p \in Positions
      BY <1>0, <2>1, <2>2 DEF ReaderTyped, Where
    <2>4. rows' = [rows EXCEPT ![c] = p] /\ K = rows'
      BY <1>0, <2>1, <2>2 DEF Upserted
    <2> HIDE DEF p, K, g
    <2>5. /\ reader'.pc = "upsert" /\ reader'.todo = T /\ reader'.listed = reader.listed
          /\ reader'.cache = K
      BY <1>0, <2>1 DEF ReaderRecord
    <2>6. \A d \in Controllers \ T : RowFollows(d)'
      BY <1>0, <1>1, <2>2, <2>3, <2>4 DEF RowFollows
    <2>7. RowsFollow'
      <3> HIDE DEF T
      <3> QED  BY <1>1, <2>2, <2>4, <2>5, <2>6 DEF RowsFollow
    <2>8. /\ \A w \in OfflineWorkers : SameWork(w)
          /\ timers'[p] = 0 /\ \A k \in Keys \ {p} : timers'[k] = timers[k]
      BY <1>0, <2>1, <2>3, CancelFacts DEF Where
    <2>9. ASSUME NEW k \in Keys, timers'[k] # 0
          PROVE  TimerForAbsent(k)'
      <3>1. k # p /\ timers'[k] = timers[k]
        BY <2>8, <2>9
      <3>2. timers[k] \in OfflineWorkers /\ worker[timers[k]].pos = k
        BY <1>0, <2>9, <3>1, TimerPosition
      <3>3. worker'[timers[k]].who = worker[timers[k]].who /\ worker'[timers[k]].pos = k
        BY <2>8, <3>2 DEF SameWork
      <3>4. seen[worker[timers[k]].who] # k \/ worker[timers[k]].who \in T
        BY <1>0, <2>1, <2>3, <2>9, <3>1, <3>2 DEF TimersForAbsent, TimerForAbsent, WillCancel
      <3> HIDE DEF T
      <3> QED  BY <1>1, <2>5, <3>1, <3>3, <3>4 DEF TimerForAbsent, WillCancel
    <2> QED  BY <1>2, <2>7, <2>8, <2>9 DEF SameWork, TimerForAbsent
  <1>7. ASSUME NEW c \in Controllers, SyncStale(c)
        PROVE  Orderly'
    <2> DEFINE T == reader.todo \ {c}
    <2>1. /\ reader.pc = "stale" /\ c \in reader.todo /\ ScheduleOffline(c, reader.cache[c]) /\ rows' = rows
          /\ reader' = [reader EXCEPT !.todo = T]
      BY <1>7 DEF SyncStale
    <2>2. /\ reader.listed = seen /\ \A d \in Controllers : RowFollows(d)
          /\ reader.cache[c] # None /\ reader.listed[c] = None
      BY <1>0, <2>1 DEF RowsFollow, ReaderTyped
    <2>3. reader.cache[c] \in Positions
      BY <1>0, <2>2 DEF ReaderRecord, Where
    <2>4. reader'.pc = "stale" /\ reader'.listed = reader.listed
      BY <1>0, <2>1 DEF ReaderRecord
    <2>5. RowsFollow'
      BY <1>1, <2>1, <2>2, <2>4 DEF RowsFollow, RowFollows
    <2> QED  BY <1>3, <2>1, <2>2, <2>3, <2>5
  <1> QED  BY <1>4, <1>5, <1>6, <1>7

\* The steps of an offline worker: it acts alone, for a controller the master
\* does not see where its row is.
LEMMA WorkerOrderly ==
    ASSUME OfflineAssumption, Configured = Positions, ~Overlap, OfflineInv, Orderly,
           NEW w \in OfflineWorkers, OfflineWorkerStep(w)
    PROVE  Orderly'
  <1>0. /\ TimersTyped /\ rows \in [Controllers -> Where] /\ seen \in [Controllers -> Where]
        /\ worker \in [OfflineWorkers -> WorkerRecord] /\ worker[w] \in WorkerRecord
        /\ Exclusive /\ ActsForAbsent /\ TimersForAbsent /\ RowsFollow
    BY DEF OfflineInv, BoardTyped, TimersTyped, Orderly
  <1>1. UNCHANGED <<seen, reader, extending, collected>>
    BY DEF OfflineWorkerStep, Expire, LookUpTimer, ClassifyRow, ClassifyOthers, DropRow, Announce, masterVars
  \* What a step does to the workers.
  <1>2. ASSUME NEW s \in WorkerPc, StepTo(w, s)
        PROVE  /\ worker'[w].pc = s /\ worker'[w].who = worker[w].who /\ worker'[w].pos = worker[w].pos
               /\ \A u \in OfflineWorkers \ {w} : worker'[u] = worker[u]
    BY <1>0, <1>2 DEF StepTo, WorkerRecord
  \* The timers: none is new.
  <1>3. TimersForAbsent'
    <2>1. \A u \in OfflineWorkers : worker'[u].who = worker[u].who /\ worker'[u].pos = worker[u].pos
      <3>1. ASSUME NEW s, StepTo(w, s)
            PROVE  worker'[w].who = worker[w].who /\ worker'[w].pos = worker[w].pos
                   /\ \A u \in OfflineWorkers \ {w} : worker'[u] = worker[u]
        BY <1>0, <3>1 DEF StepTo, WorkerRecord
      <3>2. \E s : StepTo(w, s)
        BY DEF OfflineWorkerStep, Expire, LookUpTimer, ClassifyRow, ClassifyOthers, DropRow, Announce
      <3> QED  BY <3>1, <3>2
    <2>2. \A k \in Keys : timers'[k] # 0 => timers'[k] = timers[k]
      BY <1>0
      DEF TimersTyped, OfflineWorkerStep, Expire, LookUpTimer, ClassifyRow, ClassifyOthers, DropRow, Announce
    <2>3. \A k \in Keys : timers[k] # 0 => timers[k] \in OfflineWorkers
      BY <1>0, TimerPosition
    <2> QED  BY <1>0, <1>1, <2>1, <2>2, <2>3 DEF TimersForAbsent, TimerForAbsent, WillCancel, Extending
  \* A worker that does not act yet, or no longer.
  <1>4. ASSUME NEW s \in {"look", "done"}, StepTo(w, s), rows' = rows
        PROVE  Orderly'
    <2>1. worker'[w].pc = s /\ \A u \in OfflineWorkers \ {w} : worker'[u] = worker[u]
      BY <1>2, <1>4 DEF WorkerPc
    <2>2. ActingWorkers' \subseteq ActingWorkers /\ ActingWorkers \subseteq OfflineWorkers /\ w \notin ActingWorkers'
      BY <2>1 DEF ActingWorkers
    <2>3. Exclusive' /\ ActsForAbsent'
      <3>1. Exclusive'
        BY <1>0, <1>1, <2>2 DEF Exclusive, Extending
      <3>2. \A u \in ActingWorkers' : u \in ActingWorkers /\ worker'[u] = worker[u]
        BY <2>1, <2>2
      <3> QED  BY <1>0, <1>1, <3>1, <3>2 DEF ActsForAbsent
    <2>4. RowsFollow'
      BY <1>0, <1>1, <1>4 DEF RowsFollow, RowFollows
    <2> QED  BY <1>3, <2>3, <2>4 DEF Orderly
  \* An acting worker that goes on.
  <1>5. ASSUME w \in ActingWorkers, NEW s \in {"others", "drop", "dropSilently", "announce", "done"}, StepTo(w, s),
               s \in {"others", "drop", "dropSilently"} => seen[worker[w].who] = None,
               RowsFollow'
        PROVE  Orderly'
    <2>1. /\ worker'[w].pc = s /\ worker'[w].who = worker[w].who /\ worker'[w].pos = worker[w].pos
          /\ \A u \in OfflineWorkers \ {w} : worker'[u] = worker[u]
      BY <1>2, <1>5 DEF WorkerPc
    <2>2. ActingWorkers' \subseteq ActingWorkers /\ ActingWorkers \subseteq OfflineWorkers
      BY <1>5, <2>1 DEF ActingWorkers
    <2>3. Exclusive' /\ ActsForAbsent'
      <3>1. Exclusive'
        BY <1>0, <1>1, <2>2 DEF Exclusive, Extending
      <3>2. ASSUME NEW u \in ActingWorkers', u # w
            PROVE  u \in ActingWorkers /\ worker'[u] = worker[u]
        BY <2>1, <2>2, <3>2
      <3>3. w \in ActingWorkers' => s # "done"
        BY <2>1 DEF ActingWorkers
      <3> QED  BY <1>0, <1>1, <1>5, <2>1, <3>1, <3>2, <3>3 DEF ActsForAbsent
    <2> QED  BY <1>3, <1>5, <2>3 DEF Orderly
  <1>6. w \in ActingWorkers =>
           /\ reader.pc = "idle" /\ worker[w].who \in Controllers /\ seen[worker[w].who] # worker[w].pos
           /\ worker[w].pc \in {"others", "drop", "dropSilently"} => seen[worker[w].who] = None
           /\ \A c \in Controllers : RowFollows(c)
    BY <1>0 DEF Exclusive, ActsForAbsent, RowsFollow
  <1>7. rows' = rows => RowsFollow'
    BY <1>0, <1>1 DEF RowsFollow, RowFollows
  <1>8. CASE Expire(w)
    BY <1>4, <1>8 DEF Expire
  <1>9. CASE LookUpTimer(w)
    <2>1. CASE timers[Key(worker[w].pos)] # w
      BY <1>4, <1>9, <2>1 DEF LookUpTimer
    <2>2. CASE timers[Key(worker[w].pos)] = w
      <3>1. /\ StepTo(w, "classify") /\ rows' = rows
            /\ reader.pc = "idle" /\ ActingWorkers = {} /\ ~Extending
        BY <1>9, <2>2 DEF LookUpTimer, WorkerMayAct
      <3>2. Key(worker[w].pos) \in Keys /\ w # 0
        BY <1>0, KeyType DEF WorkerRecord, OfflineWorkers
      <3>3. worker[w].who \in Controllers /\ worker[w].pos \in Positions
        BY <1>0, <2>2, <3>2, TimerPosition
      <3>4. seen[worker[w].who] # worker[w].pos
        BY <2>2, <3>1, <3>2, IdleOrderly
      <3>5. /\ worker'[w].pc = "classify" /\ worker'[w].who = worker[w].who /\ worker'[w].pos = worker[w].pos
            /\ \A u \in OfflineWorkers \ {w} : worker'[u] = worker[u]
        BY <1>2, <3>1 DEF WorkerPc
      <3>6. ActingWorkers' \subseteq {w}
        BY <3>1, <3>5 DEF ActingWorkers
      <3>7. Exclusive' /\ ActsForAbsent'
        BY <1>1, <3>1, <3>3, <3>4, <3>5, <3>6 DEF Exclusive, ActsForAbsent, Extending
      <3> QED  BY <1>3, <1>7, <3>1, <3>7 DEF Orderly
    <2> QED  BY <2>1, <2>2
  <1>10. CASE ClassifyRow(w)
    <2>1. w \in ActingWorkers /\ rows' = rows
      BY <1>10 DEF ClassifyRow, ActingWorkers
    <2>2. CASE rows[worker[w].who] = worker[w].pos /\ StepTo(w, "others")
      <3>2. seen[worker[w].who] = None
        BY <1>6, <2>1, <2>2 DEF RowFollows
      <3> QED  BY <1>5, <1>7, <2>1, <2>2, <3>2
    <2>3. CASE StepTo(w, "done")
      BY <1>4, <1>10, <2>1, <2>3 DEF ClassifyRow
    <2> QED  BY <1>10, <2>2, <2>3, ClassifyTo
  <1>11. CASE ClassifyOthers(w)
    <2>1. w \in ActingWorkers /\ rows' = rows
      BY <1>11 DEF ClassifyOthers, ActingWorkers
    <2>2. seen[worker[w].who] = None
      BY <1>6, <1>11, <2>1 DEF ClassifyOthers
    <2>3. CASE StepTo(w, "drop") \/ StepTo(w, "dropSilently")
      BY <1>5, <1>7, <2>1, <2>2, <2>3
    <2>4. CASE StepTo(w, "done")
      BY <1>4, <1>11, <2>1, <2>4 DEF ClassifyOthers
    <2> QED  BY <1>11, <2>3, <2>4, ClassifyTo
  <1>12. CASE DropRow(w)
    <2>1. /\ w \in ActingWorkers
          /\ StepTo(w, "announce") \/ StepTo(w, "done")
      BY <1>12 DEF DropRow, ActingWorkers
    <2>2. seen[worker[w].who] = None
      BY <1>6, <1>12, <2>1 DEF DropRow
    <2>3. CASE rows' = [rows EXCEPT ![worker[w].who] = None]
      <3>1. \A c \in Controllers : RowFollows(c)'
        BY <1>0, <1>1, <1>6, <2>1, <2>2, <2>3 DEF RowFollows
      <3>2. RowsFollow'
        BY <1>1, <1>6, <2>1, <3>1 DEF RowsFollow
      <3> QED  BY <1>5, <2>1, <3>2
    <2>4. CASE rows' = rows
      BY <1>5, <1>7, <2>1, <2>4
    <2> QED  BY <1>12, <2>3, <2>4, ClassifyTo
  <1>13. CASE Announce(w)
    BY <1>4, <1>13 DEF Announce
  <1> QED  BY <1>8, <1>9, <1>10, <1>11, <1>12, <1>13 DEF OfflineWorkerStep

\* A change of master, and extendSessionTimers.
LEMMA MasterOrderly ==
    ASSUME OfflineAssumption, Configured = Positions, ~Overlap, OfflineInv, Orderly,
           MasterLeaves \/ ChangeMaster \/ ExtendStep
    PROVE  Orderly'
  <1>0. /\ TimersTyped /\ masterEpoch \in Nat /\ collected \subseteq [who : Controllers, pos : Positions]
        /\ worker \in [OfflineWorkers -> WorkerRecord]
        /\ Exclusive /\ ActsForAbsent /\ TimersForAbsent /\ RowsFollow
    BY DEF OfflineInv, BoardTyped, TimersTyped, Orderly
  <1>1. UNCHANGED <<rows, seen, reader>> /\ RowsFollow'
    <2>1. UNCHANGED <<rows, seen, reader>>
      BY DEF MasterLeaves, ChangeMaster, ExtendStep, ExtendCollect, ExtendOne, ExtendDone
    <2> QED  BY <1>0, <2>1 DEF RowsFollow, RowFollows
  <1>2. CASE MasterLeaves
    <2>1. UNCHANGED <<extending, collected, timers, worker>>
      BY <1>2 DEF MasterLeaves, hubVars
    <2>2. Exclusive' /\ ActsForAbsent' /\ TimersForAbsent'
      BY <1>0, <1>1, <2>1
      DEF Exclusive, ActsForAbsent, TimersForAbsent, TimerForAbsent, WillCancel, ActingWorkers, Extending
    <2> QED  BY <1>1, <2>2 DEF Orderly
  <1>3. CASE ChangeMaster
    <2>1. /\ reader.pc = "idle" /\ ActingWorkers = {} /\ collected' = collected
          /\ timers' = [k \in Keys |-> 0] /\ (Extending' => Extending)
          /\ worker' = [w \in OfflineWorkers |-> [worker[w] EXCEPT !.live = FALSE]]
      BY <1>3 DEF ChangeMaster, Extending
    <2>2. \A w \in OfflineWorkers : worker'[w].pc = worker[w].pc
      BY <1>0, <2>1 DEF WorkerRecord
    <2>3. ActingWorkers' = {}
      BY <2>1, <2>2 DEF ActingWorkers
    <2>4. Exclusive' /\ ActsForAbsent'
      BY <1>1, <2>1, <2>3 DEF Exclusive, ActsForAbsent
    <2>5. TimersForAbsent'
      BY <1>0, <1>1, <2>1 DEF TimersForAbsent, TimerForAbsent
    <2> QED  BY <1>1, <2>4, <2>5 DEF Orderly
  <1>4. CASE ExtendCollect
    <2>1. /\ reader.pc = "idle" /\ ActingWorkers = {} /\ UNCHANGED <<timers, worker>>
          /\ collected' = {[who |-> worker[timers[k]].who, pos |-> worker[timers[k]].pos] :
                              k \in {j \in Keys : timers[j] # 0}}
      BY <1>4 DEF ExtendCollect, WorkerMayAct, hubVars
    <2>2. ActingWorkers' = {}
      BY <2>1 DEF ActingWorkers
    <2>3. Exclusive' /\ ActsForAbsent'
      BY <1>1, <2>1, <2>2 DEF Exclusive, ActsForAbsent
    <2>4. \A k \in Keys : timers[k] # 0 => seen[worker[timers[k]].who] # worker[timers[k]].pos
      BY <2>1, IdleOrderly
    <2>5. \A e \in collected' : seen[e.who] # e.pos
      BY <2>1, <2>4
    <2>6. TimersForAbsent'
      BY <1>1, <2>1, <2>4, <2>5 DEF TimersForAbsent, TimerForAbsent
    <2> QED  BY <1>1, <2>3, <2>6 DEF Orderly
  <1>5. ASSUME NEW e \in collected, ExtendOne(e)
        PROVE  Orderly'
    <2>1. /\ Extending /\ extending' = extending /\ collected' = collected \ {e}
          /\ e.who \in Controllers /\ e.pos \in Positions /\ ScheduleOffline(e.who, e.pos)
      BY <1>0, <1>5 DEF ExtendOne
    <2>2. reader.pc = "idle" /\ ActingWorkers = {} /\ seen[e.who] # e.pos
      BY <1>0, <2>1 DEF Exclusive, TimersForAbsent, TimerForAbsent
    <2>3. /\ scheduled' = scheduled + 1 /\ scheduled' \in OfflineWorkers
          /\ worker'[scheduled'].pc = "wait" /\ worker'[scheduled'].who = e.who /\ worker'[scheduled'].pos = e.pos
          /\ \A w \in OfflineWorkers \ {scheduled'} : SameWork(w)
          /\ timers'[Key(e.pos)] = scheduled'
          /\ \A k \in Keys \ {Key(e.pos)} : timers'[k] = timers[k]
      BY <1>0, <2>1, OfflineScheduleFacts
    <2>4. ActingWorkers' = {}
      BY <2>2, <2>3 DEF ActingWorkers, SameWork
    <2>5. Exclusive' /\ ActsForAbsent'
      BY <1>1, <2>2, <2>4 DEF Exclusive, ActsForAbsent
    <2>6. ASSUME NEW k \in Keys, timers'[k] # 0
          PROVE  seen[worker'[timers'[k]].who] # worker'[timers'[k]].pos
      <3>1. CASE k = Key(e.pos)
        BY <2>2, <2>3, <3>1
      <3>2. CASE k # Key(e.pos)
        <4>1. timers[k] \in OfflineWorkers /\ timers'[k] = timers[k] /\ timers[k] # scheduled'
          BY <1>0, <2>3, <2>6, <3>2, TimerPosition DEF TimersTyped
        <4>2. worker'[timers[k]].who = worker[timers[k]].who /\ worker'[timers[k]].pos = worker[timers[k]].pos
          BY <2>3, <4>1 DEF SameWork
        <4>3. seen[worker[timers[k]].who] # worker[timers[k]].pos
          BY <2>2, <2>6, <4>1, IdleOrderly
        <4> QED  BY <4>1, <4>2, <4>3
      <3> QED  BY <3>1, <3>2
    <2>7. TimersForAbsent'
      BY <1>0, <1>1, <2>1, <2>6 DEF TimersForAbsent, TimerForAbsent
    <2> QED  BY <1>1, <2>5, <2>7 DEF Orderly
  <1>6. CASE ExtendDone
    <2>1. UNCHANGED <<collected, timers, worker>> /\ extending' = "idle"
      BY <1>6 DEF ExtendDone, hubVars
    <2>2. ~Extending'
      BY <2>1 DEF Extending
    <2>3. Exclusive' /\ ActsForAbsent' /\ TimersForAbsent'
      BY <1>0, <1>1, <2>1, <2>2
      DEF Exclusive, ActsForAbsent, TimersForAbsent, TimerForAbsent, WillCancel, ActingWorkers, Extending
    <2> QED  BY <1>1, <2>3 DEF Orderly
  <1> QED  BY <1>2, <1>3, <1>4, <1>5, <1>6 DEF ExtendStep

\* OfflineInit establishes the invariant.
LEMMA InitOrderly == OfflineAssumption /\ OfflineInit => Orderly
  <1> SUFFICES ASSUME OfflineAssumption, OfflineInit PROVE Orderly
    OBVIOUS
  <1>1. reader.pc = "idle" /\ extending = "idle" /\ seen = rows
    BY IdleReaderType DEF OfflineInit
  <1>2. ActingWorkers = {}
    BY DEF OfflineInit, ActingWorkers, NoWorker
  <1>3. \A k \in Keys : timers[k] = 0
    BY DEF OfflineInit
  <1>4. TimersForAbsent
    BY <1>1, <1>3 DEF TimersForAbsent, TimerForAbsent, Extending
  <1> QED  BY <1>1, <1>2, <1>4 DEF Orderly, Exclusive, ActsForAbsent, RowsFollow, RowFollows, Extending

\* Every step of the orderly schedule preserves the invariant.
LEMMA StepOrderly ==
    ASSUME OfflineAssumption, Configured = Positions, ~Overlap, OfflineInv, Orderly, [OfflineNext]_offlineVars
    PROVE  Orderly'
  <1>1. ASSUME UNCHANGED <<rows, seen, reader, timers, worker, extending, collected>>
        PROVE  Orderly'
    BY <1>1
    DEF Orderly, Exclusive, ActsForAbsent, TimersForAbsent, TimerForAbsent, RowsFollow, RowFollows, WillCancel, ActingWorkers,
        Extending
  <1>2. CASE UNCHANGED offlineVars
    BY <1>1, <1>2 DEF offlineVars, hubVars, masterVars
  <1>3. CASE \E b \in Batches : BatchStep(b)
    BY <1>1, <1>3 DEF BatchStep, WindowFires, Consume, RunUpdate, hubVars, masterVars
  <1>4. CASE ReaderStep
    BY <1>4, ReaderPlainOrderly, ReaderTimerOrderly DEF ReaderStep
  <1> QED
    BY <1>2, <1>3, <1>4, ReceiveOrderly, WorkerOrderly, MasterOrderly DEF OfflineNext

\* When a message and an expiry do not overlap and every position is
\* configured, a controller the master sees keeps its row: no worker started
\* when it left, moved or was missing from a list takes the row of a
\* controller that is back.
THEOREM OfflineOnlineKeepsRow ==
    ASSUME ~Overlap, Configured = Positions
    PROVE  OfflineSpec => []OnlineKeepsRow
  <1>1. OfflineInit => Orderly
    BY OfflineAssumption, InitOrderly
  <1>2. OfflineInv /\ Orderly /\ [OfflineNext]_offlineVars => Orderly'
    BY OfflineAssumption, StepOrderly
  <1>3. Orderly => OnlineKeepsRow
    BY IdleOrderly DEF OnlineKeepsRow, RowFollows
  <1> QED  BY <1>1, <1>2, <1>3, OfflineInvariant, PTL DEF OfflineSpec

=============================================================================
