-------------------------- MODULE ViffExportProofs --------------------------
(***************************************************************************)
(* Proofs about ViffExport for any payloads, workers, callers and bounds.  *)
(* A reservation is tied to its worker, the export lock to the worker or   *)
(* completion that sends under it, and a worker that sends while another   *)
(* export owns the entry can only be one of a session already forgotten.   *)
(***************************************************************************)
EXTENDS ViffExport, TLAPS

Entries ==
    [owner : Workers \cup {"none"}, conf : States \cup {NoState}, exh : States \cup {NoState},
     pend : Proposal \cup {NoProp}, failing : BOOLEAN, refresh : BOOLEAN]
Attempts == [p : Proposal \cup {NoProp}, refresh : BOOLEAN]

DataOK ==
    /\ data \in Proposal /\ sent \in Vals \cup {0} /\ rea \in 0..MaxReady
    /\ issued \in 0..MaxTokens /\ held \subseteq Tokens /\ open \subseteq Tokens
    /\ changes \in 0..MaxChanges /\ readies \in 0..MaxReady /\ faults \in 0..MaxFaults

WorkersOK ==
    /\ wpc \in [Workers -> {"idle", "wait", "send"}]
    /\ att \in [Workers -> Attempts]
    /\ \A w \in Workers : wpc[w] # "idle" => att[w].p # NoProp

CallersOK ==
    /\ cpc \in [Callers -> {"idle", "load", "begin", "direct", "save"}]
    /\ kind \in [Callers -> {"recalc", "clx", "direct"}]
    /\ cprop \in [Callers -> Proposal \cup {NoProp}]
    /\ \A c \in Callers : cpc[c] \in {"begin", "direct", "save"} => cprop[c] # NoProp

CompletersOK ==
    /\ dpc \in [Completers -> {"idle", "lock", "calc", "push", "ack", "reload", "export"}]
    /\ dprop \in [Completers -> Proposal \cup {NoProp}]
    /\ dpc["poll"] = "export" => dprop["poll"] # NoProp

\* The export lock: a worker that sends and a completion past REA/1 hold it,
\* and the sending worker owns the entry unless the session is forgotten.
SendersHold ==
    \A w \in Workers : wpc[w] = "send" =>
        lock = w /\ (entry.owner = w \/ removed = "cleared")

CompletersHold ==
    \A d \in Completers : dpc[d] \in {"calc", "push", "ack"} => lock = d

\* The tracker's entry and the workers.
TrackerOK ==
    /\ entry \in Entries /\ WorkersOK
    /\ SendersHold /\ ReservationAlive /\ RemovedForgotten

Inv ==
    /\ DataOK
    /\ lock \in Workers \cup Completers \cup {"none"}
    /\ removed \in {"no", "cancelled", "cleared"}
    /\ TrackerOK /\ CallersOK
    /\ CompletersOK /\ CompletersHold

\* No proposal carries data persisted under a READY.
NoReadyProposed ==
    /\ \A c \in Callers : kind[c] # "clx" /\ (cpc[c] = "begin" => cprop[c].r = 0)
    /\ dpc["poll"] = "export" => dprop["poll"].r = 0
    /\ entry.pend.r = 0
    /\ \A w \in Workers : att[w].p.r = 0

-----------------------------------------------------------------------------
\* A proposal carries a payload, the empty one none; the lock's idle value is
\* no worker and no completion.
LEMMA Basics ==
    /\ NoProp \notin Proposal
    /\ \A p \in Proposal \cup {NoProp} : p.v \in Vals \cup {0} /\ p.r \in 0..MaxReady
    /\ \A p \in Proposal \cup {NoProp} :
          State(p) \in States \cup {NoState} /\ [v |-> p.v, u |-> 0] \in States \cup {NoState}
    /\ \A p \in Proposal \cup {NoProp} : p # NoProp => p \in Proposal /\ p.v # 0
    /\ \A p \in Proposal \cup {NoProp} : p.r # 0 => p \in Proposal
    /\ \A w \in Workers : w # "none" /\ w # "handler" /\ w # "poll"
    /\ Fresh \in Entries /\ NoAttempt \in Attempts
    /\ Fresh.owner = "none" /\ Fresh.conf = NoState /\ NoAttempt.p = NoProp
  BY ViffAssumption
  DEF NoProp, Proposal, Fresh, Entries, NoAttempt, Attempts, NoState, State, States

\* begin keeps the tracker consistent: a queued proposal disturbs nothing, and
\* a new reservation comes with the worker it starts.
LEMMA BeginGood ==
    ASSUME Inv, NEW q \in Proposal, Begin(q), UNCHANGED <<lock, removed>>
    PROVE  TrackerOK'
  <1> USE Basics
  <1>0. /\ entry \in Entries /\ WorkersOK /\ SendersHold /\ ReservationAlive /\ RemovedForgotten
        /\ q # NoProp
    BY DEF Inv, TrackerOK
  <1>1. CASE Accepts /\ Owned
    <2>1. entry' = [entry EXCEPT !.pend = q] /\ UNCHANGED <<wpc, att>>
      BY <1>1 DEF Begin
    <2>2. entry' \in Entries /\ entry'.owner = entry.owner
      BY <1>0, <2>1 DEF Entries
    <2>3. removed' # "cleared"
      BY <1>1 DEF Accepts
    <2> QED
      BY <1>0, <2>1, <2>2, <2>3
      DEF TrackerOK, WorkersOK, SendersHold, ReservationAlive, RemovedForgotten, Owned
  <1>2. CASE ~Accepts \/ Settled(q)
    <2>1. CASE Accepts /\ Owned
      BY <1>1, <2>1
    <2>2. CASE ~(Accepts /\ Owned)
      <3>1. UNCHANGED <<entry, wpc, att>>
        BY <1>2, <2>2 DEF Begin
      <3> QED
        BY <1>0, <3>1
        DEF TrackerOK, WorkersOK, SendersHold, ReservationAlive, RemovedForgotten, Owned
    <2> QED
      BY <2>1, <2>2
  <1>3. CASE ~(Accepts /\ Owned) /\ ~(~Accepts \/ Settled(q))
    <2> DEFINE free == {w \in Workers : wpc[w] = "idle"}
               w == CHOOSE x \in free : TRUE
               fails == entry.failing /\ entry.exh = NoState
    <2>1. /\ free # {}
          /\ wpc' = [wpc EXCEPT ![w] = "wait"]
          /\ att' = [att EXCEPT ![w] = [p |-> q, refresh |-> FALSE]]
          /\ entry' = [entry EXCEPT !.owner = w, !.exh = NoState, !.failing = fails]
      BY <1>3 DEF Begin
    <2>2. w \in Workers /\ wpc[w] = "idle"
      BY <2>1
    <2>3. fails \in BOOLEAN
      OBVIOUS
    <2> HIDE DEF free, w, fails
    <2>4. entry' \in Entries /\ entry'.owner = w
      BY <1>0, <2>1, <2>2, <2>3 DEF Entries
    <2>5. removed' # "cleared" /\ ~Owned
      BY <1>3 DEF Accepts
    <2>6. [p |-> q, refresh |-> FALSE] \in Attempts
      BY DEF Attempts
    <2>7. WorkersOK'
      BY <1>0, <2>1, <2>2, <2>6 DEF WorkersOK
    <2>8. SendersHold'
      BY <1>0, <2>1, <2>2, <2>5 DEF SendersHold, WorkersOK, Owned
    <2>9. ReservationAlive' /\ RemovedForgotten'
      BY <1>0, <2>1, <2>2, <2>4, <2>5 DEF ReservationAlive, RemovedForgotten, WorkersOK, Owned
    <2> QED
      BY <2>4, <2>7, <2>8, <2>9 DEF TrackerOK
  <1> QED
    BY <1>1, <1>2, <1>3

\* A proposal without its authority changes nothing, any other goes to begin.
LEMMA OfferGood ==
    ASSUME Inv, NEW q \in Proposal, Offer(q), UNCHANGED <<lock, removed>>
    PROVE  TrackerOK'
  <1>1. CASE Begin(q)
    BY <1>1, BeginGood
  <1>2. CASE UNCHANGED <<entry, wpc, att>>
    BY <1>2
    DEF Inv, TrackerOK, WorkersOK, SendersHold, ReservationAlive, RemovedForgotten, Owned
  <1> QED
    BY <1>1, <1>2 DEF Offer

\* The deferred discard of a returning worker takes its reservation with it.
LEMMA GiveUpGood ==
    ASSUME Inv, NEW w \in Workers, wpc[w] = "wait", GiveUp(w), UNCHANGED removed
    PROVE  TrackerOK'
  <1> USE Basics
  <1>0. entry \in Entries /\ WorkersOK /\ SendersHold /\ ReservationAlive /\ RemovedForgotten
    BY DEF Inv, TrackerOK
  <1>1. /\ wpc' = [wpc EXCEPT ![w] = "idle"]
        /\ att' = [att EXCEPT ![w] = NoAttempt]
        /\ entry' = IF entry.owner = w THEN Fresh ELSE entry
        /\ lock' = lock
    BY DEF GiveUp
  <1>2. entry' \in Entries
    BY <1>0, <1>1
  <1>3. WorkersOK'
    BY <1>0, <1>1 DEF WorkersOK
  <1>4. SendersHold'
    BY <1>0, <1>1 DEF SendersHold, WorkersOK
  <1>5. ReservationAlive'
    BY <1>0, <1>1 DEF ReservationAlive, WorkersOK, Owned, Entries
  <1>6. RemovedForgotten'
    BY <1>0, <1>1 DEF RemovedForgotten
  <1> QED
    BY <1>2, <1>3, <1>4, <1>5, <1>6 DEF TrackerOK

\* A step that leaves the tracker, the workers and the session alone keeps
\* their part, as long as no sending worker loses the lock.
LEMMA TrackerFrame ==
    ASSUME Inv, UNCHANGED <<entry, wpc, att, removed>>,
           lock' = lock \/ \A w \in Workers : wpc[w] # "send"
    PROVE  TrackerOK'
  BY DEF Inv, TrackerOK, WorkersOK, SendersHold, ReservationAlive, RemovedForgotten, Owned

\* Failures of requests stay within their bound.
LEMMA RequestBounded ==
    ASSUME Inv, NEW ok, NEW authorised, Request(ok, authorised)
    PROVE  faults' \in 0..MaxFaults
  BY ViffAssumption DEF Inv, DataOK, Request

\* Tokens given out stay within their bound.
LEMMA CaptureBounded ==
    ASSUME Inv, NEW human, NEW n \in Nat, Capture(human, n)
    PROVE  /\ issued' \in 0..MaxTokens /\ held' \subseteq Tokens /\ open' \subseteq Tokens
           /\ issued' \in issued..(issued + n)
  <1>1. issued \in 0..MaxTokens /\ held \subseteq Tokens /\ open \subseteq Tokens
    BY DEF Inv, DataOK
  <1>2. issued' \in issued..(issued + n) /\ issued' \in 0..MaxTokens
    BY <1>1, ViffAssumption DEF Capture
  <1>3. (issued + 1)..issued' \subseteq Tokens
    BY <1>1, <1>2, ViffAssumption DEF Tokens
  <1> QED
    BY <1>1, <1>2, <1>3 DEF Capture

\* An acknowledged export changes no more of the row than its token.
LEMMA ExportedKeeps ==
    ASSUME Inv, NEW ok \in BOOLEAN, NEW u, Exported(ok, u)
    PROVE  data' \in Proposal /\ data'.v = data.v /\ data'.r = data.r /\ held' \subseteq Tokens
  <1>1. data \in Proposal /\ held \subseteq Tokens
    BY DEF Inv, DataOK
  <1>2. data' = data \/ data' = [data EXCEPT !.u = 0]
    BY DEF Exported, AcknowledgeAuthority
  <1>3. held' \subseteq held
    BY DEF Exported, AcknowledgeAuthority
  <1> QED
    BY <1>1, <1>2, <1>3, ViffAssumption DEF Proposal

-----------------------------------------------------------------------------
(* The inductive invariant, action by action *)

\* The initial state satisfies it.
LEMMA InvInit == Init => Inv
  <1> SUFFICES ASSUME Init PROVE Inv
    OBVIOUS
  <1> USE Basics, ViffAssumption
  <1>1. DataOK /\ removed \in {"no", "cancelled", "cleared"}
    BY DEF Init, DataOK, Proposal
  <1>2. WorkersOK /\ SendersHold
    BY DEF Init, WorkersOK, SendersHold
  <1>3. entry \in Entries /\ ReservationAlive /\ RemovedForgotten
    BY DEF Init, ReservationAlive, RemovedForgotten, Owned
  <1>4. CallersOK
    BY DEF Init, CallersOK
  <1>5. CompletersOK /\ CompletersHold
    BY DEF Init, CompletersOK, CompletersHold, Completers
  <1> QED
    BY <1>1, <1>2, <1>3, <1>4, <1>5 DEF Inv, TrackerOK, Init

\* prepare: the worker takes the lock for the newest proposal, or gives up.
LEMMA PrepareGood ==
    ASSUME Inv, NEW w \in Workers, Prepare(w)
    PROVE  Inv'
  <1> USE Basics
  <1>0. /\ wpc[w] = "wait" /\ LockFree /\ removed = "no"
        /\ UNCHANGED <<data, sent, rea, callerVars, readyVars, authVars, removed, bounds>>
    BY DEF Prepare
  <1>1. DataOK' /\ CallersOK' /\ CompletersOK' /\ removed' \in {"no", "cancelled", "cleared"}
    BY <1>0 DEF Inv, DataOK, CallersOK, CompletersOK, callerVars, readyVars, authVars, bounds
  <1>2. CompletersHold'
    BY <1>0 DEF Inv, CompletersHold, LockFree, readyVars, Completers
  <1>3. TrackerOK' /\ lock' \in Workers \cup Completers \cup {"none"}
    <2> DEFINE again == att[w].refresh \/ entry.refresh
               stop == ReadyOwns \/ ~Refreshable(Newest(att[w].p))
    <2>1. CASE entry.owner # w \/ (again /\ stop)
      <3>1. GiveUp(w)
        BY <2>1 DEF Prepare
      <3> QED
        BY <3>1, <1>0, GiveUpGood DEF Inv, GiveUp
    <2>2. CASE ~(entry.owner # w \/ (again /\ stop))
      <3> DEFINE q == IF again THEN data ELSE Newest(att[w].p)
      <3>1. /\ lock' = w
            /\ wpc' = [wpc EXCEPT ![w] = "send"]
            /\ att' = [att EXCEPT ![w] = [p |-> q, refresh |-> again]]
            /\ entry' = [entry EXCEPT !.pend = NoProp, !.refresh = FALSE]
            /\ entry.owner = w
        BY <2>2 DEF Prepare
      <3>2. entry \in Entries /\ WorkersOK /\ SendersHold /\ ReservationAlive
        BY DEF Inv, TrackerOK
      <3>3. q \in Proposal
        BY <1>0, <3>2 DEF Newest, Inv, DataOK, WorkersOK, Entries, Attempts
      <3>4. again \in BOOLEAN
        OBVIOUS
      <3> HIDE DEF q, again, stop
      <3>5. [p |-> q, refresh |-> again] \in Attempts
        BY <3>3, <3>4 DEF Attempts
      <3>6. WorkersOK'
        BY <3>1, <3>2, <3>3, <3>5 DEF WorkersOK
      <3>7. entry' \in Entries /\ entry'.owner = w
        BY <3>1, <3>2 DEF Entries
      <3>8. SendersHold'
        BY <1>0, <3>1, <3>2, <3>7 DEF SendersHold, WorkersOK, LockFree
      <3>9. ReservationAlive' /\ RemovedForgotten'
        BY <1>0, <3>1, <3>2, <3>7 DEF ReservationAlive, RemovedForgotten, WorkersOK
      <3> QED
        BY <3>1, <3>6, <3>7, <3>8, <3>9 DEF TrackerOK
    <2> QED
      BY <2>1, <2>2
  <1> QED
    BY <1>1, <1>2, <1>3 DEF Inv

\* A worker of a cancelled session returns.
LEMMA StopGood ==
    ASSUME Inv, NEW w \in Workers, Stop(w)
    PROVE  Inv'
  <1>1. /\ wpc[w] = "wait" /\ GiveUp(w) /\ lock' = lock
        /\ UNCHANGED <<data, sent, rea, callerVars, readyVars, authVars, removed, bounds>>
    BY DEF Stop, GiveUp
  <1>2. TrackerOK'
    BY <1>1, GiveUpGood
  <1> QED
    BY <1>1, <1>2
    DEF Inv, DataOK, CallersOK, CompletersOK, CompletersHold, callerVars, readyVars, authVars, bounds

\* complete: the reservation is kept exactly by a worker that sends again.
LEMMA PushGood ==
    ASSUME Inv, NEW w \in Workers, NEW ok \in BOOLEAN, NEW expired \in BOOLEAN,
           Push(w, ok, expired)
    PROVE  Inv'
  <1> USE Basics
  <1> DEFINE q == Newest(att[w].p)
             more == entry.owner = w /\ (IF ok THEN State(q) # State(att[w].p) ELSE ~expired)
             owner == IF more THEN w ELSE "none"
             conf == IF ok THEN State(att[w].p) ELSE entry.conf
             exh == IF expired THEN State(q) ELSE IF ok THEN NoState ELSE entry.exh
             failing == ~ok
             next == IF more THEN [p |-> q, refresh |-> TRUE] ELSE NoAttempt
  <1>0. /\ wpc[w] = "send"
        /\ Request(ok, Valid(att[w].p.u)) /\ Exported(ok, att[w].p.u)
        /\ sent' = IF ok THEN att[w].p.v ELSE sent
        /\ lock' = "none"
        /\ entry' = IF entry.owner # w THEN entry
                    ELSE [entry EXCEPT !.owner = owner, !.conf = conf, !.exh = exh,
                                       !.pend = NoProp, !.failing = failing]
        /\ wpc' = [wpc EXCEPT ![w] = IF more THEN "wait" ELSE "idle"]
        /\ att' = [att EXCEPT ![w] = next]
        /\ UNCHANGED <<rea, callerVars, readyVars, issued, open, removed, changes, readies>>
    BY DEF Push
  <1>1. entry \in Entries /\ WorkersOK /\ SendersHold /\ ReservationAlive /\ RemovedForgotten
    BY DEF Inv, TrackerOK
  <1>2. att[w].p \in Proposal /\ q \in Proposal
    BY <1>0, <1>1 DEF WorkersOK, Entries, Attempts, Newest
  <1>3. /\ owner \in Workers \cup {"none"} /\ conf \in States \cup {NoState} /\ exh \in States \cup {NoState}
        /\ failing \in BOOLEAN /\ next \in Attempts /\ more \in BOOLEAN
        /\ more => owner = w /\ next.p # NoProp /\ entry.owner = w
        /\ ~more => owner = "none"
    BY <1>1, <1>2 DEF Entries, Attempts
  <1> HIDE DEF q, more, owner, conf, exh, failing, next
  <1>4. /\ entry' \in Entries
        /\ entry.owner # w => entry' = entry
        /\ entry.owner = w => entry'.owner = owner
    <2>1. CASE entry.owner # w
      BY <2>1, <1>0, <1>1
    <2>2. CASE entry.owner = w
      <3>1. entry' = [entry EXCEPT !.owner = owner, !.conf = conf, !.exh = exh,
                                   !.pend = NoProp, !.failing = failing]
        BY <2>2, <1>0
      <3> QED
        BY <2>2, <3>1, <1>1, <1>3 DEF Entries
    <2> QED
      BY <2>1, <2>2
  <1>5. DataOK'
    <2>1. data' \in Proposal /\ held' \subseteq Tokens
      BY <1>0, ExportedKeeps
    <2>2. faults' \in 0..MaxFaults
      BY <1>0, RequestBounded
    <2> QED
      BY <1>0, <1>2, <2>1, <2>2 DEF Inv, DataOK
  <1>6. WorkersOK'
    BY <1>0, <1>1, <1>3 DEF WorkersOK
  <1>7. SendersHold'
    BY <1>0, <1>1 DEF SendersHold, WorkersOK
  <1>8. ReservationAlive'
    BY <1>0, <1>1, <1>3, <1>4 DEF ReservationAlive, Owned, WorkersOK, Entries
  <1>9. RemovedForgotten'
    BY <1>0, <1>1, <1>4 DEF RemovedForgotten
  <1>10. CompletersHold'
    BY <1>0, <1>1 DEF Inv, CompletersHold, SendersHold, readyVars, Completers
  <1> QED
    BY <1>0, <1>4, <1>5, <1>6, <1>7, <1>8, <1>9, <1>10
    DEF Inv, TrackerOK, CallersOK, CompletersOK, callerVars, readyVars

\* The callers' steps leave the tracker alone, up to begin; a direct export
\* and the row it writes back touch neither the tracker nor the lock.
LEMMA CallerGood ==
    ASSUME Inv, NEW c \in Callers,
           \/ \E k \in Kinds, v \in Vals, human \in BOOLEAN : Change(c, k, v, human)
           \/ Load(c) \/ Propose(c) \/ Save(c)
           \/ \E ok, saves \in BOOLEAN : Direct(c, ok, saves)
    PROVE  Inv'
  <1> USE Basics, ViffAssumption
  <1>1. ASSUME NEW k \in Kinds, NEW v \in Vals, NEW human \in BOOLEAN, Change(c, k, v, human)
        PROVE  Inv'
    <2> DEFINE u == IF human THEN issued' ELSE data.u
    <2>1. /\ Capture(human, 1) /\ data' = [data EXCEPT !.v = v, !.u = u]
          /\ changes < MaxChanges /\ changes' = changes + 1
          /\ cpc' = [cpc EXCEPT ![c] = "load"] /\ kind' = [kind EXCEPT ![c] = k]
          /\ UNCHANGED <<sent, rea, entry, lock, wpc, att, cprop, dpc, dprop, removed, readies, faults>>
      BY <1>1 DEF Change, workerVars, readyVars
    <2>2. issued' \in 0..MaxTokens /\ held' \subseteq Tokens /\ open' \subseteq Tokens
      BY <2>1, CaptureBounded
    <2>3. u \in 0..MaxTokens
      BY <2>2 DEF Inv, DataOK, Proposal
    <2> HIDE DEF u
    <2>4. data' \in Proposal
      BY <2>1, <2>3 DEF Inv, DataOK, Proposal
    <2>5. DataOK'
      BY <2>1, <2>2, <2>4 DEF Inv, DataOK
    <2>6. CallersOK'
      BY <2>1 DEF Inv, CallersOK
    <2>7. TrackerOK'
      BY <2>1, TrackerFrame
    <2> QED
      BY <2>1, <2>5, <2>6, <2>7 DEF Inv, CompletersOK, CompletersHold
  <1>2. CASE Load(c)
    <2>1. /\ UNCHANGED <<data, sent, rea, entry, lock, wpc, att, dpc, dprop, issued, held, open,
                         removed, changes, readies, faults>>
          /\ kind' = [kind EXCEPT ![c] = "recalc"]
          /\ \/ /\ cprop' = [cprop EXCEPT ![c] = data]
                /\ \/ cpc' = [cpc EXCEPT ![c] = "begin"]
                   \/ cpc' = [cpc EXCEPT ![c] = "direct"]
             \/ cprop' = cprop /\ cpc' = [cpc EXCEPT ![c] = "idle"]
      BY <1>2 DEF Load, workerVars, readyVars, authVars, bounds
    <2>2. CallersOK'
      BY <2>1 DEF Inv, DataOK, CallersOK
    <2>3. TrackerOK'
      BY <2>1, TrackerFrame
    <2> QED
      BY <2>1, <2>2, <2>3 DEF Inv, DataOK, CompletersOK, CompletersHold
  <1>3. CASE Propose(c)
    <2>1. /\ UNCHANGED <<data, sent, rea, lock, kind, dpc, dprop, issued, held, open, removed,
                         changes, readies, faults>>
          /\ cpc[c] = "begin" /\ Offer(cprop[c])
          /\ cpc' = [cpc EXCEPT ![c] = "idle"] /\ cprop' = [cprop EXCEPT ![c] = NoProp]
      BY <1>3 DEF Propose, readyVars, authVars, bounds
    <2>2. CallersOK' /\ cprop[c] \in Proposal
      BY <2>1 DEF Inv, CallersOK
    <2>3. TrackerOK'
      BY <2>1, <2>2, OfferGood
    <2> QED
      BY <2>1, <2>2, <2>3 DEF Inv, DataOK, CompletersOK, CompletersHold
  <1>4. CASE Save(c)
    <2>1. /\ UNCHANGED <<sent, rea, entry, lock, wpc, att, kind, dpc, dprop, issued, held, open,
                         removed, changes, readies, faults>>
          /\ cpc[c] = "save" /\ data' = cprop[c]
          /\ cpc' = [cpc EXCEPT ![c] = "idle"] /\ cprop' = [cprop EXCEPT ![c] = NoProp]
      BY <1>4 DEF Save, workerVars, readyVars, authVars, bounds
    <2>2. CallersOK' /\ cprop[c] \in Proposal
      BY <2>1 DEF Inv, CallersOK
    <2>3. TrackerOK'
      BY <2>1, TrackerFrame
    <2> QED
      BY <2>1, <2>2, <2>3 DEF Inv, DataOK, CompletersOK, CompletersHold
  <1>5. ASSUME NEW ok \in BOOLEAN, NEW saves \in BOOLEAN, Direct(c, ok, saves) PROVE Inv'
    <2>1. /\ UNCHANGED <<sent, rea, entry, lock, wpc, att, kind, dpc, dprop, issued, open,
                         removed, changes, readies>>
          /\ cpc[c] = "direct" /\ Exported(ok, cprop[c].u) /\ Request(ok, Restorable(cprop[c].u))
          /\ \/ cpc' = [cpc EXCEPT ![c] = "save"] /\ cprop' = cprop
             \/ cpc' = [cpc EXCEPT ![c] = "idle"] /\ cprop' = [cprop EXCEPT ![c] = NoProp]
      BY <1>5 DEF Direct, workerVars, readyVars
    <2>2. CallersOK'
      BY <2>1 DEF Inv, CallersOK
    <2>3. data' \in Proposal /\ held' \subseteq Tokens
      BY <2>1, ExportedKeeps
    <2>4. faults' \in 0..MaxFaults
      BY <2>1, RequestBounded
    <2>5. TrackerOK'
      BY <2>1, TrackerFrame
    <2> QED
      BY <2>1, <2>2, <2>3, <2>4, <2>5 DEF Inv, DataOK, CompletersOK, CompletersHold
  <1> QED
    BY <1>1, <1>2, <1>3, <1>4, <1>5

\* A TOBT request only makes the reserved export reload.
LEMMA PushTobtGood ==
    ASSUME Inv, PushTobt
    PROVE  Inv'
  <1>1. /\ entry' = [entry EXCEPT !.refresh = TRUE] /\ removed = "no"
        /\ UNCHANGED <<data, sent, rea, lock, wpc, att, cpc, kind, cprop, dpc, dprop,
                       issued, held, open, removed, changes, readies, faults>>
    BY DEF PushTobt, workerVars, callerVars, readyVars, authVars, bounds
  <1>2. entry \in Entries
    BY DEF Inv, TrackerOK
  <1>3. entry' \in Entries /\ entry'.owner = entry.owner
    BY <1>1, <1>2 DEF Entries
  <1>4. TrackerOK'
    BY <1>1, <1>3
    DEF Inv, TrackerOK, WorkersOK, SendersHold, ReservationAlive, RemovedForgotten, Owned
  <1> QED
    BY <1>1, <1>4 DEF Inv, DataOK, CallersOK, CompletersOK, CompletersHold

\* handleReadyRequest persists the READY and hands it to its completion.
LEMMA ReadyGood ==
    ASSUME Inv, NEW v \in Vals, NEW human \in BOOLEAN, Ready(v, human)
    PROVE  Inv'
  <1> USE Basics, ViffAssumption
  <1> DEFINE n == IF data.t = 0 THEN 2 ELSE 1
             t == IF human /\ data.t = 0 THEN issued + 1 ELSE data.t
             u == IF human THEN issued' ELSE data.u
  <1>1. /\ Capture(human, n)
        /\ data' = [v |-> v, r |-> readies + 1, t |-> t, u |-> u]
        /\ readies < MaxReady /\ readies' = readies + 1
        /\ dprop' = [dprop EXCEPT !["handler"] = data']
        /\ dpc' = [dpc EXCEPT !["handler"] = "lock"]
        /\ UNCHANGED <<sent, rea, entry, lock, wpc, att, cpc, kind, cprop, removed,
                       changes, faults>>
    BY DEF Ready, workerVars, callerVars
  <1>2. n \in Nat
    OBVIOUS
  <1>3. issued' \in 0..MaxTokens /\ held' \subseteq Tokens /\ open' \subseteq Tokens
    BY <1>1, <1>2, CaptureBounded
  <1>4. issued \in 0..MaxTokens /\ data.t \in 0..MaxTokens /\ data.u \in 0..MaxTokens
    BY DEF Inv, DataOK, Proposal
  <1>5. human => issued' = issued + n
    BY <1>1 DEF Capture
  <1>6. t \in 0..MaxTokens
    <2>1. CASE human /\ data.t = 0
      BY <2>1, <1>3, <1>4, <1>5
    <2>2. CASE ~(human /\ data.t = 0)
      BY <2>2, <1>4
    <2> QED
      BY <2>1, <2>2
  <1>7. u \in 0..MaxTokens
    BY <1>3, <1>4
  <1> HIDE DEF n, t, u
  <1>8. data' \in Proposal /\ readies' \in 0..MaxReady
    BY <1>1, <1>6, <1>7 DEF Inv, DataOK, Proposal
  <1>9. DataOK'
    BY <1>1, <1>3, <1>8 DEF Inv, DataOK
  <1>10. CompletersOK' /\ CompletersHold'
    BY <1>1, <1>8 DEF Inv, DataOK, CompletersOK, CompletersHold, Completers
  <1>11. TrackerOK'
    BY <1>1, TrackerFrame
  <1> QED
    BY <1>1, <1>9, <1>10, <1>11 DEF Inv, CallersOK

\* A completion that ends early releases the lock only it can hold.
LEMMA AbandonGood ==
    ASSUME Inv, NEW d \in Completers, Abandon(d),
           lock = d \/ lock = "none"
    PROVE  /\ CompletersOK' /\ CompletersHold'
           /\ lock' \in Workers \cup Completers \cup {"none"}
           /\ lock' = lock \/ \A w \in Workers : wpc[w] # "send"
  <1> USE Basics
  <1>1. /\ lock' = "none" /\ dpc' = [dpc EXCEPT ![d] = "idle"]
        /\ dprop' = [dprop EXCEPT ![d] = NoProp]
    BY DEF Abandon
  <1>2. CompletersOK'
    BY <1>1 DEF Inv, CompletersOK, Completers
  <1>3. CompletersHold'
    BY <1>1 DEF Inv, CompletersOK, CompletersHold, Completers
  <1>4. lock' = lock \/ \A w \in Workers : wpc[w] # "send"
    BY <1>1 DEF Inv, TrackerOK, SendersHold, Completers
  <1> QED
    BY <1>1, <1>2, <1>3, <1>4

\* REA/1 under the lock, or the end of the wait for it.
LEMMA SendReaGood ==
    ASSUME Inv, NEW d \in Completers, ReaStep(d) \/ LeaveQueue(d)
    PROVE  Inv'
  <1> USE Basics, ViffAssumption
  <1>1. ASSUME NEW ok \in BOOLEAN, NEW calc \in BOOLEAN, SendRea(d, ok, calc) PROVE Inv'
    <2>0. /\ dpc[d] = "lock" /\ lock = "none" /\ Request(ok, Valid(dprop[d].t))
          /\ UNCHANGED <<data, sent, entry, wpc, att, cpc, kind, cprop, issued, held, open,
                         removed, changes, readies>>
      BY <1>1 DEF SendRea, LockFree, workerVars, callerVars, authVars
    <2>1. faults' \in 0..MaxFaults
      BY <2>0, RequestBounded
    <2>2. TrackerOK'
      BY <2>0, TrackerFrame DEF Inv, TrackerOK, SendersHold
    <2>3. CASE ok
      <3>1. /\ lock' = d
            /\ rea' = IF dprop[d].r > rea THEN dprop[d].r ELSE rea
            /\ dpc' = [dpc EXCEPT ![d] = IF calc THEN "calc" ELSE "push"]
            /\ dprop' = dprop
        BY <1>1, <2>3 DEF SendRea
      <3>2. DataOK'
        BY <2>0, <2>1, <3>1 DEF Inv, DataOK, CompletersOK
      <3>3. CompletersOK'
        BY <3>1 DEF Inv, CompletersOK, Completers
      <3>4. CompletersHold'
        BY <2>0, <3>1 DEF Inv, CompletersOK, CompletersHold, Completers
      <3> QED
        BY <2>0, <2>2, <3>1, <3>2, <3>3, <3>4 DEF Inv, CallersOK
    <2>4. CASE ~ok
      <3>1. Abandon(d) /\ rea' = rea
        BY <1>1, <2>4 DEF SendRea
      <3> QED
        BY <2>0, <2>1, <2>2, <3>1, AbandonGood DEF Inv, DataOK, CallersOK
    <2> QED
      BY <2>3, <2>4
  <1>2. CASE LeaveQueue(d)
    <2>1. /\ dpc' = [dpc EXCEPT ![d] = "idle"] /\ dprop' = [dprop EXCEPT ![d] = NoProp]
          /\ UNCHANGED <<data, sent, rea, entry, lock, wpc, att, cpc, kind, cprop, issued, held,
                         open, removed, changes, readies, faults>>
      BY <1>2 DEF LeaveQueue, workerVars, callerVars, authVars, bounds
    <2>2. CompletersOK' /\ CompletersHold'
      BY <2>1 DEF Inv, CompletersOK, CompletersHold, Completers
    <2>3. TrackerOK'
      BY <2>1, TrackerFrame
    <2> QED
      BY <2>1, <2>2, <2>3 DEF Inv, DataOK, CallersOK
  <1> QED
    BY <1>1, <1>2 DEF ReaStep

\* The recalculation inside a completion, and its failure.
LEMMA RecalculateGood ==
    ASSUME Inv, NEW d \in Completers,
           (\E c \in Callers, v \in Vals : Recalculate(d, c, v)) \/ RecalculateFails(d)
    PROVE  Inv'
  <1> USE Basics, ViffAssumption
  <1>1. ASSUME NEW c \in Callers, NEW v \in Vals, Recalculate(d, c, v) PROVE Inv'
    <2> DEFINE human == dprop[d].t # 0 /\ v # data.v
               u == IF human THEN issued' ELSE data.u
    <2>1. /\ dpc[d] = "calc" /\ Capture(human, 1)
          /\ data' = [data EXCEPT !.v = v, !.u = u]
          /\ dprop' = [dprop EXCEPT ![d] = data']
          /\ dpc' = [dpc EXCEPT ![d] = "push"]
          /\ cpc' = [cpc EXCEPT ![c] = "load"]
          /\ kind' = [kind EXCEPT ![c] = "recalc"]
          /\ UNCHANGED <<sent, rea, entry, lock, wpc, att, cprop, removed,
                         changes, readies, faults>>
      BY <1>1 DEF Recalculate, workerVars, bounds
    <2>2. issued' \in 0..MaxTokens /\ held' \subseteq Tokens /\ open' \subseteq Tokens
      BY <2>1, CaptureBounded
    <2>3. u \in 0..MaxTokens
      BY <2>2 DEF Inv, DataOK, Proposal
    <2> HIDE DEF u, human
    <2>4. data' \in Proposal
      BY <2>1, <2>3 DEF Inv, DataOK, Proposal
    <2>5. DataOK'
      BY <2>1, <2>2, <2>4 DEF Inv, DataOK
    <2>6. CompletersOK' /\ CompletersHold'
      BY <2>1, <2>4 DEF Inv, CompletersOK, CompletersHold
    <2>7. CallersOK'
      BY <2>1 DEF Inv, CallersOK
    <2>8. TrackerOK'
      BY <2>1, TrackerFrame
    <2> QED
      BY <2>1, <2>5, <2>6, <2>7, <2>8 DEF Inv
  <1>2. CASE RecalculateFails(d)
    <2>1. /\ dpc[d] = "calc" /\ Request(FALSE, Valid(dprop[d].t)) /\ Abandon(d)
          /\ UNCHANGED <<data, sent, rea, entry, wpc, att, cpc, kind, cprop, issued, held, open,
                         removed, changes, readies>>
      BY <1>2 DEF RecalculateFails, workerVars, callerVars, authVars
    <2>2. faults' \in 0..MaxFaults
      BY <2>1, RequestBounded
    <2>3. lock = d
      BY <2>1 DEF Inv, CompletersHold
    <2>4. /\ CompletersOK' /\ CompletersHold'
          /\ lock' \in Workers \cup Completers \cup {"none"}
          /\ lock' = lock \/ \A w \in Workers : wpc[w] # "send"
      BY <2>1, <2>3, AbandonGood
    <2>5. TrackerOK'
      BY <2>1, <2>4, TrackerFrame
    <2> QED
      BY <2>1, <2>2, <2>4, <2>5 DEF Inv, DataOK, CallersOK
  <1> QED
    BY <1>1, <1>2

\* The authoritative export: the new entry has no owner, and no worker sends
\* under the completion's lock.
LEMMA PushReadyGood ==
    ASSUME Inv, NEW d \in Completers, NEW ok \in BOOLEAN, PushReady(d, ok)
    PROVE  Inv'
  <1> USE Basics, ViffAssumption
  <1>0. /\ dpc[d] = "push" /\ Request(ok, Valid(dprop[d].t) /\ Restorable(dprop[d].u))
        /\ Exported(ok, dprop[d].u)
        /\ sent' = IF ok THEN dprop[d].v ELSE sent
        /\ UNCHANGED <<rea, wpc, att, cpc, kind, cprop, issued, open, removed, changes, readies>>
    BY DEF PushReady, workerVars, callerVars
  <1>1. /\ lock = d /\ sent' \in Vals \cup {0}
        /\ \A w \in Workers : wpc[w] # "send"
    BY <1>0
    DEF Inv, DataOK, TrackerOK, SendersHold, CompletersOK, CompletersHold, Completers
  <1>2. faults' \in 0..MaxFaults
    BY <1>0, RequestBounded
  <1>3. data' \in Proposal /\ held' \subseteq Tokens
    BY <1>0, ExportedKeeps
  <1>4. DataOK'
    BY <1>0, <1>1, <1>2, <1>3 DEF Inv, DataOK
  <1>5. CASE ok
    <2>1. /\ entry' = ConfirmExport(dprop[d].v)
          /\ dpc' = [dpc EXCEPT ![d] = "ack"]
          /\ UNCHANGED <<lock, dprop>>
      BY <1>5 DEF PushReady
    <2>2. CompletersOK' /\ CompletersHold'
      BY <1>1, <2>1 DEF Inv, CompletersOK, CompletersHold, Completers
    <2>3. TrackerOK'
      <3>1. CASE removed = "cleared"
        BY <1>0, <2>1, <3>1, TrackerFrame DEF ConfirmExport, Accepts
      <3>2. CASE removed # "cleared"
        <4> DEFINE state == [v |-> dprop[d].v, u |-> 0]
        <4>1. entry' = [Fresh EXCEPT !.conf = state]
          BY <2>1, <3>2 DEF ConfirmExport, Accepts
        <4>2. state \in States \cup {NoState}
          BY DEF Inv, CompletersOK
        <4> HIDE DEF state
        <4>3. entry' \in Entries /\ entry'.owner = "none"
          BY <4>1, <4>2 DEF Entries
        <4> QED
          BY <1>0, <1>1, <3>2, <4>3
          DEF Inv, TrackerOK, WorkersOK, SendersHold, ReservationAlive, RemovedForgotten, Owned
      <3> QED
        BY <3>1, <3>2
    <2> QED
      BY <1>0, <1>4, <2>1, <2>2, <2>3 DEF Inv, CallersOK
  <1>6. CASE ~ok
    <2>1. Abandon(d) /\ entry' = entry
      BY <1>6 DEF PushReady
    <2>2. TrackerOK'
      BY <1>0, <1>1, <2>1, TrackerFrame
    <2> QED
      BY <1>0, <1>1, <1>4, <2>1, <2>2, AbandonGood DEF Inv, CallersOK
  <1> QED
    BY <1>5, <1>6

\* The acknowledgement, and the release of the lock.
LEMMA AcknowledgeGood ==
    ASSUME Inv, NEW d \in Completers, NEW ok \in BOOLEAN, Acknowledge(d, ok)
    PROVE  Inv'
  <1> USE Basics, ViffAssumption
  <1>0. /\ dpc[d] = "ack" /\ data' = (IF ok THEN Acknowledged(d) ELSE data) /\ lock' = "none"
        /\ Request(ok, TRUE) /\ held' \subseteq held
        /\ dpc' = [dpc EXCEPT ![d] = IF ok /\ d = "poll" THEN "reload" ELSE "idle"]
        /\ dprop' = [dprop EXCEPT ![d] = NoProp]
        /\ UNCHANGED <<sent, rea, entry, wpc, att, cpc, kind, cprop, issued, open, removed,
                       changes, readies>>
    BY DEF Acknowledge, workerVars, callerVars
  <1>1. lock = d /\ \A w \in Workers : wpc[w] # "send"
    BY <1>0 DEF Inv, TrackerOK, SendersHold, CompletersHold, Completers
  <1>2. data' \in Proposal
    <2>1. data \in Proposal /\ (dprop[d].r # 0 => dprop[d] \in Proposal)
      BY DEF Inv, DataOK, CompletersOK
    <2>2. \/ data' = data \/ data' = [data EXCEPT !.r = 0, !.t = 0]
          \/ dprop[d].r # 0 /\ data' = [dprop[d] EXCEPT !.r = 0]
      BY <1>0 DEF Acknowledged
    <2>3. CASE data' = data \/ data' = [data EXCEPT !.r = 0, !.t = 0]
      <3>1. 0 \in 0..MaxReady /\ 0 \in 0..MaxTokens
        OBVIOUS
      <3>2. [data EXCEPT !.r = 0, !.t = 0] \in Proposal
        BY <2>1, <3>1 DEF Proposal
      <3> QED
        BY <2>1, <2>3, <3>2
    <2>4. CASE dprop[d].r # 0 /\ data' = [dprop[d] EXCEPT !.r = 0]
      <3> DEFINE p == dprop[d]
      <3>1. p \in Proposal /\ data' = [p EXCEPT !.r = 0]
        BY <2>1, <2>4
      <3> HIDE DEF p
      <3> QED
        BY <3>1 DEF Proposal
    <2> QED
      BY <2>2, <2>3, <2>4
  <1>3. faults' \in 0..MaxFaults
    BY <1>0, RequestBounded
  <1>4. CompletersOK'
    BY <1>0 DEF Inv, CompletersOK, Completers
  <1>5. CompletersHold'
    BY <1>0, <1>1 DEF Inv, CompletersOK, CompletersHold, Completers
  <1>6. TrackerOK'
    BY <1>0, <1>1, TrackerFrame
  <1> QED
    BY <1>0, <1>2, <1>3, <1>4, <1>5, <1>6 DEF Inv, DataOK, CallersOK

\* The poll's steps.
LEMMA PollGood ==
    ASSUME Inv, PollStep
    PROVE  Inv'
  <1> USE Basics, ViffAssumption
  <1>1. ASSUME NEW differs \in BOOLEAN, PollLoad(differs) \/ PollReload(differs) PROVE Inv'
    <2>1. /\ \/ /\ dprop' = [dprop EXCEPT !["poll"] = data]
                /\ dpc' = [dpc EXCEPT !["poll"] = "lock"] \/ dpc' = [dpc EXCEPT !["poll"] = "export"]
             \/ dprop' = dprop /\ dpc' = [dpc EXCEPT !["poll"] = "idle"]
          /\ UNCHANGED <<data, sent, rea, entry, lock, wpc, att, cpc, kind, cprop, issued, held,
                         open, removed, changes, readies, faults>>
      BY <1>1 DEF PollLoad, PollReload, workerVars, callerVars, authVars, bounds
    <2>2. TrackerOK'
      BY <2>1, TrackerFrame
    <2>3. CompletersOK' /\ CompletersHold'
      BY <2>1 DEF Inv, DataOK, CompletersOK, CompletersHold, Completers
    <2> QED
      BY <2>1, <2>2, <2>3 DEF Inv, DataOK, CallersOK
  <1>2. CASE PollExport
    <2>1. /\ dpc["poll"] = "export" /\ Offer(dprop["poll"])
          /\ dprop' = [dprop EXCEPT !["poll"] = NoProp]
          /\ dpc' = [dpc EXCEPT !["poll"] = "idle"]
          /\ UNCHANGED <<data, sent, rea, lock, cpc, kind, cprop, issued, held, open, removed,
                         changes, readies, faults>>
      BY <1>2 DEF PollExport, callerVars, authVars, bounds
    <2>2. dprop["poll"] \in Proposal
      BY <2>1 DEF Inv, CompletersOK, Completers
    <2>3. TrackerOK'
      BY <2>1, <2>2, OfferGood
    <2>4. CompletersOK' /\ CompletersHold'
      BY <2>1 DEF Inv, DataOK, CompletersOK, CompletersHold, Completers
    <2> QED
      BY <2>1, <2>3, <2>4 DEF Inv, DataOK, CallersOK
  <1> QED
    BY <1>1, <1>2 DEF PollStep

\* Removing the session: a worker that still sends is the one the invariant
\* excuses, for its entry is gone.  A lost connection only closes tokens.
LEMMA RemovalGood ==
    ASSUME Inv, RemoveSession \/ ClearViffPushSession \/ Disconnect
    PROVE  Inv'
  <1> USE Basics
  <1>1. CASE RemoveSession
    <2>1. /\ removed = "no" /\ removed' = "cancelled"
          /\ UNCHANGED <<data, sent, rea, entry, lock, wpc, att, cpc, kind, cprop, dpc, dprop,
                         issued, held, open, changes, readies, faults>>
      BY <1>1 DEF RemoveSession, workerVars, callerVars, readyVars, authVars, bounds
    <2>2. TrackerOK'
      BY <2>1 DEF Inv, TrackerOK, WorkersOK, SendersHold, ReservationAlive, RemovedForgotten, Owned
    <2> QED
      BY <2>1, <2>2 DEF Inv, DataOK, CallersOK, CompletersOK, CompletersHold
  <1>2. CASE ClearViffPushSession
    <2>1. /\ removed' = "cleared" /\ entry' = Fresh
          /\ UNCHANGED <<data, sent, rea, lock, wpc, att, cpc, kind, cprop, dpc, dprop,
                         issued, held, open, changes, readies, faults>>
      BY <1>2 DEF ClearViffPushSession, workerVars, callerVars, readyVars, authVars, bounds
    <2>2. TrackerOK'
      BY <2>1 DEF Inv, TrackerOK, WorkersOK, SendersHold, ReservationAlive, RemovedForgotten, Owned
    <2> QED
      BY <2>1, <2>2 DEF Inv, DataOK, CallersOK, CompletersOK, CompletersHold
  <1>3. CASE Disconnect
    <2>1. /\ open' = {}
          /\ UNCHANGED <<data, sent, rea, entry, lock, wpc, att, cpc, kind, cprop, dpc, dprop,
                         issued, held, removed, changes, readies, faults>>
      BY <1>3 DEF Disconnect, workerVars, callerVars, readyVars, bounds
    <2>2. TrackerOK'
      BY <2>1, TrackerFrame
    <2> QED
      BY <2>1, <2>2 DEF Inv, DataOK, CallersOK, CompletersOK, CompletersHold
  <1> QED
    BY <1>1, <1>2, <1>3

-----------------------------------------------------------------------------
\* Every step keeps the invariant.
LEMMA InvStep == Inv /\ [Next]_vars => Inv'
  <1> SUFFICES ASSUME Inv, [Next]_vars PROVE Inv'
    OBVIOUS
  <1>1. CASE LockStep
    BY <1>1, PrepareGood, SendReaGood DEF LockStep
  <1>2. CASE HolderStep
    BY <1>2, PushGood, RecalculateGood, PushReadyGood, AcknowledgeGood DEF HolderStep
  <1>3. CASE ServiceStep
    BY <1>3, CallerGood, StopGood, SendReaGood, RemovalGood DEF ServiceStep
  <1>4. CASE PollStep
    BY <1>4, PollGood
  <1>5. ASSUME NEW c \in Callers, NEW k \in Kinds, NEW v \in Vals, NEW human \in BOOLEAN,
               Change(c, k, v, human)
        PROVE  Inv'
    BY <1>5, CallerGood
  <1>6. CASE PushTobt
    BY <1>6, PushTobtGood
  <1>7. ASSUME NEW v \in Vals, NEW human \in BOOLEAN, Ready(v, human) PROVE Inv'
    BY <1>7, ReadyGood
  <1>8. CASE RemoveSession \/ Disconnect
    BY <1>8, RemovalGood
  <1>9. CASE UNCHANGED vars
    BY <1>9
    DEF Inv, DataOK, TrackerOK, WorkersOK, SendersHold, ReservationAlive, RemovedForgotten, Owned,
        CallersOK, CompletersOK, CompletersHold, vars, workerVars, callerVars, readyVars, authVars,
        bounds
  <1> QED
    BY <1>1, <1>2, <1>3, <1>4, <1>5, <1>6, <1>7, <1>8, <1>9 DEF Next

\* The inductive invariant holds in every reachable state, whatever the
\* outcomes of requests, the kinds of edits and the bounds are.
THEOREM ViffInvariant == Spec => []Inv
  BY InvInit, InvStep, PTL DEF Spec

\* The tracker, the workers, the callers and the completions keep their types,
\* and an attempt that waits or is sent carries a payload.
THEOREM ViffTypeOK == Spec => []TypeOK
  <1>1. Inv => TypeOK
    BY DEF Inv, TrackerOK, DataOK, Entries, Attempts, WorkersOK, CallersOK, CompletersOK, TypeOK
  <1> QED
    BY <1>1, ViffInvariant, PTL

\* The flight's reservation belongs to a worker that still runs, in whatever
\* order READY, the poll, edits and the removal of the session displace it.
THEOREM ViffReservationAlive == Spec => []ReservationAlive
  <1>1. Inv => ReservationAlive
    BY DEF Inv, TrackerOK
  <1> QED
    BY <1>1, ViffInvariant, PTL

\* A session that RemoveSession has forgotten stays forgotten.
THEOREM ViffRemovedForgotten == Spec => []RemovedForgotten
  <1>1. Inv => RemovedForgotten
    BY DEF Inv, TrackerOK
  <1> QED
    BY <1>1, ViffInvariant, PTL

-----------------------------------------------------------------------------
(* The flight's lock *)

\* Whoever holds the lock is exporting.
HolderExports ==
    /\ lock \in Workers => wpc[lock] = "send"
    /\ lock \in Completers => dpc[lock] \in {"calc", "push", "ack"}

\* begin starts a worker that was idle, and so did not hold the lock.
LEMMA BeginKeepsHolder ==
    ASSUME Inv, HolderExports, NEW q \in Proposal, Offer(q), lock' = lock,
           dpc' = dpc \/ (dpc["poll"] = "export" /\ dpc' = [dpc EXCEPT !["poll"] = "idle"])
    PROVE  HolderExports'
  <1> USE Basics
  <1> DEFINE free == {y \in Workers : wpc[y] = "idle"}
             w == CHOOSE x \in free : TRUE
  <1>1. \/ wpc' = wpc
        \/ free # {} /\ wpc' = [wpc EXCEPT ![w] = "wait"]
    BY DEF Offer, Begin
  <1>2. free # {} => w \in free
    OBVIOUS
  <1> HIDE DEF w
  <1>3. wpc' = wpc \/ (w \in Workers /\ wpc[w] = "idle" /\ wpc' = [wpc EXCEPT ![w] = "wait"])
    BY <1>1, <1>2
  <1>4. lock \in Workers => wpc'[lock] = "send"
    BY <1>3 DEF HolderExports, Inv, TrackerOK, WorkersOK
  <1>5. lock \in Completers => dpc'[lock] \in {"calc", "push", "ack"}
    BY DEF HolderExports, Inv, CompletersOK, Completers
  <1> QED
    BY <1>4, <1>5 DEF HolderExports

\* The lock is taken for an export only, and released with its end.
LEMMA HolderStepGood ==
    ASSUME Inv, HolderExports, [Next]_vars
    PROVE  HolderExports'
  <1> USE Basics
  <1>0. /\ wpc \in [Workers -> {"idle", "wait", "send"}]
        /\ dpc \in [Completers -> {"idle", "lock", "calc", "push", "ack", "reload", "export"}]
        /\ lock \in Workers => wpc[lock] = "send"
        /\ lock \in Completers => dpc[lock] \in {"calc", "push", "ack"}
        /\ Workers \cap Completers = {} /\ "none" \notin Workers \cup Completers
    BY ViffAssumption DEF Inv, TrackerOK, WorkersOK, CompletersOK, HolderExports, Completers
  <1>1. ASSUME lock' = "none" PROVE HolderExports'
    BY <1>0, <1>1 DEF HolderExports
  <1>2. ASSUME UNCHANGED <<lock, wpc, dpc>> PROVE HolderExports'
    BY <1>0, <1>2 DEF HolderExports
  <1>3. ASSUME NEW w \in Workers, Prepare(w) \/ Stop(w) PROVE HolderExports'
    <2>1. CASE wpc[w] = "wait" /\ GiveUp(w) /\ dpc' = dpc
      BY <1>0, <2>1 DEF GiveUp, HolderExports
    <2>2. CASE lock' = w /\ wpc' = [wpc EXCEPT ![w] = "send"]
      BY <1>0, <2>2 DEF HolderExports
    <2> QED
      BY <1>3, <2>1, <2>2 DEF Prepare, Stop, readyVars
  <1>4. ASSUME NEW w \in Workers, NEW ok \in BOOLEAN, NEW expired \in BOOLEAN, Push(w, ok, expired)
        PROVE  HolderExports'
    BY <1>1, <1>4 DEF Push
  <1>5. ASSUME NEW d \in Completers, ReaStep(d) PROVE HolderExports'
    <2>1. CASE Abandon(d)
      BY <1>1, <2>1 DEF Abandon
    <2>2. CASE lock' = d /\ (dpc' = [dpc EXCEPT ![d] = "calc"] \/ dpc' = [dpc EXCEPT ![d] = "push"])
      BY <1>0, <2>2 DEF HolderExports
    <2> QED
      BY <1>5, <2>1, <2>2 DEF ReaStep, SendRea
  <1>6. ASSUME NEW d \in Completers, LeaveQueue(d) PROVE HolderExports'
    <2>1. dpc[d] = "lock" /\ dpc' = [dpc EXCEPT ![d] = "idle"] /\ lock' = lock /\ wpc' = wpc
      BY <1>6 DEF LeaveQueue, workerVars
    <2> QED
      BY <1>0, <2>1 DEF HolderExports
  <1>7. ASSUME NEW d \in Completers, NEW c \in Callers, NEW v \in Vals, Recalculate(d, c, v)
        PROVE  HolderExports'
    <2>1. dpc' = [dpc EXCEPT ![d] = "push"] /\ lock' = lock /\ wpc' = wpc
      BY <1>7 DEF Recalculate, workerVars
    <2> QED
      BY <1>0, <2>1 DEF HolderExports
  <1>8. ASSUME NEW d \in Completers, NEW ok \in BOOLEAN, PushReady(d, ok) PROVE HolderExports'
    <2>1. CASE ~ok
      BY <1>1, <1>8, <2>1 DEF PushReady, Abandon
    <2>2. CASE ok
      <3>1. dpc' = [dpc EXCEPT ![d] = "ack"] /\ lock' = lock /\ wpc' = wpc
        BY <1>8, <2>2 DEF PushReady, workerVars
      <3> QED
        BY <1>0, <3>1 DEF HolderExports
    <2> QED
      BY <2>1, <2>2
  <1>9. ASSUME NEW d \in Completers, RecalculateFails(d) \/ \E ok \in BOOLEAN : Acknowledge(d, ok)
        PROVE  HolderExports'
    BY <1>1, <1>9 DEF RecalculateFails, Abandon, Acknowledge
  <1>10. ASSUME NEW c \in Callers,
                \/ Load(c) \/ Propose(c) \/ Save(c)
                \/ \E ok, saves \in BOOLEAN : Direct(c, ok, saves)
         PROVE  HolderExports'
    <2>1. CASE Propose(c)
      <3>1. cprop[c] \in Proposal /\ Offer(cprop[c]) /\ lock' = lock /\ dpc' = dpc
        BY <2>1 DEF Propose, Inv, CallersOK, readyVars
      <3> QED
        BY <3>1, BeginKeepsHolder
    <2>2. CASE Load(c) \/ Save(c) \/ \E ok, saves \in BOOLEAN : Direct(c, ok, saves)
      BY <1>2, <2>2 DEF Load, Save, Direct, workerVars, readyVars
    <2> QED
      BY <1>10, <2>1, <2>2
  <1>11. CASE PollStep
    <2>1. CASE PollExport
      <3>1. /\ dprop["poll"] \in Proposal /\ Offer(dprop["poll"]) /\ lock' = lock
            /\ dpc["poll"] = "export" /\ dpc' = [dpc EXCEPT !["poll"] = "idle"]
        BY <2>1 DEF PollExport, Inv, CompletersOK, Completers
      <3> QED
        BY <3>1, BeginKeepsHolder
    <2>2. ASSUME NEW differs \in BOOLEAN, PollLoad(differs) \/ PollReload(differs)
          PROVE  HolderExports'
      <3>1. /\ dpc["poll"] \in {"idle", "reload"} /\ lock' = lock /\ wpc' = wpc
            /\ \E pc \in {"lock", "export", "idle"} : dpc' = [dpc EXCEPT !["poll"] = pc]
        BY <2>2 DEF PollLoad, PollReload, workerVars
      <3> QED
        BY <1>0, <3>1 DEF HolderExports, Completers
    <2> QED
      BY <1>11, <2>1, <2>2 DEF PollStep
  <1>12. ASSUME NEW v \in Vals, NEW human \in BOOLEAN, Ready(v, human) PROVE HolderExports'
    <2>1. /\ dpc["handler"] = "idle" /\ dpc' = [dpc EXCEPT !["handler"] = "lock"]
          /\ lock' = lock /\ wpc' = wpc
      BY <1>12 DEF Ready, workerVars
    <2> QED
      BY <1>0, <2>1 DEF HolderExports, Completers
  <1>13. CASE \/ PushTobt \/ RemoveSession \/ Disconnect \/ ClearViffPushSession \/ UNCHANGED vars
              \/ \E c \in Callers, k \in Kinds, v \in Vals, human \in BOOLEAN : Change(c, k, v, human)
    BY <1>2, <1>13
    DEF PushTobt, RemoveSession, Disconnect, ClearViffPushSession, Change, vars, workerVars, readyVars
  <1>14. CASE LockStep
    BY <1>14, <1>3, <1>5 DEF LockStep
  <1>15. CASE HolderStep
    BY <1>15, <1>4, <1>7, <1>8, <1>9 DEF HolderStep
  <1>16. CASE ServiceStep
    BY <1>16, <1>3, <1>6, <1>10, <1>13 DEF ServiceStep
  <1> QED
    BY <1>11, <1>12, <1>13, <1>14, <1>15, <1>16 DEF Next

\* The lock belongs to the one goroutine that exports the flight, whatever
\* fails, is lost or removed: no two export at once and none keeps it.
THEOREM ViffOneExporter == Spec => []OneExporter
  <1>1. Init => HolderExports
    BY Basics DEF Init, HolderExports, Completers
  <1>2. Inv /\ HolderExports /\ [Next]_vars => HolderExports'
    BY HolderStepGood
  <1>3. Inv /\ HolderExports => OneExporter
    BY Basics DEF Inv, TrackerOK, SendersHold, CompletersHold, HolderExports, OneExporter, Exporting, Completers
  <1> QED
    BY <1>1, <1>2, <1>3, ViffInvariant, PTL DEF Spec

-----------------------------------------------------------------------------
(* What the tracker takes for exported *)

\* begin does not touch what was confirmed.
LEMMA BeginKeepsConfirmed ==
    ASSUME Inv, NEW q \in Proposal, Begin(q)
    PROVE  entry'.conf = entry.conf
  <1> DEFINE w == CHOOSE x \in {y \in Workers : wpc[y] = "idle"} : TRUE
             fails == entry.failing /\ entry.exh = NoState
  <1>1. \/ entry' = [entry EXCEPT !.pend = q]
        \/ entry' = entry
        \/ entry' = [entry EXCEPT !.owner = w, !.exh = NoState, !.failing = fails]
    BY DEF Begin
  <1> HIDE DEF w, fails
  <1> QED
    BY <1>1 DEF Inv, TrackerOK, Entries

\* A step that confirms confirms what it has sent, and a worker whose entry
\* was replaced sends only for a session that is forgotten.
LEMMA ConfirmedStep ==
    ASSUME Inv, ConfirmedIsLast, [Next]_vars
    PROVE  ConfirmedIsLast'
  <1> USE Basics, ViffAssumption DEF ConfirmedIsLast
  <1>0. entry \in Entries
    BY DEF Inv, TrackerOK
  <1>9. ASSUME entry'.conf = entry.conf, sent' = sent PROVE ConfirmedIsLast'
    BY <1>9
  <1>1. ASSUME NEW w \in Workers, Prepare(w) \/ Stop(w) PROVE ConfirmedIsLast'
    <2>1. CASE GiveUp(w) /\ sent' = sent
      BY <2>1 DEF GiveUp
    <2>2. CASE entry' = [entry EXCEPT !.pend = NoProp, !.refresh = FALSE] /\ sent' = sent
      BY <2>2, <1>0 DEF Entries
    <2> QED
      BY <1>1, <2>1, <2>2 DEF Prepare, Stop
  <1>2. ASSUME NEW d \in Completers,
               \/ ReaStep(d) \/ LeaveQueue(d) \/ RecalculateFails(d)
               \/ \E c \in Callers, v \in Vals : Recalculate(d, c, v)
               \/ \E ok \in BOOLEAN : Acknowledge(d, ok)
        PROVE  ConfirmedIsLast'
    BY <1>2 DEF ReaStep, SendRea, LeaveQueue, Recalculate, RecalculateFails, Acknowledge
  <1>3. ASSUME NEW w \in Workers, NEW ok \in BOOLEAN, NEW expired \in BOOLEAN, Push(w, ok, expired)
        PROVE  ConfirmedIsLast'
    <2> DEFINE q == Newest(att[w].p)
               more == entry.owner = w /\ (IF ok THEN State(q) # State(att[w].p) ELSE ~expired)
               owner == IF more THEN w ELSE "none"
               conf == IF ok THEN State(att[w].p) ELSE entry.conf
               exh == IF expired THEN State(q) ELSE IF ok THEN NoState ELSE entry.exh
               failing == ~ok
    <2>1. /\ wpc[w] = "send"
          /\ sent' = IF ok THEN att[w].p.v ELSE sent
          /\ entry' = IF entry.owner # w THEN entry
                      ELSE [entry EXCEPT !.owner = owner, !.conf = conf, !.exh = exh,
                                         !.pend = NoProp, !.failing = failing]
      BY <1>3 DEF Push
    <2>2. CASE entry.owner # w
      <3>1. entry = Fresh /\ entry' = Fresh
        BY <2>1, <2>2 DEF Inv, TrackerOK, SendersHold, RemovedForgotten
      <3> QED
        BY <3>1
    <2>3. CASE entry.owner = w
      <3>1. conf = IF ok THEN State(att[w].p) ELSE entry.conf
        OBVIOUS
      <3> HIDE DEF q, more, owner, conf, exh, failing
      <3>2. entry' = [entry EXCEPT !.owner = owner, !.conf = conf, !.exh = exh,
                                   !.pend = NoProp, !.failing = failing]
        BY <2>1, <2>3
      <3>3. entry'.conf = conf
        BY <3>2, <1>0 DEF Entries
      <3>4. State(att[w].p).v = att[w].p.v
        BY DEF State
      <3> QED
        BY <2>1, <3>1, <3>3, <3>4
    <2> QED
      BY <2>2, <2>3
  <1>4. ASSUME NEW d \in Completers, NEW ok \in BOOLEAN, PushReady(d, ok) PROVE ConfirmedIsLast'
    <2>1. CASE ~ok
      BY <1>4, <2>1 DEF PushReady
    <2>2. CASE ok
      <3>1. sent' = dprop[d].v /\ entry' = ConfirmExport(dprop[d].v)
        BY <1>4, <2>2 DEF PushReady
      <3>2. CASE Accepts
        <4> DEFINE state == [v |-> dprop[d].v, u |-> 0]
        <4>1. entry' = [Fresh EXCEPT !.conf = state] /\ state.v = dprop[d].v
          BY <3>1, <3>2 DEF ConfirmExport
        <4> HIDE DEF state
        <4>2. entry'.conf = state
          BY <4>1 DEF Entries
        <4> QED
          BY <3>1, <4>1, <4>2
      <3>3. CASE ~Accepts
        BY <3>1, <3>3 DEF ConfirmExport, Accepts, Inv, TrackerOK, RemovedForgotten
      <3> QED
        BY <3>2, <3>3
    <2> QED
      BY <2>1, <2>2
  <1>5. ASSUME NEW q \in Proposal, Offer(q), sent' = sent PROVE ConfirmedIsLast'
    BY <1>5, <1>9, BeginKeepsConfirmed DEF Offer
  <1>6. ASSUME NEW c \in Callers,
               \/ Load(c) \/ Propose(c) \/ Save(c)
               \/ \E ok, saves \in BOOLEAN : Direct(c, ok, saves)
        PROVE  ConfirmedIsLast'
    <2>1. CASE Propose(c)
      <3>1. cprop[c] \in Proposal /\ Offer(cprop[c]) /\ sent' = sent
        BY <2>1 DEF Propose, Inv, CallersOK
      <3> QED
        BY <3>1, <1>5
    <2>2. CASE Load(c) \/ Save(c) \/ \E ok, saves \in BOOLEAN : Direct(c, ok, saves)
      BY <2>2 DEF Load, Save, Direct
    <2> QED
      BY <1>6, <2>1, <2>2
  <1>7. CASE PollStep
    <2>1. CASE PollExport
      <3>1. dprop["poll"] \in Proposal /\ Offer(dprop["poll"]) /\ sent' = sent
        BY <2>1 DEF PollExport, Inv, CompletersOK, Completers
      <3> QED
        BY <3>1, <1>5
    <2>2. ASSUME NEW differs \in BOOLEAN, PollLoad(differs) \/ PollReload(differs)
          PROVE  ConfirmedIsLast'
      BY <2>2 DEF PollLoad, PollReload
    <2> QED
      BY <1>7, <2>1, <2>2 DEF PollStep
  <1>8. CASE PushTobt
    <2>1. entry' = [entry EXCEPT !.refresh = TRUE] /\ sent' = sent
      BY <1>8 DEF PushTobt
    <2> QED
      BY <2>1, <1>0 DEF Entries
  <1>10. CASE ClearViffPushSession
    BY <1>10 DEF ClearViffPushSession
  <1>11. CASE RemoveSession \/ Disconnect \/ UNCHANGED vars
    BY <1>11 DEF RemoveSession, Disconnect, vars
  <1>12. ASSUME NEW v \in Vals, NEW human \in BOOLEAN,
                \/ Ready(v, human)
                \/ \E c \in Callers, k \in Kinds : Change(c, k, v, human)
         PROVE  ConfirmedIsLast'
    BY <1>12 DEF Ready, Change
  <1>13. CASE LockStep
    BY <1>13, <1>1, <1>2 DEF LockStep
  <1>14. CASE HolderStep
    BY <1>14, <1>2, <1>3, <1>4 DEF HolderStep
  <1>15. CASE ServiceStep
    BY <1>15, <1>1, <1>2, <1>6, <1>10 DEF ServiceStep
  <1> QED
    BY <1>7, <1>8, <1>11, <1>12, <1>13, <1>14, <1>15 DEF Next

\* What the tracker takes for exported is the payload that was acknowledged
\* last under the flight's lock, whatever requests fail, whichever connection
\* is lost and whatever is exported without the lock.
THEOREM ViffConfirmedIsLast == Spec => []ConfirmedIsLast
  <1>1. Init => ConfirmedIsLast
    BY Basics DEF Init, ConfirmedIsLast
  <1>2. Inv /\ ConfirmedIsLast /\ [Next]_vars => ConfirmedIsLast'
    BY ConfirmedStep
  <1> QED
    BY <1>1, <1>2, ViffInvariant, PTL DEF Spec

-----------------------------------------------------------------------------
(* READY before its data *)

\* begin hands on the proposal it gets and no other.
LEMMA BeginKeepsOrder ==
    ASSUME Inv, NEW q \in Proposal, q.r = 0, Begin(q), entry.pend.r = 0,
           \A w \in Workers : att[w].p.r = 0
    PROVE  entry'.pend.r = 0 /\ \A w \in Workers : att'[w].p.r = 0
  <1> DEFINE w == CHOOSE x \in {y \in Workers : wpc[y] = "idle"} : TRUE
             fails == entry.failing /\ entry.exh = NoState
  <1>1. \/ entry' = [entry EXCEPT !.pend = q] /\ att' = att
        \/ entry' = entry /\ att' = att
        \/ /\ entry' = [entry EXCEPT !.owner = w, !.exh = NoState, !.failing = fails]
           /\ att' = [att EXCEPT ![w] = [p |-> q, refresh |-> FALSE]]
    BY DEF Begin
  <1> HIDE DEF w, fails
  <1>2. entry \in Entries /\ att \in [Workers -> Attempts]
    BY DEF Inv, TrackerOK, WorkersOK
  <1>3. entry'.pend.r = 0
    BY <1>1, <1>2 DEF Entries
  <1>4. \A x \in Workers : att'[x].p.r = 0
    BY <1>1, <1>2
  <1> QED
    BY <1>3, <1>4

\* A worker's step leaves every attempt and the queue without READY data:
\* a reload finds none, or the worker gives up.
LEMMA WorkerKeepsOrder ==
    ASSUME Inv, NoReadyProposed, NEW w \in Workers,
           \/ Prepare(w) \/ Stop(w)
           \/ \E ok, expired \in BOOLEAN : Push(w, ok, expired)
    PROVE  entry'.pend.r = 0 /\ \A x \in Workers : att'[x].p.r = 0
  <1> USE Basics
  <1>0. /\ entry \in Entries /\ att \in [Workers -> Attempts]
        /\ entry.pend.r = 0 /\ \A x \in Workers : att[x].p.r = 0
        /\ NoProp.r = 0 /\ Fresh.pend.r = 0 /\ NoAttempt.p.r = 0
    BY DEF Inv, TrackerOK, WorkersOK, NoReadyProposed, NoProp, Fresh, NoAttempt
  <1>1. CASE GiveUp(w)
    BY <1>0, <1>1 DEF GiveUp
  <1>2. CASE Prepare(w) /\ ~GiveUp(w)
    <2> DEFINE again == att[w].refresh \/ entry.refresh
               q == IF again THEN data ELSE Newest(att[w].p)
    <2>1. /\ att' = [att EXCEPT ![w] = [p |-> q, refresh |-> again]]
          /\ entry' = [entry EXCEPT !.pend = NoProp, !.refresh = FALSE]
          /\ again => data.r = 0
      BY <1>2 DEF Prepare, ReadyOwns
    <2>2. q.r = 0
      BY <1>0, <2>1 DEF Newest
    <2> HIDE DEF again, q
    <2> QED
      BY <1>0, <2>1, <2>2 DEF Entries
  <1>3. ASSUME NEW ok \in BOOLEAN, NEW expired \in BOOLEAN, Push(w, ok, expired)
        PROVE  entry'.pend.r = 0 /\ \A x \in Workers : att'[x].p.r = 0
    <2> DEFINE q == Newest(att[w].p)
               more == entry.owner = w /\ (IF ok THEN State(q) # State(att[w].p) ELSE ~expired)
               owner == IF more THEN w ELSE "none"
               conf == IF ok THEN State(att[w].p) ELSE entry.conf
               exh == IF expired THEN State(q) ELSE IF ok THEN NoState ELSE entry.exh
               failing == ~ok
               next == IF more THEN [p |-> q, refresh |-> TRUE] ELSE NoAttempt
    <2>1. /\ entry' = IF entry.owner # w THEN entry
                      ELSE [entry EXCEPT !.owner = owner, !.conf = conf, !.exh = exh,
                                         !.pend = NoProp, !.failing = failing]
          /\ att' = [att EXCEPT ![w] = next]
      BY <1>3 DEF Push
    <2>2. next.p.r = 0
      BY <1>0 DEF Newest
    <2> HIDE DEF q, more, owner, conf, exh, failing, next
    <2>3. \A x \in Workers : att'[x].p.r = 0
      BY <1>0, <2>1, <2>2
    <2>4. CASE entry.owner # w
      BY <1>0, <2>1, <2>3, <2>4
    <2>5. CASE entry.owner = w
      <3>1. entry' = [entry EXCEPT !.owner = owner, !.conf = conf, !.exh = exh,
                                   !.pend = NoProp, !.failing = failing]
        BY <2>1, <2>5
      <3>2. entry'.pend = NoProp
        BY <3>1, <1>0 DEF Entries
      <3> QED
        BY <3>2, <1>0, <2>3
    <2> QED
      BY <2>4, <2>5
  <1> QED
    BY <1>1, <1>2, <1>3 DEF Stop

\* Without edits that skip the recalculation, no proposal is READY-derived.
LEMMA OrderStep ==
    ASSUME "clx" \notin Kinds, Inv, NoReadyProposed, [Next]_vars
    PROVE  NoReadyProposed'
  <1> USE Basics, ViffAssumption
  <1> DEFINE Callings == \A c \in Callers : kind[c] # "clx" /\ (cpc[c] = "begin" => cprop[c].r = 0)
             Polling == dpc["poll"] = "export" => dprop["poll"].r = 0
             Working == entry.pend.r = 0 /\ \A w \in Workers : att[w].p.r = 0
  <1>0. /\ Callings /\ Polling /\ Working /\ NoProp.r = 0 /\ Fresh.pend.r = 0
        /\ kind \in [Callers -> {"recalc", "clx", "direct"}]
        /\ cpc \in [Callers -> {"idle", "load", "begin", "direct", "save"}]
        /\ cprop \in [Callers -> Proposal \cup {NoProp}]
        /\ dpc \in [Completers -> {"idle", "lock", "calc", "push", "ack", "reload", "export"}]
        /\ dprop \in [Completers -> Proposal \cup {NoProp}]
        /\ "poll" \in Completers /\ entry \in Entries
    BY DEF Inv, TrackerOK, CallersOK, CompletersOK, NoReadyProposed, NoProp, Fresh, Completers
  <1>a. ASSUME UNCHANGED <<entry, att>> PROVE Working'
    BY <1>a, <1>0
  <1>b. ASSUME UNCHANGED <<cpc, kind, cprop>> PROVE Callings'
    BY <1>b, <1>0
  <1>c. ASSUME UNCHANGED <<dpc, dprop>> PROVE Polling'
    BY <1>c, <1>0
  <1>d. SUFFICES Callings' /\ Polling' /\ Working'
    BY DEF NoReadyProposed
  <1> HIDE DEF Callings, Polling, Working
  <1>e. ASSUME NEW q \in Proposal, q.r = 0, Offer(q) PROVE Working'
    <2>1. CASE Begin(q)
      BY <1>e, <2>1, <1>0, BeginKeepsOrder DEF Working
    <2>2. CASE UNCHANGED <<entry, wpc, att>>
      BY <2>2, <1>a
    <2> QED
      BY <1>e, <2>1, <2>2 DEF Offer
  <1>f. ASSUME NEW d \in Completers, dprop' = dprop \/ dprop' = [dprop EXCEPT ![d] = NoProp],
               NEW x, x # "export", dpc' = [dpc EXCEPT ![d] = x]
        PROVE  Polling'
    BY <1>f, <1>0 DEF Polling
  <1>1. ASSUME NEW w \in Workers, Prepare(w) \/ Stop(w) PROVE Callings' /\ Polling' /\ Working'
    <2>1. UNCHANGED <<cpc, kind, cprop, dpc, dprop>>
      BY <1>1 DEF Prepare, Stop, callerVars, readyVars
    <2> QED
      BY <1>1, <2>1, <1>b, <1>c, WorkerKeepsOrder DEF Working
  <1>2. ASSUME NEW d \in Completers, ReaStep(d) \/ LeaveQueue(d) \/ RecalculateFails(d)
        PROVE  Callings' /\ Polling' /\ Working'
    <2>1. UNCHANGED <<cpc, kind, cprop, entry, att>>
      BY <1>2 DEF ReaStep, SendRea, LeaveQueue, RecalculateFails, callerVars, workerVars
    <2>2. CASE dprop' = [dprop EXCEPT ![d] = NoProp] /\ dpc' = [dpc EXCEPT ![d] = "idle"]
      BY <2>1, <2>2, <1>a, <1>b, <1>f
    <2>3. CASE dprop' = dprop /\ dpc' = [dpc EXCEPT ![d] = "calc"]
      BY <2>1, <2>3, <1>a, <1>b, <1>f
    <2>4. CASE dprop' = dprop /\ dpc' = [dpc EXCEPT ![d] = "push"]
      BY <2>1, <2>4, <1>a, <1>b, <1>f
    <2> QED
      BY <1>2, <2>2, <2>3, <2>4 DEF ReaStep, SendRea, LeaveQueue, RecalculateFails, Abandon
  <1>3. ASSUME NEW w \in Workers, NEW ok \in BOOLEAN, NEW expired \in BOOLEAN, Push(w, ok, expired)
        PROVE  Callings' /\ Polling' /\ Working'
    <2>1. UNCHANGED <<cpc, kind, cprop, dpc, dprop>>
      BY <1>3 DEF Push, callerVars, readyVars
    <2> QED
      BY <1>3, <2>1, <1>b, <1>c, WorkerKeepsOrder DEF Working
  <1>4. ASSUME NEW d \in Completers, NEW ok \in BOOLEAN, PushReady(d, ok)
        PROVE  Callings' /\ Polling' /\ Working'
    <2>1. UNCHANGED <<cpc, kind, cprop, att>>
      BY <1>4 DEF PushReady, callerVars, workerVars
    <2>2. \/ dprop' = dprop /\ dpc' = [dpc EXCEPT ![d] = "ack"]
          \/ dprop' = [dprop EXCEPT ![d] = NoProp] /\ dpc' = [dpc EXCEPT ![d] = "idle"]
      BY <1>4 DEF PushReady, Abandon
    <2>3. Polling'
      BY <2>2, <1>0 DEF Polling
    <2> DEFINE state == [v |-> dprop[d].v, u |-> 0]
    <2>4. entry' = entry \/ entry' = [Fresh EXCEPT !.conf = state]
      BY <1>4 DEF PushReady, ConfirmExport
    <2> HIDE DEF state
    <2>5. entry'.pend.r = 0
      BY <1>0, <2>4 DEF Working, Entries
    <2> QED
      BY <2>1, <2>3, <2>5, <1>0, <1>b DEF Working
  <1>5. ASSUME NEW c \in Callers, Propose(c) PROVE Callings' /\ Polling' /\ Working'
    <2>1. /\ UNCHANGED <<kind, dpc, dprop>> /\ cpc[c] = "begin" /\ Offer(cprop[c])
          /\ cpc' = [cpc EXCEPT ![c] = "idle"] /\ cprop' = [cprop EXCEPT ![c] = NoProp]
      BY <1>5 DEF Propose, readyVars
    <2>2. cprop[c] \in Proposal /\ cprop[c].r = 0
      BY <2>1, <1>0 DEF Inv, CallersOK, Callings
    <2>3. Callings'
      BY <2>1, <1>0 DEF Callings
    <2>4. Working'
      BY <2>1, <2>2, <1>e
    <2> QED
      BY <2>1, <2>3, <2>4, <1>c
  <1>6. CASE PollExport
    <2>1. /\ UNCHANGED <<cpc, kind, cprop>> /\ dpc["poll"] = "export" /\ Offer(dprop["poll"])
          /\ dpc' = [dpc EXCEPT !["poll"] = "idle"]
      BY <1>6 DEF PollExport, callerVars
    <2>2. dprop["poll"] \in Proposal /\ dprop["poll"].r = 0
      BY <2>1, <1>0 DEF Inv, CompletersOK, Polling
    <2>3. Polling'
      BY <2>1, <1>0 DEF Polling
    <2>4. Working'
      BY <2>1, <2>2, <1>e
    <2> QED
      BY <2>1, <2>3, <2>4, <1>b
  <1>7. CASE PushTobt
    <2>1. entry' = [entry EXCEPT !.refresh = TRUE] /\ UNCHANGED <<cpc, kind, cprop, dpc, dprop, att>>
      BY <1>7 DEF PushTobt, workerVars, callerVars, readyVars
    <2>2. entry'.pend = entry.pend
      BY <2>1, <1>0 DEF Entries
    <2> QED
      BY <2>1, <2>2, <1>0, <1>b, <1>c DEF Working
  <1>8. CASE ClearViffPushSession
    <2>1. entry' = Fresh /\ UNCHANGED <<cpc, kind, cprop, dpc, dprop, att>>
      BY <1>8 DEF ClearViffPushSession, workerVars, callerVars, readyVars
    <2> QED
      BY <2>1, <1>0, <1>b, <1>c DEF Working
  <1>9. ASSUME NEW d \in Completers, NEW c \in Callers, NEW v \in Vals, Recalculate(d, c, v)
        PROVE  Callings' /\ Polling' /\ Working'
    <2>1. /\ UNCHANGED <<cprop, entry, att>>
          /\ dpc' = [dpc EXCEPT ![d] = "push"] /\ dprop' = [dprop EXCEPT ![d] = data']
          /\ cpc' = [cpc EXCEPT ![c] = "load"] /\ kind' = [kind EXCEPT ![c] = "recalc"]
      BY <1>9 DEF Recalculate, workerVars
    <2> QED
      BY <2>1, <1>0, <1>a DEF Callings, Polling
  <1>10. ASSUME NEW d \in Completers, NEW ok \in BOOLEAN, Acknowledge(d, ok)
         PROVE  Callings' /\ Polling' /\ Working'
    <2>1. /\ UNCHANGED <<cpc, kind, cprop, entry, att>>
          /\ dpc' = [dpc EXCEPT ![d] = IF ok /\ d = "poll" THEN "reload" ELSE "idle"]
          /\ dprop' = [dprop EXCEPT ![d] = NoProp]
      BY <1>10 DEF Acknowledge, workerVars, callerVars
    <2> QED
      BY <2>1, <1>0, <1>a, <1>b DEF Polling
  <1>11. ASSUME NEW c \in Callers, Load(c) PROVE Callings' /\ Polling' /\ Working'
    <2>1. UNCHANGED <<entry, att, dpc, dprop>>
      BY <1>11 DEF Load, workerVars, readyVars
    <2>2. /\ kind' = [kind EXCEPT ![c] = "recalc"]
          /\ \/ cprop' = cprop /\ cpc' = [cpc EXCEPT ![c] = "idle"]
             \/ cprop' = [cprop EXCEPT ![c] = data] /\ cpc' = [cpc EXCEPT ![c] = "direct"]
             \/ /\ cprop' = [cprop EXCEPT ![c] = data] /\ cpc' = [cpc EXCEPT ![c] = "begin"]
                /\ LoadsFor(c) /\ kind[c] # "direct"
      BY <1>11 DEF Load
    <2>3. LoadsFor(c) /\ kind[c] # "direct" => data.r = 0
      BY <1>0 DEF LoadsFor, Callings
    <2>4. Callings'
      BY <2>2, <2>3, <1>0 DEF Callings
    <2> QED
      BY <2>1, <2>4, <1>a, <1>c
  <1>12. ASSUME NEW c \in Callers, NEW k \in Kinds, NEW v \in Vals, NEW human \in BOOLEAN,
                Change(c, k, v, human)
         PROVE  Callings' /\ Polling' /\ Working'
    <2>1. /\ UNCHANGED <<entry, att, dpc, dprop, cprop>>
          /\ cpc' = [cpc EXCEPT ![c] = "load"] /\ kind' = [kind EXCEPT ![c] = k] /\ k # "clx"
      BY <1>12 DEF Change, workerVars, readyVars
    <2> QED
      BY <2>1, <1>0, <1>a, <1>c DEF Callings
  <1>13. ASSUME NEW differs \in BOOLEAN, PollLoad(differs) PROVE Callings' /\ Polling' /\ Working'
    <2>1. /\ UNCHANGED <<cpc, kind, cprop, entry, att>>
          /\ dprop' = [dprop EXCEPT !["poll"] = data]
          /\ dpc' = [dpc EXCEPT !["poll"] = IF data.r # 0 THEN "lock" ELSE "export"]
      BY <1>13 DEF PollLoad, workerVars, callerVars
    <2> QED
      BY <2>1, <1>0, <1>a, <1>b DEF Polling
  <1>14. ASSUME NEW differs \in BOOLEAN, PollReload(differs) PROVE Callings' /\ Polling' /\ Working'
    <2>1. /\ UNCHANGED <<cpc, kind, cprop, entry, att>>
          /\ \/ /\ dprop' = [dprop EXCEPT !["poll"] = data] /\ data.r = 0
             \/ dpc' = [dpc EXCEPT !["poll"] = "idle"]
      BY <1>14 DEF PollReload, NeedsExport, workerVars, callerVars
    <2> QED
      BY <2>1, <1>0, <1>a, <1>b DEF Polling
  <1>15. ASSUME NEW v \in Vals, NEW human \in BOOLEAN, Ready(v, human)
         PROVE  Callings' /\ Polling' /\ Working'
    <2>1. /\ UNCHANGED <<cpc, kind, cprop, entry, att>>
          /\ dprop' = [dprop EXCEPT !["handler"] = data']
          /\ dpc' = [dpc EXCEPT !["handler"] = "lock"]
      BY <1>15 DEF Ready, workerVars, callerVars
    <2> QED
      BY <2>1, <1>0, <1>a, <1>b DEF Polling
  <1>16. CASE RemoveSession \/ Disconnect \/ UNCHANGED vars
    <2>1. UNCHANGED <<cpc, kind, cprop, entry, att, dpc, dprop>>
      BY <1>16 DEF RemoveSession, Disconnect, vars, workerVars, callerVars, readyVars
    <2> QED
      BY <2>1, <1>a, <1>b, <1>c
  <1>17. ASSUME NEW c \in Callers, Save(c) \/ \E ok, saves \in BOOLEAN : Direct(c, ok, saves)
         PROVE  Callings' /\ Polling' /\ Working'
    <2>1. /\ UNCHANGED <<kind, entry, att, dpc, dprop>>
          /\ \/ cpc' = [cpc EXCEPT ![c] = "save"] /\ cprop' = cprop
             \/ cpc' = [cpc EXCEPT ![c] = "idle"] /\ cprop' = [cprop EXCEPT ![c] = NoProp]
      BY <1>17 DEF Save, Direct, workerVars, readyVars
    <2>2. Callings'
      BY <2>1, <1>0 DEF Callings
    <2> QED
      BY <2>1, <2>2, <1>a, <1>c
  <1>18. CASE LockStep
    BY <1>18, <1>1, <1>2 DEF LockStep
  <1>19. CASE HolderStep
    BY <1>19, <1>2, <1>3, <1>4, <1>9, <1>10 DEF HolderStep
  <1>20. CASE ServiceStep
    BY <1>20, <1>1, <1>2, <1>5, <1>8, <1>11, <1>17 DEF ServiceStep
  <1>21. CASE PollStep
    BY <1>21, <1>6, <1>13, <1>14 DEF PollStep
  <1> QED
    BY <1>7, <1>12, <1>15, <1>16, <1>18, <1>19, <1>20, <1>21 DEF Next

\* "READY-derived state is exported ... only after this flight's own REA/1 has
\* succeeded", wherever every edit goes through the recalculation: no worker
\* sends data persisted under a READY that REA/1 has not announced.
THEOREM ViffReadyOrdered ==
    ASSUME "clx" \notin Kinds
    PROVE  Spec => []ReadyOrdered
  <1>1. Init => NoReadyProposed
    BY DEF Init, NoReadyProposed, NoProp, Fresh, NoAttempt, Completers
  <1>2. Inv /\ NoReadyProposed /\ [Next]_vars => NoReadyProposed'
    BY OrderStep
  <1>3. Inv /\ NoReadyProposed => ReadyOrdered
    BY ViffAssumption DEF Inv, DataOK, NoReadyProposed, ReadyOrdered
  <1> QED
    BY <1>1, <1>2, <1>3, ViffInvariant, PTL DEF Spec

====
