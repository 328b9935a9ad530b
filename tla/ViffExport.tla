----------------------------- MODULE ViffExport -----------------------------
(***************************************************************************)
(* The export of one flight's CDM data to the network manager (vIFF):      *)
(* backend/internal/cdm/viff_push_retry.go (the retry tracker),            *)
(* master_viff_sync.go (the export workers), deferred_authority.go, and    *)
(* the READY completion, the TOBT push, the periodic synchronisation and   *)
(* the direct exports around them.                                         *)
(*                                                                         *)
(* Persisted data is a record: v stands for the exported fields, r # 0 for *)
(* ReadySyncPending (r numbers the READY it belongs to), t and u are the   *)
(* tokens ReadyViffAuthority and ViffAuthority, 0 for none.  A proposal is *)
(* such a record as it was loaded; viffPushState keeps v and u.            *)
(*                                                                         *)
(* What vIFF itself holds is not modelled: besides the exports here, TOBT  *)
(* messages and vIFF's own requests change it, so that a poll may find any *)
(* difference or none.  The tracker's absent entry and an entry without    *)
(* any field set behave alike and are both Fresh; an attempt is current    *)
(* exactly if its worker owns the entry.                                   *)
(***************************************************************************)
EXTENDS Naturals

CONSTANTS
    Vals,        \* payloads
    First,       \* the payload at the start
    Workers,     \* export goroutines
    Callers,     \* goroutines that persist data and propose it
    Kinds,       \* "recalc": a recalculation; "clx": a TOBT edit that moves nobody;
                 \* "direct": a vIFF TOBT request or a pushback, exported by its goroutine
    MaxChanges, MaxReady, MaxFaults, MaxTokens   \* bounds

ASSUME ViffAssumption ==
    /\ Vals \subseteq Nat \ {0} /\ First \in Vals
    /\ Kinds \subseteq {"recalc", "clx", "direct"}
    /\ Workers \cap {"handler", "poll", "none"} = {}
    /\ MaxChanges \in Nat /\ MaxReady \in Nat /\ MaxFaults \in Nat /\ MaxTokens \in Nat

VARIABLES
    data,      \* the persisted CDM data of the flight
    sent,      \* history: the payload acknowledged last of those sent under the lock
    rea,       \* number of the last READY whose REA/1 was acknowledged
    entry,     \* the tracker's entry of the flight
    lock,      \* holder of the flight's export lock
    wpc, att,           \* workers: step, attempt
    cpc, kind, cprop,   \* callers: step, kind, loaded data
    dpc, dprop,         \* READY completions of the handler and of the poll
    issued,    \* number of authority tokens given out
    held,      \* deferredAuthorities
    open,      \* tokens of commands whose plugin connection is still there
    removed,   \* RemoveSession: "no", "cancelled", "cleared"
    changes, readies, faults

workerVars == <<wpc, att>>
callerVars == <<cpc, kind, cprop>>
readyVars == <<dpc, dprop>>
authVars == <<issued, held, open>>
bounds == <<changes, readies, faults>>
vars == <<data, sent, rea, entry, lock, workerVars, callerVars, readyVars, authVars, removed, bounds>>

Tokens == 1..MaxTokens
NoProp == [v |-> 0, r |-> 0, t |-> 0, u |-> 0]
Proposal == [v : Vals, r : 0..MaxReady, t : 0..MaxTokens, u : 0..MaxTokens]
Completers == {"handler", "poll"}

\* viffPushState, as sameViffPushState compares it.
NoState == [v |-> 0, u |-> 0]
States == [v : Vals, u : 0..MaxTokens]
State(p) == [v |-> p.v, u |-> p.u]

NoAttempt == [p |-> NoProp, refresh |-> FALSE]
Fresh == [owner |-> "none", conf |-> NoState, exh |-> NoState, pend |-> NoProp,
          failing |-> FALSE, refresh |-> FALSE]

Init ==
    /\ data = [v |-> First, r |-> 0, t |-> 0, u |-> 0] /\ sent = 0 /\ rea = 0
    /\ entry = Fresh /\ lock = "none"
    /\ wpc = [w \in Workers |-> "idle"]
    /\ att = [w \in Workers |-> NoAttempt]
    /\ cpc = [c \in Callers |-> "idle"]
    /\ kind = [c \in Callers |-> "recalc"]
    /\ cprop = [c \in Callers |-> NoProp]
    /\ dpc = [d \in Completers |-> "idle"]
    /\ dprop = [d \in Completers |-> NoProp]
    /\ issued = 0 /\ held = {} /\ open = {}
    /\ removed = "no"
    /\ changes = 0 /\ readies = 0 /\ faults = 0

-----------------------------------------------------------------------------
(* Authority: what a controller's command leaves to be exported later stays  *)
(* bound to the plugin connection it came from.                              *)

\* restoreDeferredAuthority
Restorable(t) == t = 0 \/ t \in held \cap open

\* ValidateCommandAuthority with the binding of t.
Valid(t) == t = 0 \/ t \in open

\* rememberDeferredAuthority: n tokens for a controller's command.
Capture(human, n) ==
    /\ issued' = IF human THEN issued + n ELSE issued
    /\ issued' =< MaxTokens
    /\ held' = held \cup (issued + 1)..issued'
    /\ open' = open \cup (issued + 1)..issued'

\* acknowledgeViffAuthority: the row's token is removed if it is still u.
AcknowledgeAuthority(u) ==
    /\ held' = held \ {u}
    /\ data' = IF data.u = u THEN [data EXCEPT !.u = 0] ELSE data

\* The plugin connection ends; a later one does not take its work over.
Disconnect ==
    /\ open # {} /\ open' = {}
    /\ UNCHANGED <<data, sent, rea, entry, lock, workerVars, callerVars, readyVars, issued, held,
                   removed, bounds>>

-----------------------------------------------------------------------------
(* The retry tracker *)

Owned == entry.owner # "none"

\* Mutation: a removed session is not refused.
AcceptsAlways == TRUE

\* begin: a session that was removed takes no more work.
Accepts == removed # "cleared"

\* begin: the tracker takes p for exported, or gave it up.
Settled(p) == State(p) \in {entry.conf, entry.exh}

\* begin, and the start of a worker: a busy worker gets the newest proposal;
\* changed data opens a new retry window after one that was given up.
Begin(p) ==
    IF Accepts /\ Owned
    THEN /\ entry' = [entry EXCEPT !.pend = p]
         /\ UNCHANGED <<wpc, att>>
    ELSE IF ~Accepts \/ Settled(p)
    THEN UNCHANGED <<entry, wpc, att>>
    ELSE LET free == {w \in Workers : wpc[w] = "idle"}
             w == CHOOSE x \in free : TRUE   \* a new goroutine
         IN /\ free # {}
            /\ wpc' = [wpc EXCEPT ![w] = "wait"]
            /\ att' = [att EXCEPT ![w] = [p |-> p, refresh |-> FALSE]]
            /\ entry' = [entry EXCEPT !.owner = w, !.exh = NoState,
                                      !.failing = entry.failing /\ entry.exh = NoState]

\* pushViffAfterRecalcAsync: a proposal whose authority is gone is dropped.
Offer(p) == IF Restorable(p.u) THEN Begin(p) ELSE UNCHANGED <<entry, wpc, att>>

\* The newest of an attempt's state and the queued proposal.
Newest(p) == IF entry.pend # NoProp THEN entry.pend ELSE p

-----------------------------------------------------------------------------
(* The export workers *)

\* Mutation: exports of the flight are not serialised.
LockIgnored == TRUE

\* lockFlightExport
LockFree == lock = "none"

\* Mutation: the worker that finds READY pending keeps its reservation.
GiveUpReserved(w) ==
    /\ wpc' = [wpc EXCEPT ![w] = "idle"]
    /\ att' = [att EXCEPT ![w] = NoAttempt]
    /\ UNCHANGED <<entry, lock>>

\* The worker returns; the deferred discard deletes the entry it owns.
GiveUp(w) ==
    /\ wpc' = [wpc EXCEPT ![w] = "idle"]
    /\ att' = [att EXCEPT ![w] = NoAttempt]
    /\ entry' = IF entry.owner = w THEN Fresh ELSE entry
    /\ UNCHANGED lock

\* READY owns its ordered REA/1 and export.
ReadyOwns == data.r # 0

\* The authority a reload needs: the row's, or that of the proposal it replaces.
Refreshable(p) == Restorable(data.u) /\ (data.u = 0 => Valid(p.u))

\* The delay is over and the lock is taken: prepare picks the newest proposal
\* and, if required, refresh replaces it by the persisted data.
Prepare(w) ==
    LET again == att[w].refresh \/ entry.refresh
        p == Newest(att[w].p)
    IN  /\ wpc[w] = "wait" /\ LockFree /\ removed = "no"
        /\ IF entry.owner # w \/ (again /\ (ReadyOwns \/ ~Refreshable(p)))
           THEN GiveUp(w)
           ELSE /\ lock' = w
                /\ wpc' = [wpc EXCEPT ![w] = "send"]
                /\ att' = [att EXCEPT ![w] = [p |-> IF again THEN data ELSE p, refresh |-> again]]
                /\ entry' = [entry EXCEPT !.pend = NoProp, !.refresh = FALSE]
        /\ UNCHANGED <<data, sent, rea, callerVars, readyVars, authVars, removed, bounds>>

\* The session's context is cancelled.
Stop(w) ==
    /\ wpc[w] = "wait" /\ removed # "no"
    /\ GiveUp(w)
    /\ UNCHANGED <<data, sent, rea, callerVars, readyVars, authVars, removed, bounds>>

\* A request to vIFF or to the database that succeeds or returns an error,
\* after it took effect or before.  Failures are bounded, except that one
\* without authority is not sent and a cancelled context may fail every one.
Request(ok, authorised) ==
    IF ok THEN authorised /\ UNCHANGED faults
    ELSE IF ~authorised \/ removed # "no" THEN UNCHANGED faults
    ELSE faults < MaxFaults /\ faults' = faults + 1

\* What an acknowledged export does to the row and to its authority.
Exported(ok, u) ==
    IF ok THEN AcknowledgeAuthority(u) ELSE UNCHANGED <<data, held>>

\* pushViffState and, when its answer is there, complete: a newer proposal is
\* sent at once; after a failure another attempt is reserved, or after five
\* minutes of failures the newest state is given up (expired).
Push(w, ok, expired) ==
    LET now == att[w].p
        p == Newest(now)
        more == entry.owner = w /\ (IF ok THEN State(p) # State(now) ELSE ~expired)
    IN  /\ wpc[w] = "send"
        /\ expired => entry.owner = w /\ ~ok /\ entry.failing
        /\ Request(ok, Valid(now.u))
        /\ Exported(ok, now.u)
        /\ sent' = IF ok THEN now.v ELSE sent
        /\ lock' = "none"
        /\ entry' = IF entry.owner # w THEN entry
                    ELSE [entry EXCEPT !.owner = IF more THEN w ELSE "none",
                                       !.conf = IF ok THEN State(now) ELSE entry.conf,
                                       !.exh = IF expired THEN State(p) ELSE IF ok THEN NoState ELSE entry.exh,
                                       !.pend = NoProp,
                                       !.failing = ~ok]
        /\ wpc' = [wpc EXCEPT ![w] = IF more THEN "wait" ELSE "idle"]
        /\ att' = [att EXCEPT ![w] = IF more THEN [p |-> p, refresh |-> TRUE] ELSE NoAttempt]
        /\ UNCHANGED <<rea, callerVars, readyVars, issued, open, removed, changes, readies>>

-----------------------------------------------------------------------------
(* Recalculations and edits *)

\* Data of the flight is persisted, by a controller's command or not; r and t
\* belong to the row and are kept.
Change(c, k, v, human) ==
    /\ cpc[c] = "idle" /\ changes < MaxChanges /\ v # data.v
    /\ Capture(human, 1)
    /\ data' = [data EXCEPT !.v = v, !.u = IF human THEN issued' ELSE data.u]
    /\ cpc' = [cpc EXCEPT ![c] = "load"]
    /\ kind' = [kind EXCEPT ![c] = k]
    /\ changes' = changes + 1
    /\ UNCHANGED <<sent, rea, entry, lock, workerVars, cprop, readyVars, removed, readies, faults>>

\* Mutation: a recalculation for another flight exports READY-derived data.
LoadsAlways(c) == TRUE

\* pushViffDataAfterRecalc leaves a pending READY alone; the path of an edit
\* without recalculation, pushCdmDataAfterRecalc, does not look at it.
LoadsFor(c) == kind[c] = "recalc" => data.r = 0

Load(c) ==
    /\ cpc[c] = "load"
    /\ IF removed = "no" /\ LoadsFor(c)
       THEN /\ cprop' = [cprop EXCEPT ![c] = data]
            /\ cpc' = [cpc EXCEPT ![c] = IF kind[c] = "direct" THEN "direct" ELSE "begin"]
       ELSE /\ cpc' = [cpc EXCEPT ![c] = "idle"]
            /\ UNCHANGED cprop
    /\ kind' = [kind EXCEPT ![c] = "recalc"]
    /\ UNCHANGED <<data, sent, rea, entry, lock, workerVars, readyVars, authVars, removed, bounds>>

\* pushViffAfterRecalcAsync with what was loaded.
Propose(c) ==
    /\ cpc[c] = "begin"
    /\ Offer(cprop[c])
    /\ cpc' = [cpc EXCEPT ![c] = "idle"]
    /\ cprop' = [cprop EXCEPT ![c] = NoProp]
    /\ UNCHANGED <<data, sent, rea, lock, kind, readyVars, authVars, removed, bounds>>

\* pushAuthoritativeViffState for a TOBT that vIFF requested, or to verify a
\* pushback: neither the lock nor the tracker is asked.  The former then saves
\* its copy without ViffRequestSyncPending.
Direct(c, ok, saves) ==
    /\ cpc[c] = "direct"
    /\ Request(ok, Restorable(cprop[c].u))
    /\ Exported(ok, cprop[c].u)
    /\ IF ok /\ saves
       THEN cpc' = [cpc EXCEPT ![c] = "save"] /\ UNCHANGED cprop
       ELSE cpc' = [cpc EXCEPT ![c] = "idle"] /\ cprop' = [cprop EXCEPT ![c] = NoProp]
    /\ UNCHANGED <<sent, rea, entry, lock, workerVars, kind, readyVars, issued, open, removed,
                   changes, readies>>

\* The copy is written as a whole, the token just acknowledged included.
Save(c) ==
    /\ cpc[c] = "save"
    /\ data' = cprop[c]
    /\ cpc' = [cpc EXCEPT ![c] = "idle"]
    /\ cprop' = [cprop EXCEPT ![c] = NoProp]
    /\ UNCHANGED <<sent, rea, entry, lock, workerVars, kind, readyVars, authVars, removed, bounds>>

\* PushTobt, under the lock: an export that has not been sent must reload.
\* The message changes the TOBT vIFF has.
PushTobt ==
    /\ LockFree /\ removed = "no"
    /\ Owned /\ ~entry.refresh
    /\ entry' = [entry EXCEPT !.refresh = TRUE]
    /\ UNCHANGED <<data, sent, rea, lock, workerVars, callerVars, readyVars, authVars, removed, bounds>>

-----------------------------------------------------------------------------
(* READY *)

\* handleReadyRequest: the READY is persisted as pending, then completed.  It
\* joins the authority of one that is pending, or fails with it.
Ready(v, human) ==
    /\ dpc["handler"] = "idle" /\ readies < MaxReady /\ removed = "no"
    /\ Restorable(data.t)
    /\ Capture(human, IF data.t = 0 THEN 2 ELSE 1)
    /\ data' = [v |-> v, r |-> readies + 1,
                t |-> IF human /\ data.t = 0 THEN issued + 1 ELSE data.t,
                u |-> IF human THEN issued' ELSE data.u]
    /\ dprop' = [dprop EXCEPT !["handler"] = data']
    /\ dpc' = [dpc EXCEPT !["handler"] = "lock"]
    /\ readies' = readies + 1
    /\ UNCHANGED <<sent, rea, entry, lock, workerVars, callerVars, removed, changes, faults>>

\* Mutation: a completion that fails keeps the lock.
AbandonLocked(d) ==
    /\ UNCHANGED lock
    /\ dpc' = [dpc EXCEPT ![d] = "idle"]
    /\ dprop' = [dprop EXCEPT ![d] = NoProp]

\* The completion ends early, with the lock released.
Abandon(d) ==
    /\ lock' = "none"
    /\ dpc' = [dpc EXCEPT ![d] = "idle"]
    /\ dprop' = [dprop EXCEPT ![d] = NoProp]

\* completeReadyViffSync: the export lock, REA/1, and whether the airport is
\* recalculated before the export.  Without its controller's connection a
\* READY is not sent.
SendRea(d, ok, calc) ==
    /\ dpc[d] = "lock" /\ LockFree /\ removed = "no"
    /\ Request(ok, Valid(dprop[d].t))
    /\ IF ok
       THEN /\ lock' = d
            /\ rea' = IF dprop[d].r > rea THEN dprop[d].r ELSE rea
            /\ dpc' = [dpc EXCEPT ![d] = IF calc THEN "calc" ELSE "push"]
            /\ UNCHANGED dprop
       ELSE Abandon(d) /\ UNCHANGED rea
    /\ UNCHANGED <<data, sent, entry, workerVars, callerVars, authVars, removed, changes, readies>>

\* The session's context is cancelled: the lock is not waited for any longer.
LeaveQueue(d) ==
    /\ dpc[d] = "lock" /\ removed # "no"
    /\ dpc' = [dpc EXCEPT ![d] = "idle"]
    /\ dprop' = [dprop EXCEPT ![d] = NoProp]
    /\ UNCHANGED <<data, sent, rea, entry, lock, workerVars, callerVars, authVars, removed, bounds>>

\* RecalculateAirport persists new data, under the READY's authority, proposes
\* it as for any other flight (by caller c), and the data is read again.
Recalculate(d, c, v) ==
    LET human == dprop[d].t # 0 /\ v # data.v
    IN  /\ dpc[d] = "calc" /\ cpc[c] = "idle"
        /\ human => Valid(dprop[d].t)
        /\ Capture(human, 1)
        /\ data' = [data EXCEPT !.v = v, !.u = IF human THEN issued' ELSE data.u]
        /\ dprop' = [dprop EXCEPT ![d] = data']
        /\ dpc' = [dpc EXCEPT ![d] = "push"]
        /\ cpc' = [cpc EXCEPT ![c] = "load"]
        /\ kind' = [kind EXCEPT ![c] = "recalc"]
        /\ UNCHANGED <<sent, rea, entry, lock, workerVars, cprop, removed, bounds>>

\* It fails, for want of authority or of the database.
RecalculateFails(d) ==
    /\ dpc[d] = "calc"
    /\ Request(FALSE, Valid(dprop[d].t))
    /\ Abandon(d)
    /\ UNCHANGED <<data, sent, rea, entry, workerVars, callerVars, authVars, removed, changes, readies>>

\* confirmExport: a new entry, so that an earlier worker no longer counts.
ConfirmExport(v) == IF Accepts THEN [Fresh EXCEPT !.conf = [v |-> v, u |-> 0]] ELSE entry

\* pushAuthoritativeViffState and confirmExport.
PushReady(d, ok) ==
    /\ dpc[d] = "push"
    /\ Request(ok, Valid(dprop[d].t) /\ Restorable(dprop[d].u))
    /\ Exported(ok, dprop[d].u)
    /\ sent' = IF ok THEN dprop[d].v ELSE sent
    /\ IF ok
       THEN /\ entry' = ConfirmExport(dprop[d].v)
            /\ dpc' = [dpc EXCEPT ![d] = "ack"]
            /\ UNCHANGED <<lock, dprop>>
       ELSE Abandon(d) /\ UNCHANGED entry
    /\ UNCHANGED <<rea, workerVars, callerVars, issued, open, removed, changes, readies>>

\* AcknowledgeCdmDeferredWork finds the READY it is for.
StillPending(d) == dprop[d].t # 0 /\ data.r # 0 /\ data.t = dprop[d].t

\* The row after the acknowledgement: a conditional update for a controller's
\* READY; for an automatic one the data at hand is written back as a whole,
\* with the token its export has just used up.
Acknowledged(d) ==
    IF dprop[d].r # 0 /\ dprop[d].t = 0 THEN [dprop[d] EXCEPT !.r = 0]
    ELSE IF dprop[d].r # 0 /\ StillPending(d) THEN [data EXCEPT !.r = 0, !.t = 0]
    ELSE data

Acknowledge(d, ok) ==
    /\ dpc[d] = "ack"
    /\ Request(ok, TRUE)
    /\ data' = IF ok THEN Acknowledged(d) ELSE data
    /\ held' = IF ok /\ dprop[d].r # 0 /\ StillPending(d) THEN held \ {dprop[d].t} ELSE held
    /\ lock' = "none"
    /\ dpc' = [dpc EXCEPT ![d] = IF ok /\ d = "poll" THEN "reload" ELSE "idle"]
    /\ dprop' = [dprop EXCEPT ![d] = NoProp]
    /\ UNCHANGED <<sent, rea, entry, workerVars, callerVars, issued, open, removed, changes, readies>>

-----------------------------------------------------------------------------
(* The periodic synchronisation *)

\* ensureMasterFlightExport: vIFF's payload differs where it is compared and
\* no recalculation is outstanding (differs), and no READY is pending.
NeedsExport(differs) == differs /\ data.r = 0

\* syncCdmData reads vIFF and the database: a pending READY is completed, if
\* its authority is there; a difference is exported.
PollLoad(differs) ==
    /\ dpc["poll"] = "idle" /\ removed = "no"
    /\ (data.r # 0 /\ Restorable(data.t)) \/ NeedsExport(differs)
    /\ dprop' = [dprop EXCEPT !["poll"] = data]
    /\ dpc' = [dpc EXCEPT !["poll"] = IF data.r # 0 THEN "lock" ELSE "export"]
    /\ UNCHANGED <<data, sent, rea, entry, lock, workerVars, callerVars, authVars, removed, bounds>>

\* After the READY the data is read again, vIFF's answer is not.
PollReload(differs) ==
    /\ dpc["poll"] = "reload"
    /\ IF removed = "no" /\ NeedsExport(differs)
       THEN /\ dprop' = [dprop EXCEPT !["poll"] = data]
            /\ dpc' = [dpc EXCEPT !["poll"] = "export"]
       ELSE /\ dpc' = [dpc EXCEPT !["poll"] = "idle"]
            /\ UNCHANGED dprop
    /\ UNCHANGED <<data, sent, rea, entry, lock, workerVars, callerVars, authVars, removed, bounds>>

PollExport ==
    /\ dpc["poll"] = "export"
    /\ Offer(dprop["poll"])
    /\ dpc' = [dpc EXCEPT !["poll"] = "idle"]
    /\ dprop' = [dprop EXCEPT !["poll"] = NoProp]
    /\ UNCHANGED <<data, sent, rea, lock, callerVars, authVars, removed, bounds>>

-----------------------------------------------------------------------------
(* RemoveSession: the contexts are cancelled, then the tracker forgets *)

RemoveSession ==
    /\ removed = "no" /\ removed' = "cancelled"
    /\ UNCHANGED <<data, sent, rea, entry, lock, workerVars, callerVars, readyVars, authVars, bounds>>

ClearViffPushSession ==
    /\ removed = "cancelled" /\ removed' = "cleared"
    /\ entry' = Fresh
    /\ UNCHANGED <<data, sent, rea, lock, workerVars, callerVars, readyVars, authVars, bounds>>

-----------------------------------------------------------------------------
\* The completion's turn at the lock.
ReaStep(d) == \E ok, calc \in BOOLEAN : SendRea(d, ok, calc)

\* A waiter gets the export lock.
LockStep ==
    \/ \E w \in Workers : Prepare(w)
    \/ \E d \in Completers : ReaStep(d)

\* The holder goes on.
HolderStep ==
    \/ \E w \in Workers, ok, expired \in BOOLEAN : Push(w, ok, expired)
    \/ \E d \in Completers :
          \/ \E c \in Callers, v \in Vals : Recalculate(d, c, v)
          \/ RecalculateFails(d)
          \/ \E ok \in BOOLEAN : PushReady(d, ok) \/ Acknowledge(d, ok)

\* What runs without the lock.
ServiceStep ==
    \/ \E c \in Callers :
          \/ Load(c) \/ Propose(c) \/ Save(c)
          \/ \E ok, saves \in BOOLEAN : Direct(c, ok, saves)
    \/ \E w \in Workers : Stop(w)
    \/ \E d \in Completers : LeaveQueue(d)
    \/ ClearViffPushSession

PollStep == PollExport \/ (\E differs \in BOOLEAN : PollLoad(differs) \/ PollReload(differs))

Next ==
    \/ LockStep \/ HolderStep \/ ServiceStep \/ PollStep
    \/ \E c \in Callers, k \in Kinds, v \in Vals, human \in BOOLEAN : Change(c, k, v, human)
    \/ PushTobt
    \/ \E v \in Vals, human \in BOOLEAN : Ready(v, human)
    \/ Disconnect
    \/ RemoveSession

Spec == Init /\ [][Next]_vars

\* Goroutines run and requests return (the client has a timeout); senders on
\* a channel are served in their order, so that every waiter gets the lock
\* that is free again and again.  Nothing is assumed of the poll.
FairSpec ==
    /\ Spec
    /\ \A w \in Workers : SF_vars(Prepare(w))
    /\ \A d \in Completers : SF_vars(ReaStep(d))
    /\ WF_vars(HolderStep) /\ WF_vars(ServiceStep)

-----------------------------------------------------------------------------
(* Properties *)

\* The tracker, the workers and the callers have their types, and an attempt
\* that waits or is sent carries a payload.
TypeOK ==
    /\ data \in Proposal /\ sent \in Vals \cup {0}
    /\ rea \in 0..MaxReady
    /\ entry \in [owner : Workers \cup {"none"}, conf : States \cup {NoState}, exh : States \cup {NoState},
                  pend : Proposal \cup {NoProp}, failing : BOOLEAN, refresh : BOOLEAN]
    /\ lock \in Workers \cup Completers \cup {"none"}
    /\ wpc \in [Workers -> {"idle", "wait", "send"}]
    /\ att \in [Workers -> [p : Proposal \cup {NoProp}, refresh : BOOLEAN]]
    /\ \A w \in Workers : wpc[w] # "idle" => att[w].p # NoProp
    /\ cpc \in [Callers -> {"idle", "load", "begin", "direct", "save"}]
    /\ kind \in [Callers -> {"recalc", "clx", "direct"}]
    /\ cprop \in [Callers -> Proposal \cup {NoProp}]
    /\ dpc \in [Completers -> {"idle", "lock", "calc", "push", "ack", "reload", "export"}]
    /\ dprop \in [Completers -> Proposal \cup {NoProp}]
    /\ issued \in 0..MaxTokens /\ held \subseteq Tokens /\ open \subseteq Tokens
    /\ removed \in {"no", "cancelled", "cleared"}
    /\ changes \in 0..MaxChanges /\ readies \in 0..MaxReady /\ faults \in 0..MaxFaults

\* The flight's reservation belongs to a worker that still runs: a worker that
\* returned and left inFlight set would block every later export, for begin
\* only queues behind it.
ReservationAlive == Owned => wpc[entry.owner] # "idle"

\* Between taking the flight's lock and releasing it.
Exporting ==
    {w \in Workers : wpc[w] = "send"} \cup {d \in Completers : dpc[d] \in {"calc", "push", "ack"}}

\* The lock belongs to the one goroutine that exports the flight: a worker and
\* a READY never export at the same time, and on no path, be it a lost
\* authority, a failed request or the end of the session, does one return with
\* the lock and leave every later export and READY of the flight waiting.
OneExporter == Exporting = {lock} \ {"none"}

\* "Older requests must finish before newer writes succeed": what the tracker
\* takes for exported is the last payload that was acknowledged under the
\* flight's lock; no answer to an older worker overwrites a READY's export or
\* a newer worker's.  (Direct exports and TOBT messages may have changed what
\* vIFF holds since.)
ConfirmedIsLast == entry.conf # NoState => entry.conf.v = sent

\* "READY-derived state is exported ... only after this flight's own REA/1 has
\* succeeded": no worker sends data that was persisted under a READY whose
\* REA/1 has not been acknowledged.
ReadyOrdered == \A w \in Workers : wpc[w] = "send" => att[w].p.r <= rea

\* A session that RemoveSession has forgotten stays forgotten, whatever stale
\* snapshot is proposed later.
RemovedForgotten == removed = "cleared" => entry = Fresh

\* A reserved export ends, exported, refused or given up, whatever proposals
\* are queued behind it and whoever holds the lock: until then begin starts no
\* other export of the flight.
ReservationReleased == Owned ~> ~Owned

\* A controller's READY command returns: it waits for the lock behind workers,
\* the poll's completion and TOBT messages, one of which may be the READY of a
\* connection that is gone.
ReadyReturns == (dpc["handler"] # "idle") ~> (dpc["handler"] = "idle")

=============================================================================
