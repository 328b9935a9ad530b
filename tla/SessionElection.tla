--------------------------- MODULE SessionElection ---------------------------
(***************************************************************************)
(* Plugin memberships of one session and the election of its master        *)
(* (backend/internal/euroscope: membership.go, election.go, hub.go and the *)
(* position fence of client.go).                                           *)
(*                                                                         *)
(* A client is one logical membership: it joins once and leaves once, a    *)
(* reconnect is another client.  Every change of master happens under the  *)
(* write lock of the session's gate, every application of a message under  *)
(* its read lock; a gated operation is one action whose guard is that no   *)
(* application is in progress.  Choices made from a snapshot before the    *)
(* gate is taken are separate steps.                                       *)
(***************************************************************************)
EXTENDS Naturals, FiniteSets

CONSTANTS
    Clients,    \* memberships that may join the session
    Observers,  \* the ones that log in as observers
    Prios,      \* values of masterClientPriority, 0 the best
    Preempt,    \* the airport's preempt_higher_priority policy
    NoClient,   \* nil
    Kinds,      \* kinds of messages the plugins send: "sync", "fact", "tracked"
    Reporters,  \* memberships that send position reports
    MaxLeaving, \* bound of the model: OnUnregister calls under way at once
    MaxUpdates  \* bound of the model: position changes of connected clients

ASSUME ElectionAssumption ==
    /\ Observers \subseteq Clients
    /\ Prios \subseteq Nat
    /\ Preempt \in BOOLEAN
    /\ NoClient \notin Clients
    /\ Kinds \subseteq {"sync", "fact", "tracked"}
    /\ Reporters \subseteq Clients
    /\ MaxLeaving \in Nat /\ MaxUpdates \in Nat

VARIABLES
    clients,   \* hub.clients
    down,      \* memberships whose isClosed() is true
    eligible,  \* memberships whose roleEligible is set
    prio,      \* masterClientPriority of each membership
    master,    \* hub.master[session]
    epoch,     \* sessionElection.epoch
    synced,    \* the session is in hub.syncedSessions
    syncEpoch, \* history: epoch of the sync that set synced
    informed,  \* plugins whose last message carried the current epoch
    app,       \* what each membership is applying under the gate
    posEpoch,  \* Client.positionEpoch
    pend,      \* a position report waiting to be applied, with its fence
    join,      \* where the OnRegister goroutine of each membership is
    leave,     \* where its RemoveMembership / OnUnregister is
    pick,      \* the replacement OnUnregister chose
    recon,     \* where reconsiderMasterAfterLogin of the client is
    best,      \* the candidate it chose
    updates    \* position changes so far

electVars == <<master, epoch, synced, syncEpoch, posEpoch, informed>>
memberVars == <<clients, down, eligible, prio>>
flowVars == <<join, leave, pick, recon, best, updates>>
vars == <<electVars, memberVars, flowVars, app, pend>>

JoinState == {"absent", "joining", "ready", "member"}
LeaveState == {"no", "removed", "detached", "chosen", "gone"}
ReconState == {"no", "changed", "chosen"}
NoPend == [master |-> FALSE, fence |-> 0, epoch |-> 0]

Init ==
    /\ clients = {} /\ down = {} /\ eligible = {}
    /\ prio \in [Clients -> Prios]
    /\ master = NoClient /\ epoch = 0 /\ synced = FALSE /\ syncEpoch = 0
    /\ informed = {}
    /\ app = [c \in Clients |-> "none"]
    /\ posEpoch = [c \in Clients |-> 0]
    /\ pend = [c \in Clients |-> NoPend]
    /\ join = [c \in Clients |-> "absent"]
    /\ leave = [c \in Clients |-> "no"]
    /\ pick = [c \in Clients |-> NoClient]
    /\ recon = [c \in Clients |-> "no"]
    /\ best = [c \in Clients |-> NoClient]
    /\ updates = 0

-----------------------------------------------------------------------------
(* The election primitives *)

\* Connected memberships that may be elected.
Candidates == (clients \cap eligible) \ (down \cup Observers)

\* Mutation: elections do not wait for applications in progress.
GateIgnored == TRUE

\* The write lock of the gate is free: no application holds the read lock.
GateFree == \A c \in Clients : app[c] = "none"

\* Mutations: the sync of the previous master survives its replacement; the
\* position fences of the two clients are not advanced.
SetMasterKeepsSync(c) ==
    /\ master' = c
    /\ epoch' = epoch + 1 /\ informed' = {}
    /\ posEpoch' = [x \in Clients |-> IF x \in {c, master} THEN posEpoch[x] + 1 ELSE posEpoch[x]]
    /\ UNCHANGED <<synced, syncEpoch>>

SetMasterKeepsFence(c) ==
    /\ master' = c
    /\ epoch' = epoch + 1 /\ informed' = {}
    /\ synced' = FALSE /\ syncEpoch' = 0
    /\ UNCHANGED posEpoch

\* setMasterClientLocked for a client that is not the master already: both
\* sides lose their position fence, absences and the sync are invalidated.
SetMaster(c) ==
    /\ master' = c
    /\ epoch' = epoch + 1 /\ informed' = {}
    /\ synced' = FALSE /\ syncEpoch' = 0
    /\ posEpoch' = [x \in Clients |-> IF x \in {c, master} THEN posEpoch[x] + 1 ELSE posEpoch[x]]

\* clearMasterClientLocked
ClearMaster ==
    /\ master' = NoClient
    /\ IF master = NoClient
       THEN UNCHANGED <<epoch, synced, syncEpoch, posEpoch, informed>>
       ELSE /\ epoch' = epoch + 1 /\ informed' = {}
            /\ synced' = FALSE /\ syncEpoch' = 0
            /\ posEpoch' = [posEpoch EXCEPT ![master] = @ + 1]

\* preferredMasterClient: what a walk over the registry, in any order, may
\* return when it starts from the current master cur.
Preferred(cur) ==
    LET start == IF cur \in eligible \ (down \cup Observers) THEN {cur} ELSE {}
        Beats(c, d) == Preempt /\ prio[c] < prio[d]
    IN  IF start = {} /\ Candidates = {} THEN {NoClient}
        ELSE IF start = {} THEN {c \in Candidates : \A d \in Candidates : ~Beats(d, c)}
        ELSE {c \in start \cup Candidates :
                 /\ c \in start \/ Beats(c, cur)
                 /\ \A d \in Candidates : ~Beats(d, c)}

\* promoteMasterCandidateLocked: c takes over from nobody, from a closed
\* master, or from a master it may preempt.
Supersedes(c) ==
    \/ master = NoClient
    \/ master \in down \cup Observers
    \/ Preempt /\ prio[c] < prio[master]

\* Mutation: registration is not checked again under the gate.
PromoteUnchecked(c) ==
    /\ GateFree
    /\ IF master # c /\ Supersedes(c) THEN SetMaster(c) ELSE UNCHANGED electVars

\* promoteRegisteredMasterIfPreferred: registration is checked under the gate.
PromoteRegistered(c) ==
    /\ GateFree
    /\ IF c \in Candidates /\ master # c /\ Supersedes(c)
       THEN SetMaster(c)
       ELSE UNCHANGED electVars

\* Mutation: the leaving master is not replaced.
ReplaceNever(expected, replacement) == GateFree /\ UNCHANGED electVars

\* replaceMasterIfCurrent
ReplaceMaster(expected, replacement) ==
    /\ GateFree
    /\ IF master # expected \/ expected = NoClient THEN UNCHANGED electVars
       ELSE IF replacement = NoClient THEN ClearMaster
       ELSE SetMaster(replacement)

-----------------------------------------------------------------------------
(* Joining *)

\* JoinMembership and the synchronous part of OnRegister.  An observer is done
\* once its goroutine announced the observer role.
Join(c) ==
    /\ join[c] = "absent"
    /\ clients' = clients \cup {c}
    /\ IF c \in Observers
       THEN /\ eligible' = eligible \cup {c}
            /\ join' = [join EXCEPT ![c] = "member"]
       ELSE /\ join' = [join EXCEPT ![c] = "joining"]
            /\ UNCHANGED eligible
    /\ UNCHANGED <<electVars, down, prio, leave, pick, recon, best, updates, app, pend>>

\* OnRegister: the backend sync was sent and the delay is over.
Ready(c) ==
    /\ join[c] = "joining"
    /\ eligible' = eligible \cup {c}
    /\ join' = [join EXCEPT ![c] = "ready"]
    /\ UNCHANGED <<electVars, clients, down, prio, leave, pick, recon, best, updates, app, pend>>

\* OnRegister: the election of the new client.
Announce(c) ==
    /\ join[c] = "ready"
    /\ PromoteRegistered(c)
    /\ join' = [join EXCEPT ![c] = "member"]
    /\ UNCHANGED <<memberVars, leave, pick, recon, best, updates, app, pend>>

\* A message of the backend, stamped with the epoch, reaches the plugin.
Deliver(c) ==
    /\ c \in clients \ down
    /\ informed' = informed \cup {c}
    /\ UNCHANGED <<master, epoch, synced, syncEpoch, posEpoch, memberVars, flowVars, app, pend>>

-----------------------------------------------------------------------------
(* Leaving *)

\* The transport closes (error, slow consumer, replacement by a reconnect):
\* isClosed() is true at once, the removal follows on another goroutine.
CloseTransport(c) ==
    /\ c \in clients \ down
    /\ down' = down \cup {c}
    /\ UNCHANGED <<electVars, clients, eligible, prio, flowVars, app, pend>>

\* RemoveMembership under applyMu: after the membership's own application.
RemoveMembership(c) ==
    /\ c \in clients /\ leave[c] = "no" /\ app[c] = "none"
    /\ Cardinality({x \in Clients : leave[x] \in {"removed", "detached", "chosen"}}) < MaxLeaving
    /\ down' = down \cup {c}
    /\ clients' = clients \ {c}
    /\ posEpoch' = [posEpoch EXCEPT ![c] = @ + 1]
    /\ leave' = [leave EXCEPT ![c] = "removed"]
    /\ UNCHANGED <<master, epoch, synced, syncEpoch, informed, eligible, prio, join, pick, recon, best,
                   updates, app, pend>>

\* OnUnregister: the sync flag falls with the last operational client.
Detach(c) ==
    /\ leave[c] = "removed"
    /\ IF c \in Observers \/ clients \ Observers # {}
       THEN UNCHANGED <<synced, syncEpoch>>
       ELSE synced' = FALSE /\ syncEpoch' = 0
    /\ leave' = [leave EXCEPT ![c] = "detached"]
    /\ UNCHANGED <<master, epoch, posEpoch, informed, memberVars, join, pick, recon, best,
                   updates, app, pend>>

\* OnUnregister: the replacement is chosen from a snapshot of the registry.
ChooseReplacement(c) ==
    /\ leave[c] = "detached"
    /\ \E x \in Preferred(NoClient) : pick' = [pick EXCEPT ![c] = x]
    /\ leave' = [leave EXCEPT ![c] = "chosen"]
    /\ UNCHANGED <<electVars, memberVars, join, recon, best, updates, app, pend>>

\* OnUnregister: the choice is installed under the gate.
InstallReplacement(c) ==
    /\ leave[c] = "chosen"
    /\ ReplaceMaster(c, pick[c])
    /\ leave' = [leave EXCEPT ![c] = "gone"]
    /\ pick' = [pick EXCEPT ![c] = NoClient]
    /\ UNCHANGED <<memberVars, join, recon, best, updates, app, pend>>

-----------------------------------------------------------------------------
(* A connected controller changes position *)

\* handleControlEvent: the new identity is stored under applyMu.
ControlUpdate(c, p) ==
    /\ c \in clients \ down /\ app[c] = "none"
    /\ recon[c] = "no" /\ updates < MaxUpdates /\ p # prio[c]
    /\ prio' = [prio EXCEPT ![c] = p]
    /\ recon' = [recon EXCEPT ![c] = "changed"]
    /\ updates' = updates + 1
    /\ UNCHANGED <<electVars, clients, down, eligible, join, leave, pick, best, app, pend>>

\* reconsiderMasterAfterLogin: the best client of a snapshot.  A client that
\* lost its registration, or a master that stays the best, only refreshes its
\* own metadata; nobody left means that the master read before is cleared.
Reconsider(c) ==
    /\ recon[c] = "changed"
    /\ \E b \in Preferred(master) :
          IF c \notin clients \/ b = master
          THEN /\ recon' = [recon EXCEPT ![c] = "no"]
               /\ UNCHANGED <<electVars, best>>
          ELSE IF b = NoClient
          THEN /\ ReplaceMaster(master, NoClient)
               /\ recon' = [recon EXCEPT ![c] = "no"]
               /\ UNCHANGED best
          ELSE /\ best' = [best EXCEPT ![c] = b]
               /\ recon' = [recon EXCEPT ![c] = "chosen"]
               /\ UNCHANGED electVars
    /\ UNCHANGED <<memberVars, join, leave, pick, updates, app, pend>>

ReconsiderPromote(c) ==
    /\ recon[c] = "chosen"
    /\ PromoteRegistered(best[c])
    /\ recon' = [recon EXCEPT ![c] = "no"]
    /\ best' = [best EXCEPT ![c] = NoClient]
    /\ UNCHANGED <<memberVars, join, leave, pick, updates, app, pend>>

-----------------------------------------------------------------------------
(* Applying messages *)

\* ApplyScopedMessage: an ordinary observation is applied only for the epoch
\* the plugin saw and only from the master ("sync" is the full inventory, the
\* other kinds are "fact"); a "tracked" event needs the epoch only.
ApplyBegin(c, kind) ==
    /\ c \in clients \ down /\ app[c] = "none"
    /\ c \in informed
    /\ kind = "tracked" \/ master = c
    /\ app' = [app EXCEPT ![c] = kind]
    /\ UNCHANGED <<electVars, memberVars, flowVars, pend>>

\* The handler returns; a completed sync marks the session (handleSync), a
\* failed one does not.
ApplyEnd(c) ==
    /\ app[c] # "none"
    /\ app' = [app EXCEPT ![c] = "none"]
    /\ \/ /\ app[c] = "sync"
          /\ synced' = TRUE /\ syncEpoch' = epoch
       \/ UNCHANGED <<synced, syncEpoch>>
    /\ UNCHANGED <<master, epoch, posEpoch, informed, memberVars, flowVars, pend>>

\* PositionFence: a report is received, or kept for coalescing, with the
\* authority its sender has now.
ReceivePosition(c) ==
    /\ c \in Reporters /\ c \in clients \ down /\ pend[c] = NoPend
    /\ master = c
    /\ pend' = [pend EXCEPT ![c] = [master |-> TRUE, fence |-> posEpoch[c], epoch |-> epoch]]
    /\ UNCHANGED <<electVars, memberVars, flowVars, app>>

\* validPositionFence and the master check around it.
FenceValid(c) ==
    pend[c].master /\ master = c /\ c \notin down /\ pend[c].fence = posEpoch[c]

\* processAircraftPosition / applyPendingPosition: applied if the fence is
\* valid, dropped otherwise.
DispatchPosition(c) ==
    /\ pend[c] # NoPend
    /\ pend' = [pend EXCEPT ![c] = NoPend]
    /\ UNCHANGED <<electVars, memberVars, flowVars, app>>

-----------------------------------------------------------------------------
Next ==
    \E c \in Clients :
        \/ Join(c) \/ Ready(c) \/ Announce(c) \/ Deliver(c)
        \/ CloseTransport(c) \/ RemoveMembership(c)
        \/ Detach(c) \/ ChooseReplacement(c) \/ InstallReplacement(c)
        \/ \E p \in Prios : ControlUpdate(c, p)
        \/ Reconsider(c) \/ ReconsiderPromote(c)
        \/ \E k \in Kinds : ApplyBegin(c, k)
        \/ ApplyEnd(c) \/ ReceivePosition(c) \/ DispatchPosition(c)

Spec == Init /\ [][Next]_vars

\* The steps of the goroutines that serve a client's arrival and departure.
Lifecycle(c) ==
    \/ Ready(c) \/ Announce(c)
    \/ c \in down /\ RemoveMembership(c)
    \/ Detach(c) \/ ChooseReplacement(c) \/ InstallReplacement(c)
    \/ Reconsider(c) \/ ReconsiderPromote(c)

\* Handlers return, and these goroutines run.  A writer waiting for the gate
\* gets it, since a sync.RWMutex admits no new reader once a writer waits:
\* the gate is free again and again, and hence strong fairness.
FairSpec ==
    /\ Spec
    /\ \A c \in Clients : WF_vars(ApplyEnd(c)) /\ SF_vars(Lifecycle(c))
    /\ []<>GateFree

-----------------------------------------------------------------------------
(* Properties *)

\* The hub's maps have their types, and the master epoch never leaves the
\* natural numbers (RemoveMembership must not rewind it).
TypeOK ==
    /\ clients \subseteq Clients /\ down \subseteq Clients /\ eligible \subseteq Clients
    /\ prio \in [Clients -> Prios]
    /\ master \in Clients \cup {NoClient}
    /\ epoch \in Nat /\ synced \in BOOLEAN /\ syncEpoch \in Nat
    /\ informed \subseteq Clients /\ posEpoch \in [Clients -> Nat]
    /\ app \in [Clients -> {"none", "sync", "fact", "tracked"}]
    /\ pend \in [Clients -> [master : BOOLEAN, fence : Nat, epoch : Nat]]
    /\ join \in [Clients -> JoinState] /\ leave \in [Clients -> LeaveState]
    /\ pick \in [Clients -> Clients \cup {NoClient}]
    /\ recon \in [Clients -> ReconState] /\ best \in [Clients -> Clients \cup {NoClient}]
    /\ updates \in Nat

\* Ordinary observations are applied by the master alone, for the epoch its
\* plugin knows, from the check to the end of the handler.
ApplicationFenced ==
    \A c \in Clients : app[c] # "none" =>
        /\ c \in informed
        /\ app[c] # "tracked" => master = c

\* "Synced" always means a complete inventory of the current election, never
\* one of an earlier master (the frontends act on it).
SyncedIsCurrent == synced => master # NoClient /\ syncEpoch = epoch

\* A position report passes its fence only in the very election in which it
\* was received: losing and regaining the master role does not revive it.
ReportOfThisElection ==
    \A c \in Clients : pend[c] # NoPend /\ FenceValid(c) => pend[c].epoch = epoch

\* Nothing about the election is under way for a connected client.
Quiescent ==
    /\ down \cap clients = {}
    /\ \A c \in Clients : leave[c] \in {"no", "gone"} /\ recon[c] = "no"
    /\ \A c \in clients : join[c] = "member"

\* When the dust settles the session has a connected master if it has any
\* client that can be one.
MasterConnected ==
    Quiescent => IF Candidates = {} THEN master = NoClient ELSE master \in Candidates

\* A client that can be master is not left without a connected master.
MasterEventually ==
    \A c \in Clients :
        (c \in Candidates) ~> (master \in Candidates \/ c \notin Candidates)

=============================================================================
