------------------------ MODULE SessionElectionProofs ------------------------
(***************************************************************************)
(* Proofs about SessionElection for any set of memberships, priorities and *)
(* either preemption policy.                                               *)
(***************************************************************************)
EXTENDS SessionElection, FiniteSetTheorems, TLAPS

\* A report whose fence still equals the client's position epoch was received
\* in the current election, by the client that is still the master.
FenceInv ==
    \A c \in Clients : pend[c].master =>
        /\ pend[c].fence <= posEpoch[c]
        /\ pend[c].fence = posEpoch[c] => master = c /\ pend[c].epoch = epoch

\* The inductive invariant.
IInv ==
    /\ TypeOK
    /\ ApplicationFenced
    /\ SyncedIsCurrent
    /\ FenceInv

-----------------------------------------------------------------------------
\* What a change of master is, whichever operation makes it: it waits for the
\* gate, moves to a new epoch, discards the sync and advances the position
\* epoch of the client that loses the role.
Elect ==
    \/ UNCHANGED electVars
    \/ /\ GateFree
       /\ master' \in Clients \cup {NoClient}
       /\ epoch' = epoch + 1
       /\ synced' = FALSE /\ syncEpoch' = 0
       /\ informed' = {}
       /\ posEpoch' \in [Clients -> Nat]
       /\ \A c \in Clients : posEpoch[c] <= posEpoch'[c]
       /\ \A c \in Clients : c = master => posEpoch[c] < posEpoch'[c]

\* setMasterClientLocked is an election: a new epoch, nobody synchronised or
\* informed, and the fences of the old and the new master move on.
LEMMA SetMasterElects ==
    ASSUME TypeOK, GateFree, NEW c \in Clients, SetMaster(c)
    PROVE  Elect
  <1>1. posEpoch' = [x \in Clients |-> IF x \in {c, master} THEN posEpoch[x] + 1 ELSE posEpoch[x]]
    BY DEF SetMaster
  <1>2. posEpoch \in [Clients -> Nat]
    BY DEF TypeOK
  <1>3. \A x \in Clients : posEpoch[x] \in Nat /\ posEpoch'[x] \in {posEpoch[x], posEpoch[x] + 1}
    BY <1>1, <1>2
  <1>4. posEpoch' \in [Clients -> Nat]
    BY <1>1, <1>2
  <1>5. \A x \in Clients : posEpoch[x] <= posEpoch'[x]
    BY <1>3
  <1>6. \A x \in Clients : x = master => posEpoch[x] < posEpoch'[x]
    BY <1>1, <1>2
  <1> QED  BY <1>4, <1>5, <1>6 DEF SetMaster, Elect

\* clearMasterClientLocked is one too.
LEMMA ClearMasterElects ==
    ASSUME TypeOK, GateFree, master # NoClient, ClearMaster
    PROVE  Elect
  <1>1. master \in Clients /\ posEpoch \in [Clients -> Nat]
    BY DEF TypeOK
  <1>2. posEpoch' = [posEpoch EXCEPT ![master] = @ + 1]
    BY DEF ClearMaster
  <1>3. posEpoch' \in [Clients -> Nat]
    BY <1>1, <1>2
  <1>4. \A x \in Clients : posEpoch[x] <= posEpoch'[x]
    BY <1>1, <1>2
  <1>5. \A x \in Clients : x = master => posEpoch[x] < posEpoch'[x]
    BY <1>1, <1>2
  <1> QED  BY <1>3, <1>4, <1>5 DEF ClearMaster, Elect

\* The two operations through which the master changes.
LEMMA PromoteElects ==
    ASSUME TypeOK, NEW c \in Clients \cup {NoClient}, PromoteRegistered(c)
    PROVE  Elect
  <1>1. CASE c \in Candidates /\ master # c /\ Supersedes(c)
    <2>1. c \in Clients /\ GateFree /\ SetMaster(c)
      BY <1>1 DEF PromoteRegistered, Candidates, TypeOK
    <2> QED  BY <2>1, SetMasterElects
  <1>2. CASE ~(c \in Candidates /\ master # c /\ Supersedes(c))
    BY <1>2 DEF PromoteRegistered, Elect
  <1> QED  BY <1>1, <1>2

\* replaceMasterIfCurrent either elects or leaves the election as it is.
LEMMA ReplaceElects ==
    ASSUME TypeOK, NEW e, NEW r \in Clients \cup {NoClient}, ReplaceMaster(e, r)
    PROVE  Elect
  <1>1. CASE master # e \/ e = NoClient
    BY <1>1 DEF ReplaceMaster, Elect
  <1>2. CASE master = e /\ e # NoClient /\ r = NoClient
    BY <1>2, ClearMasterElects DEF ReplaceMaster
  <1>3. CASE master = e /\ e # NoClient /\ r # NoClient
    <2>1. r \in Clients /\ GateFree /\ SetMaster(r)
      BY <1>3 DEF ReplaceMaster
    <2> QED  BY <2>1, SetMasterElects
  <1> QED  BY <1>1, <1>2, <1>3

\* A change of master preserves the three safety properties.
LEMMA ElectInv ==
    ASSUME IInv, ElectionAssumption, Elect, UNCHANGED <<app, pend>>
    PROVE  /\ ApplicationFenced' /\ SyncedIsCurrent' /\ FenceInv'
           /\ master' \in Clients \cup {NoClient}
           /\ epoch' \in Nat /\ synced' \in BOOLEAN /\ syncEpoch' \in Nat
           /\ posEpoch' \in [Clients -> Nat] /\ informed' \subseteq Clients
  <1>1. CASE UNCHANGED electVars
    <2>1. UNCHANGED <<master, epoch, synced, syncEpoch, posEpoch, informed, app, pend>>
      BY <1>1 DEF electVars
    <2> QED  BY <2>1 DEF IInv, TypeOK, ApplicationFenced, SyncedIsCurrent, FenceInv
  <1>2. CASE ~UNCHANGED electVars
    <2>1. /\ GateFree
          /\ master' \in Clients \cup {NoClient}
          /\ epoch' = epoch + 1
          /\ synced' = FALSE /\ syncEpoch' = 0
          /\ informed' = {}
          /\ posEpoch' \in [Clients -> Nat]
          /\ \A c \in Clients : posEpoch[c] <= posEpoch'[c]
          /\ \A c \in Clients : c = master => posEpoch[c] < posEpoch'[c]
      BY <1>2 DEF Elect
    <2>2. ApplicationFenced'
      BY <2>1 DEF GateFree, ApplicationFenced
    <2>3. SyncedIsCurrent'
      BY <2>1 DEF SyncedIsCurrent
    <2>4. FenceInv'
      <3> SUFFICES ASSUME NEW c \in Clients, pend[c].master
                   PROVE  pend[c].fence < posEpoch'[c]
        BY <2>1 DEF FenceInv, IInv, TypeOK
      <3>1. pend[c].fence \in Nat /\ posEpoch[c] \in Nat /\ posEpoch'[c] \in Nat
        BY <2>1 DEF IInv, TypeOK
      <3>2. pend[c].fence <= posEpoch[c] /\ (pend[c].fence = posEpoch[c] => master = c)
        BY DEF IInv, FenceInv
      <3>3. posEpoch[c] <= posEpoch'[c] /\ (c = master => posEpoch[c] < posEpoch'[c])
        BY <2>1
      <3> QED  BY <3>1, <3>2, <3>3
    <2>5. epoch' \in Nat /\ syncEpoch' \in Nat /\ informed' \subseteq Clients
      BY <2>1 DEF IInv, TypeOK
    <2>6. synced' \in BOOLEAN
      BY <2>1, Zenon
    <2> QED  BY <2>1, <2>2, <2>3, <2>4, <2>5, <2>6
  <1> QED  BY <1>1, <1>2

-----------------------------------------------------------------------------
\* An empty hub satisfies the invariant.
LEMMA InitInv == ElectionAssumption /\ Init => IInv
  <1> SUFFICES ASSUME ElectionAssumption, Init PROVE IInv
    OBVIOUS
  <1>1. ~synced /\ synced \in BOOLEAN
    BY Zenon DEF Init
  <1>2. TypeOK
    BY <1>1 DEF Init, TypeOK, NoPend, JoinState, LeaveState, ReconState
  <1>3. ApplicationFenced /\ SyncedIsCurrent
    BY <1>1 DEF Init, ApplicationFenced, SyncedIsCurrent
  <1>4. FenceInv
    BY DEF Init, FenceInv, NoPend
  <1> QED  BY <1>2, <1>3, <1>4 DEF IInv

\* Steps that may change the master.
LEMMA ElectionSteps ==
    ASSUME IInv, ElectionAssumption, NEW c \in Clients,
           Announce(c) \/ InstallReplacement(c) \/ Reconsider(c) \/ ReconsiderPromote(c)
    PROVE  IInv'
  <1>1. Elect
    <2>1. CASE Announce(c)
      BY <2>1, PromoteElects DEF Announce, IInv
    <2>2. CASE InstallReplacement(c)
      <3>1. pick[c] \in Clients \cup {NoClient}
        BY DEF IInv, TypeOK
      <3> QED  BY <2>2, <3>1, ReplaceElects DEF InstallReplacement, IInv
    <2>3. CASE Reconsider(c)
      <3>1. UNCHANGED electVars \/ ReplaceMaster(master, NoClient)
        BY <2>3 DEF Reconsider
      <3> QED  BY <3>1, ReplaceElects DEF IInv, Elect
    <2>4. CASE ReconsiderPromote(c)
      <3>1. best[c] \in Clients \cup {NoClient}
        BY DEF IInv, TypeOK
      <3> QED  BY <2>4, <3>1, PromoteElects DEF ReconsiderPromote, IInv
    <2> QED  BY <2>1, <2>2, <2>3, <2>4
  <1>2. UNCHANGED <<memberVars, app, pend, updates>>
    BY DEF Announce, InstallReplacement, Reconsider, ReconsiderPromote
  <1>3. /\ join' \in [Clients -> JoinState] /\ leave' \in [Clients -> LeaveState]
        /\ recon' \in [Clients -> ReconState]
    <2>1. /\ join \in [Clients -> JoinState] /\ leave \in [Clients -> LeaveState]
          /\ recon \in [Clients -> ReconState]
      BY DEF IInv, TypeOK
    <2>2. CASE Announce(c)
      BY <2>1, <2>2 DEF Announce, JoinState
    <2>3. CASE InstallReplacement(c)
      BY <2>1, <2>3 DEF InstallReplacement, LeaveState
    <2>4. CASE Reconsider(c)
      <3>1. \/ recon' = [recon EXCEPT ![c] = "no"]
            \/ recon' = [recon EXCEPT ![c] = "chosen"]
        BY <2>4 DEF Reconsider
      <3>2. UNCHANGED <<join, leave>>
        BY <2>4 DEF Reconsider
      <3> QED  BY <2>1, <3>1, <3>2 DEF ReconState
    <2>5. CASE ReconsiderPromote(c)
      BY <2>1, <2>5 DEF ReconsiderPromote, ReconState
    <2> QED  BY <2>2, <2>3, <2>4, <2>5
  <1>4. pick' \in [Clients -> Clients \cup {NoClient}]
    <2>1. pick \in [Clients -> Clients \cup {NoClient}]
      BY DEF IInv, TypeOK
    <2>2. pick' = pick \/ pick' = [pick EXCEPT ![c] = NoClient]
      BY DEF Announce, InstallReplacement, Reconsider, ReconsiderPromote
    <2> QED  BY <2>1, <2>2
  <1>5. best' \in [Clients -> Clients \cup {NoClient}]
    <2>1. CASE Reconsider(c)
      <3>1. Preferred(master) \subseteq Clients \cup {NoClient}
        BY DEF Preferred, Candidates, IInv, TypeOK
      <3> QED  BY <2>1, <3>1 DEF Reconsider, IInv, TypeOK
    <2>2. CASE ~Reconsider(c)
      BY <2>2 DEF Announce, InstallReplacement, ReconsiderPromote, IInv, TypeOK
    <2> QED  BY <2>1, <2>2
  <1>6. /\ ApplicationFenced' /\ SyncedIsCurrent' /\ FenceInv'
        /\ master' \in Clients \cup {NoClient}
        /\ epoch' \in Nat /\ synced' \in BOOLEAN /\ syncEpoch' \in Nat
        /\ posEpoch' \in [Clients -> Nat] /\ informed' \subseteq Clients
    BY <1>1, <1>2, ElectInv
  <1>7. /\ clients' \subseteq Clients /\ down' \subseteq Clients /\ eligible' \subseteq Clients
        /\ prio' \in [Clients -> Prios] /\ updates' \in Nat
        /\ app' \in [Clients -> {"none", "sync", "fact", "tracked"}]
        /\ pend' \in [Clients -> [master : BOOLEAN, fence : Nat, epoch : Nat]]
    BY <1>2 DEF IInv, TypeOK, memberVars
  <1>8. TypeOK'
    BY <1>3, <1>4, <1>5, <1>6, <1>7, Zenon DEF TypeOK
  <1> QED  BY <1>6, <1>8 DEF IInv

\* Steps of a membership's life that leave the master alone.
LEMMA MemberSteps ==
    ASSUME IInv, ElectionAssumption, NEW c \in Clients,
           \/ Join(c) \/ Ready(c) \/ CloseTransport(c) \/ RemoveMembership(c) \/ Detach(c)
           \/ ChooseReplacement(c) \/ Deliver(c) \/ \E p \in Prios : ControlUpdate(c, p)
    PROVE  IInv'
  <1> USE DEF electVars, memberVars, flowVars
  <1>1. CASE Join(c) \/ Ready(c) \/ CloseTransport(c)
    <2>1. UNCHANGED <<electVars, app, pend, prio, leave, pick, recon, best, updates>>
      BY <1>1 DEF Join, Ready, CloseTransport
    <2>2. /\ clients' \subseteq Clients /\ down' \subseteq Clients /\ eligible' \subseteq Clients
          /\ join' \in [Clients -> JoinState]
      BY <1>1 DEF Join, Ready, CloseTransport, IInv, TypeOK, JoinState
    <2>3. TypeOK'
      BY <2>1, <2>2 DEF IInv, TypeOK
    <2> QED  BY <2>1, <2>3 DEF IInv, ApplicationFenced, SyncedIsCurrent, FenceInv
  <1>2. CASE RemoveMembership(c)
    <2>1. /\ posEpoch' = [posEpoch EXCEPT ![c] = @ + 1]
          /\ UNCHANGED <<master, epoch, synced, syncEpoch, informed, app, pend>>
      BY <1>2 DEF RemoveMembership
    <2>2. TypeOK'
      BY <1>2 DEF RemoveMembership, IInv, TypeOK, LeaveState
    <2>3. ApplicationFenced' /\ SyncedIsCurrent'
      BY <2>1 DEF IInv, ApplicationFenced, SyncedIsCurrent
    <2>4. FenceInv'
      BY <2>1 DEF IInv, FenceInv, TypeOK
    <2> QED  BY <2>2, <2>3, <2>4 DEF IInv
  <1>3. CASE Detach(c)
    <2>1. /\ UNCHANGED <<synced, syncEpoch>> \/ (synced' = FALSE /\ syncEpoch' = 0)
          /\ UNCHANGED <<master, epoch, posEpoch, informed, clients, down, eligible, prio, join, pick,
                         recon, best, updates, app, pend>>
          /\ leave' = [leave EXCEPT ![c] = "detached"]
      BY <1>3 DEF Detach
    <2>2. synced' \in BOOLEAN
      <3>1. synced \in BOOLEAN
        BY DEF IInv, TypeOK
      <3> QED  BY <2>1, <3>1, Zenon
    <2>3. TypeOK'
      BY <2>1, <2>2 DEF IInv, TypeOK, LeaveState
    <2>4. ApplicationFenced' /\ FenceInv'
      BY <2>1 DEF IInv, ApplicationFenced, FenceInv
    <2>5. SyncedIsCurrent'
      BY <2>1 DEF IInv, SyncedIsCurrent
    <2> QED  BY <2>3, <2>4, <2>5 DEF IInv
  <1>4. CASE ChooseReplacement(c)
    <2>1. Preferred(NoClient) \subseteq Clients \cup {NoClient}
      BY DEF Preferred, Candidates, IInv, TypeOK
    <2> QED  BY <1>4, <2>1 DEF ChooseReplacement, IInv, TypeOK, ApplicationFenced, SyncedIsCurrent,
           FenceInv, LeaveState
  <1>5. CASE Deliver(c)
    BY <1>5 DEF Deliver, IInv, TypeOK, ApplicationFenced, SyncedIsCurrent, FenceInv
  <1>6. CASE \E p \in Prios : ControlUpdate(c, p)
    BY <1>6 DEF ControlUpdate, IInv, TypeOK, ApplicationFenced, SyncedIsCurrent, FenceInv, ReconState
  <1> QED  BY <1>1, <1>2, <1>3, <1>4, <1>5, <1>6

\* Steps that apply messages.
LEMMA ApplySteps ==
    ASSUME IInv, ElectionAssumption, NEW c \in Clients,
           \/ \E k \in Kinds : ApplyBegin(c, k)
           \/ ApplyEnd(c) \/ ReceivePosition(c) \/ DispatchPosition(c)
    PROVE  IInv'
  <1> USE DEF electVars, memberVars, flowVars
  <1>1. ASSUME NEW k \in Kinds, ApplyBegin(c, k)
        PROVE  IInv'
    BY <1>1 DEF ApplyBegin, IInv, TypeOK, ApplicationFenced, SyncedIsCurrent, FenceInv, ElectionAssumption
  <1>2. CASE ApplyEnd(c)
    <2>1. /\ app' = [app EXCEPT ![c] = "none"]
          /\ (app[c] = "sync" /\ synced' = TRUE /\ syncEpoch' = epoch) \/ UNCHANGED <<synced, syncEpoch>>
          /\ UNCHANGED <<master, epoch, posEpoch, informed, clients, down, eligible, prio, join,
                         leave, pick, recon, best, updates, pend>>
      BY <1>2 DEF ApplyEnd
    <2>2. synced' \in BOOLEAN /\ syncEpoch' \in Nat
      BY <2>1 DEF IInv, TypeOK
    <2>3. TypeOK'
      BY <2>1, <2>2 DEF IInv, TypeOK
    <2>4. ApplicationFenced' /\ FenceInv'
      BY <2>1 DEF IInv, ApplicationFenced, FenceInv, TypeOK
    <2>5. SyncedIsCurrent'
      <3>1. CASE app[c] = "sync" /\ syncEpoch' = epoch
        BY <2>1, <3>1 DEF IInv, ApplicationFenced, SyncedIsCurrent, ElectionAssumption
      <3>2. CASE UNCHANGED <<synced, syncEpoch>>
        BY <2>1, <3>2 DEF IInv, SyncedIsCurrent
      <3> QED  BY <2>1, <3>1, <3>2
    <2> QED  BY <2>3, <2>4, <2>5 DEF IInv
  <1>3. CASE ReceivePosition(c)
    <2>1. /\ pend' = [pend EXCEPT ![c] = [master |-> TRUE, fence |-> posEpoch[c], epoch |-> epoch]]
          /\ master = c
          /\ UNCHANGED <<electVars, memberVars, flowVars, app>>
      BY <1>3 DEF ReceivePosition
    <2>2. TypeOK'
      BY <2>1 DEF IInv, TypeOK
    <2>3. FenceInv'
      BY <2>1 DEF IInv, FenceInv, TypeOK
    <2> QED  BY <2>1, <2>2, <2>3 DEF IInv, ApplicationFenced, SyncedIsCurrent
  <1>4. CASE DispatchPosition(c)
    <2>1. pend' = [pend EXCEPT ![c] = NoPend] /\ UNCHANGED <<electVars, memberVars, flowVars, app>>
      BY <1>4 DEF DispatchPosition
    <2>2. TypeOK'
      BY <2>1 DEF IInv, TypeOK, NoPend
    <2>3. FenceInv'
      BY <2>1 DEF IInv, FenceInv, TypeOK, NoPend
    <2> QED  BY <2>1, <2>2, <2>3 DEF IInv, ApplicationFenced, SyncedIsCurrent
  <1> QED  BY <1>1, <1>2, <1>3, <1>4

\* Every step of the hub preserves the invariant, one action at a time.
LEMMA NextInv == ElectionAssumption /\ IInv /\ [Next]_vars => IInv'
  <1> SUFFICES ASSUME ElectionAssumption, IInv, [Next]_vars PROVE IInv'
    OBVIOUS
  <1>1. CASE UNCHANGED vars
    BY <1>1 DEF vars, electVars, memberVars, flowVars, IInv, TypeOK, ApplicationFenced,
           SyncedIsCurrent, FenceInv
  <1>2. CASE Next
    <2>1. PICK c \in Clients :
             \/ Join(c) \/ Ready(c) \/ Announce(c) \/ Deliver(c)
             \/ CloseTransport(c) \/ RemoveMembership(c)
             \/ Detach(c) \/ ChooseReplacement(c) \/ InstallReplacement(c)
             \/ \E p \in Prios : ControlUpdate(c, p)
             \/ Reconsider(c) \/ ReconsiderPromote(c)
             \/ \E k \in Kinds : ApplyBegin(c, k)
             \/ ApplyEnd(c) \/ ReceivePosition(c) \/ DispatchPosition(c)
      BY <1>2 DEF Next
    <2> QED  BY <2>1, ElectionSteps, MemberSteps, ApplySteps
  <1> QED  BY <1>1, <1>2

\* The invariant holds in every reachable state of the election.
THEOREM ElectionInvariant == Spec => []IInv
  BY ElectionAssumption, InitInv, NextInv, PTL DEF Spec

\* Type correctness of the session's memberships and election.
THEOREM ElectionTypeOK == Spec => []TypeOK
  BY ElectionInvariant, PTL DEF IInv

\* An ordinary observation is applied by the current master in the epoch its
\* plugin knows, however elections, removals and applications interleave.
THEOREM ElectionApplicationFenced == Spec => []ApplicationFenced
  BY ElectionInvariant, PTL DEF IInv

\* The synced flag always stands for a full inventory of the current epoch.
THEOREM ElectionSyncedIsCurrent == Spec => []SyncedIsCurrent
  BY ElectionInvariant, PTL DEF IInv

\* A position report that passes its fence was received in this election.
THEOREM ElectionReportFence == Spec => []ReportOfThisElection
  <1>1. IInv => ReportOfThisElection
    BY DEF IInv, FenceInv, ReportOfThisElection, FenceValid
  <1> QED  BY <1>1, ElectionInvariant, PTL

-----------------------------------------------------------------------------
(* One membership leaving at a time: the master is connected in the end *)

Leaving(c) == leave[c] \in {"removed", "detached", "chosen"}

\* The master's departure is about to leave the session without one.
Vacating == master # NoClient /\ leave[master] = "chosen" /\ pick[master] = NoClient

\* The master is a connected client or one whose departure is under way; a
\* replacement that was chosen stays connected until it is installed; and
\* while there is no master, or soon will be none, every candidate still has
\* its own election ahead.
Covered ==
    /\ \A c \in Clients : leave[c] # "no" => c \in down \ clients
    /\ \A c \in Clients : join[c] = "absent" => c \notin clients /\ leave[c] = "no"
    /\ \A c, d \in Clients : Leaving(c) /\ Leaving(d) => c = d
    /\ master # NoClient => /\ master \in eligible \ Observers
                            /\ master \in clients \/ Leaving(master)
    /\ \A c \in Clients : leave[c] = "chosen" /\ pick[c] # NoClient =>
          pick[c] \in (clients \cap eligible) \ Observers
    /\ master = NoClient \/ Vacating => \A c \in Candidates : join[c] # "member"

\* A choice without a current master is a candidate, and nobody only if there
\* is none.
LEMMA ChoiceFresh ==
    ASSUME TypeOK, ElectionAssumption, NEW x \in Preferred(NoClient)
    PROVE  x \in Candidates \/ (x = NoClient /\ Candidates = {})
  <1>1. NoClient \notin eligible
    BY DEF TypeOK, ElectionAssumption
  <1> QED  BY <1>1 DEF Preferred

\* RemoveMembership starts only when no other departure is under way.
LEMMA LeavesAlone ==
    ASSUME MaxLeaving = 1, Covered, NEW c \in Clients, RemoveMembership(c)
    PROVE  \A d \in Clients : ~Leaving(d)
  <1> SUFFICES ASSUME NEW d \in Clients, Leaving(d) PROVE FALSE
    OBVIOUS
  <1> DEFINE S == {x \in Clients : leave[x] \in {"removed", "detached", "chosen"}}
  <1>1. S = {d}
    BY DEF Covered, Leaving
  <1>2. Cardinality(S) = 1
    BY <1>1, FS_Singleton
  <1>3. Cardinality(S) < 1
    BY DEF RemoveMembership
  <1> HIDE DEF S
  <1> QED  BY <1>2, <1>3

\* A membership arrives, closes or begins to leave.
LEMMA MembersCovered ==
    ASSUME MaxLeaving = 1, TypeOK, ElectionAssumption, Covered, NEW c \in Clients,
           Join(c) \/ Ready(c) \/ CloseTransport(c) \/ RemoveMembership(c)
    PROVE  Covered'
  <1>0. NoClient \notin Clients /\ eligible \subseteq Clients /\ clients \subseteq Clients
    BY DEF TypeOK, ElectionAssumption
  <1>1. CASE Join(c)
    <2>1. /\ join[c] = "absent" /\ clients' = clients \cup {c} /\ UNCHANGED <<master, down, leave, pick>>
          /\ \/ join' = [join EXCEPT ![c] = "member"] /\ c \in Observers /\ eligible' = eligible \cup {c}
             \/ join' = [join EXCEPT ![c] = "joining"] /\ c \notin Observers /\ eligible' = eligible
      BY <1>1 DEF Join, electVars
    <2>2. \A x \in Clients : x # c => join'[x] = join[x]
      BY <2>1 DEF TypeOK
    <2>3. join'[c] # "absent" /\ (c \notin Observers => join'[c] = "joining")
      BY <2>1 DEF TypeOK
    <2>4. leave[c] = "no" /\ c \notin clients
      BY <2>1 DEF Covered
    <2>5. \A x \in Candidates' : x # c => x \in Candidates
      BY <2>1 DEF Candidates
    <2>6. \A x \in Candidates' : x \notin Observers
      BY DEF Candidates
    <2>7. Candidates' \subseteq Clients
      BY <1>0, <2>1 DEF Candidates
    <2> QED  BY <1>0, <2>1, <2>2, <2>3, <2>4, <2>5, <2>6, <2>7 DEF Covered, Leaving, Vacating
  <1>2. CASE Ready(c)
    <2>1. /\ join[c] = "joining" /\ eligible' = eligible \cup {c} /\ join' = [join EXCEPT ![c] = "ready"]
          /\ UNCHANGED <<master, clients, down, leave, pick>>
      BY <1>2 DEF Ready, electVars
    <2>2. join'[c] = "ready" /\ \A x \in Clients : x # c => join'[x] = join[x]
      BY <2>1 DEF TypeOK
    <2>3. \A x \in Candidates' : x \in Clients /\ (x # c => x \in Candidates)
      BY <1>0, <2>1 DEF Candidates
    <2> QED  BY <2>1, <2>2, <2>3 DEF Covered, Leaving, Vacating
  <1>3. CASE CloseTransport(c)
    <2>1. down' = down \cup {c} /\ UNCHANGED <<master, clients, eligible, join, leave, pick>>
      BY <1>3 DEF CloseTransport, electVars, flowVars
    <2>2. Candidates' \subseteq Candidates
      BY <2>1 DEF Candidates
    <2> QED  BY <2>1, <2>2 DEF Covered, Leaving, Vacating
  <1>4. CASE RemoveMembership(c)
    <2>1. /\ c \in clients /\ down' = down \cup {c} /\ clients' = clients \ {c}
          /\ leave' = [leave EXCEPT ![c] = "removed"] /\ UNCHANGED <<master, eligible, join, pick>>
      BY <1>4 DEF RemoveMembership
    <2>2. \A d \in Clients : ~Leaving(d)
      BY <1>4, LeavesAlone
    <2>3. leave'[c] = "removed" /\ \A x \in Clients : x # c => leave'[x] = leave[x]
      BY <2>1 DEF TypeOK
    <2>4. Candidates' \subseteq Candidates
      BY <2>1 DEF Candidates
    <2>5. \A x \in Clients : leave'[x] # "chosen"
      BY <2>2, <2>3 DEF Leaving
    <2>6. master # NoClient => master \in clients
      BY <2>2 DEF Covered, TypeOK
    <2>7. \A x, y \in Clients : Leaving(x)' /\ Leaving(y)' => x = y
      BY <2>2, <2>3 DEF Leaving
    <2>8. ~Vacating'
      BY <1>0, <2>1, <2>5 DEF Vacating, TypeOK
    <2> QED  BY <2>1, <2>3, <2>4, <2>5, <2>6, <2>7, <2>8 DEF Covered, Leaving
  <1> QED  BY <1>1, <1>2, <1>3, <1>4

\* OnUnregister: the replacement is a candidate, which cannot leave before it
\* is installed.
LEMMA DepartureCovered ==
    ASSUME MaxLeaving = 1, TypeOK, ElectionAssumption, Covered, NEW c \in Clients,
           Detach(c) \/ ChooseReplacement(c) \/ InstallReplacement(c)
    PROVE  Covered'
  <1>0. /\ NoClient \notin Clients /\ eligible \subseteq Clients /\ clients \subseteq Clients
        /\ UNCHANGED <<clients, down, eligible, join>> /\ Candidates' = Candidates
    BY DEF TypeOK, ElectionAssumption, Detach, ChooseReplacement, InstallReplacement, memberVars, Candidates
  <1>1. CASE Detach(c)
    <2>1. leave[c] = "removed" /\ leave' = [leave EXCEPT ![c] = "detached"] /\ UNCHANGED <<master, pick>>
      BY <1>1 DEF Detach
    <2>2. leave'[c] = "detached" /\ \A x \in Clients : x # c => leave'[x] = leave[x]
      BY <2>1 DEF TypeOK
    <2>3. \A x \in Clients : Leaving(x)' => Leaving(x)
      BY <2>1, <2>2 DEF Leaving
    <2>4. \A x \in Clients : Leaving(x) => Leaving(x)'
      BY <2>1, <2>2 DEF Leaving
    <2>5. Vacating' => Vacating
      BY <2>1, <2>2 DEF Vacating, TypeOK
    <2> QED  BY <1>0, <2>1, <2>2, <2>3, <2>4, <2>5 DEF Covered, TypeOK
  <1>2. CASE ChooseReplacement(c)
    <2>1. PICK x \in Preferred(NoClient) :
            /\ leave[c] = "detached" /\ leave' = [leave EXCEPT ![c] = "chosen"]
            /\ pick' = [pick EXCEPT ![c] = x] /\ UNCHANGED master
      BY <1>2 DEF ChooseReplacement, electVars
    <2>2. /\ leave'[c] = "chosen" /\ pick'[c] = x
          /\ \A y \in Clients : y # c => leave'[y] = leave[y] /\ pick'[y] = pick[y]
      BY <2>1 DEF TypeOK
    <2>3. x \in Candidates \/ (x = NoClient /\ Candidates = {})
      BY ChoiceFresh
    <2>4. \A y \in Clients : Leaving(y)' => Leaving(y)
      BY <2>1, <2>2 DEF Leaving
    <2>5. \A y \in Clients : Leaving(y) => Leaving(y)'
      BY <2>1, <2>2 DEF Leaving
    <2>6. Vacating' => Vacating \/ Candidates = {}
      BY <1>0, <2>1, <2>2, <2>3 DEF Vacating, TypeOK, Candidates
    <2>7. \A y \in Clients : leave'[y] = "chosen" /\ pick'[y] # NoClient =>
             pick'[y] \in (clients' \cap eligible') \ Observers
      BY <1>0, <2>2, <2>3 DEF Covered, Candidates
    <2> QED  BY <1>0, <2>1, <2>2, <2>4, <2>5, <2>6, <2>7 DEF Covered, TypeOK
  <1>3. CASE InstallReplacement(c)
    <2>1. /\ leave[c] = "chosen" /\ leave' = [leave EXCEPT ![c] = "gone"]
          /\ pick' = [pick EXCEPT ![c] = NoClient] /\ ReplaceMaster(c, pick[c])
      BY <1>3 DEF InstallReplacement
    <2>2. /\ leave'[c] = "gone"
          /\ \A y \in Clients : y # c => leave'[y] = leave[y] /\ pick'[y] = pick[y]
      BY <2>1 DEF TypeOK
    <2>3. Leaving(c) /\ \A y \in Clients : ~Leaving(y)'
      <3>1. Leaving(c)
        BY <2>1 DEF Leaving
      <3> QED  BY <2>2, <3>1 DEF Covered, Leaving
    <2>4. ~Vacating'
      <3>1. master' \in {master, NoClient, pick[c]}
        BY <2>1 DEF ReplaceMaster, SetMaster, ClearMaster, electVars
      <3>2. master' \in Clients \cup {NoClient}
        BY <3>1 DEF TypeOK
      <3> QED  BY <2>3, <3>2 DEF Vacating, Leaving
    <2>5. CASE master # c
      <3>1. master' = master
        BY <2>1, <2>5 DEF ReplaceMaster, electVars
      <3>2. master # NoClient => master \in clients
        BY <2>3, <2>5 DEF Covered, TypeOK
      <3> QED  BY <1>0, <2>2, <2>3, <2>4, <3>1, <3>2 DEF Covered, Leaving
    <2>6. CASE master = c /\ pick[c] = NoClient
      <3>1. master' = NoClient /\ Vacating
        BY <1>0, <2>1, <2>6 DEF ReplaceMaster, ClearMaster, Vacating
      <3> QED  BY <1>0, <2>2, <2>3, <2>4, <3>1 DEF Covered, Leaving
    <2>7. CASE master = c /\ pick[c] # NoClient
      <3>1. master' = pick[c] /\ pick[c] \in (clients \cap eligible) \ Observers
        BY <1>0, <2>1, <2>7 DEF ReplaceMaster, SetMaster, Covered
      <3> QED  BY <1>0, <2>2, <2>3, <2>4, <2>7, <3>1 DEF Covered, Leaving
    <2> QED  BY <2>5, <2>6, <2>7
  <1> QED  BY <1>1, <1>2, <1>3

\* Elections of connected clients: a candidate that looks finds the session
\* without a master, or with one that is leaving, and takes over.
LEMMA ElectionsCovered ==
    ASSUME TypeOK, ElectionAssumption, Covered, NEW c \in Clients,
           Announce(c) \/ Reconsider(c) \/ ReconsiderPromote(c)
    PROVE  Covered'
  <1>0. /\ NoClient \notin Clients /\ eligible \subseteq Clients /\ clients \subseteq Clients
        /\ UNCHANGED <<clients, down, eligible, leave, pick>> /\ Candidates' = Candidates
        /\ Candidates \subseteq Clients
    BY DEF TypeOK, ElectionAssumption, Announce, Reconsider, ReconsiderPromote, memberVars, Candidates
  <1>1. \A x \in Clients : Leaving(x)' <=> Leaving(x)
    BY <1>0 DEF Leaving
  <1>2. \A x \in Candidates : x \in (clients \cap eligible) \ (Observers \cup down)
    BY DEF Candidates
  \* Any election of a candidate, the joins as they are or one of them over.
  <1>3. ASSUME NEW x \in Candidates, master' = x,
               \A y \in Clients : join'[y] = "absent" => join[y] = "absent"
        PROVE  Covered'
    <2>1. master' # NoClient /\ ~Leaving(x)
      BY <1>0, <1>2, <1>3 DEF Covered, Leaving
    <2>2. ~Vacating'
      BY <1>0, <1>3, <2>1 DEF Vacating, Leaving
    <2> QED  BY <1>0, <1>2, <1>3, <2>1, <2>2 DEF Covered, Leaving
  <1>4. CASE Announce(c)
    <2>1. join[c] = "ready" /\ join' = [join EXCEPT ![c] = "member"] /\ PromoteRegistered(c)
      BY <1>4 DEF Announce
    <2>2. \A y \in Clients : (y # c => join'[y] = join[y]) /\ (join'[y] = "absent" => join[y] = "absent")
      BY <2>1 DEF TypeOK
    <2>3. CASE c \in Candidates /\ master # c /\ Supersedes(c)
      <3>1. master' = c
        BY <2>1, <2>3 DEF PromoteRegistered, SetMaster
      <3> QED  BY <1>3, <2>2, <2>3, <3>1
    <2>4. CASE ~(c \in Candidates /\ master # c /\ Supersedes(c))
      <3>1. master' = master
        BY <2>1, <2>4 DEF PromoteRegistered, electVars
      <3>2. master = NoClient \/ Vacating => c \notin Candidates
        <4>1. CASE master = NoClient
          BY <1>0, <2>4, <4>1 DEF Supersedes
        <4>2. CASE Vacating
          <5>1. master \in down
            BY <4>2 DEF Vacating, Covered, TypeOK
          <5> QED  BY <1>2, <2>4, <5>1 DEF Supersedes
        <4> QED  BY <4>1, <4>2
      <3>3. Vacating' => Vacating
        BY <1>0, <3>1 DEF Vacating
      <3> QED  BY <1>0, <2>2, <3>1, <3>2, <3>3 DEF Covered, Leaving
    <2> QED  BY <2>3, <2>4
  <1>5. CASE master' = master /\ join' = join
    BY <1>0, <1>5 DEF Covered, Leaving, Vacating
  <1>6. CASE Reconsider(c)
    <2>1. PICK b \in Preferred(master) :
            /\ join' = join
            /\ \/ UNCHANGED electVars
               \/ b = NoClient /\ b # master /\ ReplaceMaster(master, NoClient)
      BY <1>6 DEF Reconsider
    <2>2. CASE UNCHANGED electVars
      BY <1>5, <2>1, <2>2 DEF electVars
    <2>3. CASE b = NoClient /\ b # master /\ ReplaceMaster(master, NoClient)
      <3>1. master' = NoClient
        BY <2>3 DEF ReplaceMaster, ClearMaster
      <3>2. Candidates = {}
        BY <1>0, <2>1, <2>3 DEF Preferred
      <3>3. ~Vacating'
        BY <3>1 DEF Vacating
      <3> QED  BY <1>0, <2>1, <3>1, <3>2, <3>3 DEF Covered, Leaving
    <2> QED  BY <2>1, <2>2, <2>3
  <1>7. CASE ReconsiderPromote(c)
    <2>1. join' = join /\ PromoteRegistered(best[c])
      BY <1>7 DEF ReconsiderPromote
    <2>2. master' = master \/ (best[c] \in Candidates /\ master' = best[c])
      BY <2>1 DEF PromoteRegistered, SetMaster, electVars
    <2> QED  BY <1>3, <1>5, <2>1, <2>2
  <1> QED  BY <1>4, <1>6, <1>7

\* Every step keeps the session covered.
LEMMA CoveredStep ==
    ASSUME MaxLeaving = 1, ElectionAssumption, TypeOK, Covered, [Next]_vars
    PROVE  Covered'
  <1>1. CASE UNCHANGED <<master, clients, down, eligible, join, leave, pick>>
    <2>1. Candidates' = Candidates /\ (Vacating' => Vacating)
      BY <1>1 DEF Candidates, Vacating
    <2> QED  BY <1>1, <2>1 DEF Covered, Leaving
  <1>2. ASSUME NEW c \in Clients,
               \/ Deliver(c) \/ (\E p \in Prios : ControlUpdate(c, p))
               \/ (\E k \in Kinds : ApplyBegin(c, k))
               \/ ApplyEnd(c) \/ ReceivePosition(c) \/ DispatchPosition(c)
        PROVE  Covered'
    BY <1>1, <1>2
    DEF Deliver, ControlUpdate, ApplyBegin, ApplyEnd, ReceivePosition, DispatchPosition,
        electVars, memberVars, flowVars
  <1>3. CASE UNCHANGED vars
    BY <1>1, <1>3 DEF vars, electVars, memberVars, flowVars
  <1> QED
    BY <1>2, <1>3, MembersCovered, DepartureCovered, ElectionsCovered DEF Next

\* While departures follow each other, a session in which nothing is under way
\* has a connected master if it has any client that can be one: no order of
\* arrivals, closes, departures and position changes loses it.
THEOREM ElectionMasterConnected ==
    ASSUME MaxLeaving = 1
    PROVE  Spec => []MasterConnected
  <1>1. Init => Covered
    BY DEF Init, Covered, Candidates, Leaving
  <1>2. TypeOK /\ Covered => MasterConnected
    <2> SUFFICES ASSUME TypeOK, Covered, Quiescent
                 PROVE  IF Candidates = {} THEN master = NoClient ELSE master \in Candidates
      BY DEF MasterConnected
    <2>1. master # NoClient => master \in Candidates
      BY DEF TypeOK, Covered, Quiescent, Leaving, Candidates
    <2>2. master = NoClient => Candidates = {}
      BY DEF TypeOK, Covered, Quiescent, Candidates
    <2>3. NoClient \notin Candidates
      BY ElectionAssumption DEF TypeOK, Candidates
    <2> QED  BY <2>1, <2>2, <2>3
  <1>3. TypeOK /\ Covered /\ [Next]_vars => Covered'
    BY CoveredStep, ElectionAssumption
  <1> QED  BY <1>1, <1>2, <1>3, ElectionTypeOK, PTL DEF Spec

=============================================================================
