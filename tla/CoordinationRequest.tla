------------------------- MODULE CoordinationRequest -------------------------
(***************************************************************************)
(* AMAN coordination requests (backend/internal/coordinationrequest): a    *)
(* flow manager asks the controller of a flight for a route, a direct or a *)
(* speed, and that controller accepts or rejects.                          *)
(*                                                                         *)
(* The service reads the flight's tracking controller and the request      *)
(* before the repository's transaction; the transaction holds the          *)
(* airport's advisory lock and is one action.  There is no counter: the    *)
(* revision a command must name is computed from the requests themselves.  *)
(* Every answer may be lost and every command sent again, with the same    *)
(* command ID or, by mistake, with one that is used already.               *)
(*                                                                         *)
(* Time stamps are left out: a command or fact that is older than the last *)
(* change of a request it touches is refused with nothing written.         *)
(***************************************************************************)
EXTENDS Naturals, FiniteSets

CONSTANTS
    Flights, Kinds,
    Controllers,    \* controllers of flights, one client each
    FlowManagers,   \* clients with an FMP role
    None,
    Commands,       \* command IDs
    Clearances,     \* fact IDs of observed clearances
    MaxCalls,       \* bound of the model: commands served at once
    MaxFacts,       \* bound of the model: ownership changes of a flight
    MaxCommits      \* bound of the model: AMAN revisions that expire requests

ASSUME RequestAssumption ==
    /\ MaxCalls \in Nat /\ MaxFacts \in Nat /\ MaxCommits \in Nat
    /\ None \notin Controllers /\ None \notin Commands /\ None \notin Clearances
    /\ Controllers \cap FlowManagers = {}

VARIABLES
    requests,   \* the rows of aman_coordination_requests
    tracking,   \* strips.tracking_controller
    facts,      \* ownership facts observed, delivered at any time and any number of times
    call        \* the command each client's goroutine serves

vars == <<requests, tracking, facts, call>>

Clients == Controllers \cup FlowManagers
Recipients == Controllers \cup {None}
Resolved == {"accepted", "rejected", "superseded", "expired"}
\* An expiry fact names its flight and the AMAN revision.
ExpiryFacts == Flights \X (1..MaxCommits)

Request == [
    cmd : Commands, flight : Flights, kind : Kinds, to : Recipients,
    state : Resolved \cup {"pending"}, decision : Commands \cup {None},
    transfers : SUBSET (1..MaxFacts), expiry : ExpiryFacts \cup {<<>>},
    clearance : Clearances \cup {None}]
OwnershipFact == [flight : Flights, rev : 1..MaxFacts, owner : Recipients]

Idle == [op |-> "idle", cmd |-> None, flight |-> None, kind |-> None,
         to |-> None, request |-> None, expected |-> 0]
InCall(c) == call[c].op # "idle"
MayCall(c) == ~InCall(c) /\ Cardinality({d \in Clients : InCall(d)}) < MaxCalls

Init ==
    /\ requests = {} /\ facts = {}
    /\ tracking \in [Flights -> Recipients]
    /\ call = [c \in Clients |-> Idle]

-----------------------------------------------------------------------------
(* The revision *)

\* Mutation: a fact counts once for every request it moved.
RevisionPerTransfer(rs) ==
    Cardinality(rs) + Cardinality({r \in rs : r.decision # None})
        + Cardinality(UNION {{<<r.cmd, n>> : n \in r.transfers} : r \in rs})
        + Cardinality({r.expiry : r \in rs} \ {<<>>})
        + Cardinality({r.clearance : r \in rs} \ {None})

\* coordinationRevision: requests, decisions, and the distinct ownership,
\* expiry and clearance facts that reached a request.
Revision(rs) ==
    Cardinality(rs) + Cardinality({r \in rs : r.decision # None})
        + Cardinality(UNION {{<<r.flight, n>> : n \in r.transfers} : r \in rs})
        + Cardinality({r.expiry : r \in rs} \ {<<>>})
        + Cardinality({r.clearance : r \in rs} \ {None})

-----------------------------------------------------------------------------
(* Commands of the clients *)

Put(c, v) == call' = [call EXCEPT ![c] = v]
Return(c) == Put(c, Idle) /\ UNCHANGED <<requests, tracking, facts>>

\* Service.Submit: the recipient is whoever tracks the flight now.  expected is
\* the revision of the snapshot the flow manager last received.
SubmitStart(c, cmd, f, k) ==
    /\ c \in FlowManagers /\ MayCall(c)
    /\ Put(c, [Idle EXCEPT !.op = "submit", !.cmd = cmd, !.flight = f, !.kind = k,
                           !.to = tracking[f], !.expected = Revision(requests)])
    /\ UNCHANGED <<requests, tracking, facts>>

\* Request.New
New(v) == [cmd |-> v.cmd, flight |-> v.flight, kind |-> v.kind, to |-> v.to, state |-> "pending",
           decision |-> None, transfers |-> {}, expiry |-> <<>>, clearance |-> None]

\* Mutation: the command ID of a submission may be used again.
UsedByDecision(cmd) == \E r \in requests : cmd = r.decision

\* The command ID is in use, by a request or by a decision.
Used(cmd) == \E r \in requests : cmd \in {r.cmd, r.decision}

Pending(f) == {r \in requests : r.flight = f /\ r.state = "pending"}
\* The pending request a new one replaces.
Replaced(v) == {r \in Pending(v.flight) : r.kind = v.kind}

\* Mutation: the prior request stays pending.
SubmitBeside(v) == requests' = requests \cup {New(v)}

\* Submit and Supersede: of the requests found pending, one is superseded.
SubmitInsert(v) ==
    IF Replaced(v) = {} THEN requests' = requests \cup {New(v)}
    ELSE \E r \in Replaced(v) :
            requests' = (requests \ {r}) \cup {New(v), [r EXCEPT !.state = "superseded"]}

\* Repository.Submit: a command ID that is used is answered as a duplicate or
\* as a conflict before the revision is compared.
Submit(c) ==
    LET v == call[c] IN
    /\ v.op = "submit"
    /\ IF Used(v.cmd) \/ Revision(requests) # v.expected
       THEN UNCHANGED requests
       ELSE SubmitInsert(v)
    /\ Put(c, Idle)
    /\ UNCHANGED <<tracking, facts>>

\* Service.decide, Get: the request as it is now.
DecideStart(c, cmd, r) ==
    /\ MayCall(c)
    /\ Put(c, [Idle EXCEPT !.op = "authorize", !.cmd = cmd, !.flight = r.flight, !.to = r.to,
                           !.request = r.cmd, !.expected = Revision(requests)])
    /\ UNCHANGED <<requests, tracking, facts>>

\* Service.decide, TrackingController: the client must be the recipient and
\* must track the flight.
DecideAuthorize(c) ==
    LET v == call[c] IN
    /\ v.op = "authorize"
    /\ IF v.to # None /\ tracking[v.flight] = v.to /\ c = v.to
       THEN Put(c, [v EXCEPT !.op = "decide"]) ELSE Put(c, Idle)
    /\ UNCHANGED <<requests, tracking, facts>>

\* Mutation: the state is not looked at again inside the transaction.
DecidableAnyState(v) == {r \in requests : r.cmd = v.request /\ r.to = v.to}

\* What Repository.Decide requires of the request.
Decidable(v) == {r \in requests : r.cmd = v.request /\ r.state = "pending" /\ r.to = v.to}

\* Repository.Decide
Decide(c) ==
    LET v == call[c] IN
    /\ v.op = "decide"
    /\ IF Used(v.cmd) \/ Revision(requests) # v.expected \/ Decidable(v) = {}
       THEN UNCHANGED requests
       ELSE \E r \in Decidable(v), s \in {"accepted", "rejected"} :
               requests' = (requests \ {r}) \cup {[r EXCEPT !.state = s, !.decision = v.cmd]}
    /\ Put(c, Idle)
    /\ UNCHANGED <<tracking, facts>>

\* The connection or the server goes away between the reads and the
\* transaction; what is committed stays.
Abandon(c) == InCall(c) /\ Return(c)

-----------------------------------------------------------------------------
(* Facts *)

\* Ownership revisions start at 1 and grow.
NextRevision(f) == Cardinality({x \in facts : x.flight = f}) + 1

\* EuroScope reports another tracking controller, or none.
TrackingChanges(f, owner) ==
    /\ tracking[f] # owner
    /\ NextRevision(f) =< MaxFacts
    /\ tracking' = [tracking EXCEPT ![f] = owner]
    /\ facts' = facts \cup {[flight |-> f, owner |-> owner, rev |-> NextRevision(f)]}
    /\ UNCHANGED <<requests, call>>

\* The requests a fact moves: pending ones that are with somebody else.
Moved(x) == {r \in Pending(x.flight) : r.to # x.owner}

\* TransferPending: the fact has not been applied to the flight, and it is
\* newer than every transfer of the requests it would move; an older one is
\* refused and nothing is written.
FactIsNew(x) ==
    /\ \A r \in requests : r.flight = x.flight => x.rev \notin r.transfers
    /\ \A r \in Moved(x) : \A n \in r.transfers : n < x.rev

\* ObserveOwnership, TransferPending, TransferRecipient
TransferPending(x) ==
    /\ FactIsNew(x) /\ Moved(x) # {}
    /\ requests' = (requests \ Moved(x))
                     \cup {[r EXCEPT !.to = x.owner, !.transfers = r.transfers \cup {x.rev}] : r \in Moved(x)}
    /\ UNCHANGED <<tracking, facts, call>>

\* ExpirePendingTx, inside the AMAN commit in which the flight landed, went
\* around, was removed or desequenced.  A fact applied before is a no-op.
ExpirePending(f, n) ==
    /\ \A r \in requests : r.expiry # <<f, n>>
    /\ Pending(f) # {}
    /\ requests' = (requests \ Pending(f))
                     \cup {[r EXCEPT !.state = "expired", !.expiry = <<f, n>>] : r \in Pending(f)}
    /\ UNCHANGED <<tracking, facts, call>>

\* CorrelateAccepted: a clearance that fits is attached to one accepted
\* request, once.
CorrelateAccepted(f, k, x) ==
    /\ \A r \in requests : r.clearance # x
    /\ \E r \in requests :
          /\ r.flight = f /\ r.kind = k /\ r.state = "accepted" /\ r.clearance = None
          /\ requests' = (requests \ {r}) \cup {[r EXCEPT !.clearance = x]}
    /\ UNCHANGED <<tracking, facts, call>>

-----------------------------------------------------------------------------
Next ==
    \/ \E c \in Clients :
          \/ \E cmd \in Commands, f \in Flights, k \in Kinds : SubmitStart(c, cmd, f, k)
          \/ \E cmd \in Commands : \E r \in requests : DecideStart(c, cmd, r)
          \/ Submit(c) \/ DecideAuthorize(c) \/ Decide(c) \/ Abandon(c)
    \/ \E f \in Flights, owner \in Recipients : TrackingChanges(f, owner)
    \/ \E x \in facts : TransferPending(x)
    \/ \E f \in Flights, n \in 1..MaxCommits : ExpirePending(f, n)
    \/ \E f \in Flights, k \in Kinds, x \in Clearances : CorrelateAccepted(f, k, x)

Spec == Init /\ [][Next]_vars

-----------------------------------------------------------------------------
(* Properties *)

TypeOK ==
    /\ requests \subseteq Request
    /\ tracking \in [Flights -> Recipients]
    /\ facts \subseteq OwnershipFact
    /\ \A c \in Clients : call[c].op \in {"idle", "submit", "authorize", "decide"}

\* A controller is never asked two things of one kind for one flight at once:
\* a new request supersedes the prior one, whatever submissions, decisions,
\* handovers and expiries were committed between its reads and its transaction.
OnePending ==
    \A r, s \in requests :
        r.flight = s.flight /\ r.kind = s.kind /\ r.state = "pending" /\ s.state = "pending" => r = s

\* A command that is sent again, or whose ID another command uses, has at most
\* one effect: no ID belongs to two requests, two decisions or one of each.
CommandOnce ==
    \A r, s \in requests :
        /\ r.cmd = s.cmd => r = s
        /\ r.decision # None => /\ r.decision # s.cmd
                                /\ r.decision = s.decision => r = s

\* "Submissions and decisions each advance it exactly once", and so does every
\* fact, however many requests it touches: two states that a client could
\* confuse never have the same revision.
RevisionAdvances ==
    [][requests' # requests => Revision(requests') = Revision(requests) + 1]_vars

\* A resolved request keeps its resolution, its recipient and its history; only
\* the clearance that followed an agreement is still attached, and a request
\* is never lost.
ResolutionFinal ==
    [][\A r \in requests : \E s \in requests' :
          /\ s.cmd = r.cmd
          /\ r.state # "pending" => \/ s = r
                                    \/ /\ r.state = "accepted" /\ r.clearance = None
                                       /\ s = [r EXCEPT !.clearance = s.clearance]]_vars

=============================================================================
