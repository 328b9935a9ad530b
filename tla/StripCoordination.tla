------------------------- MODULE StripCoordination -------------------------
(***************************************************************************)
(* Ownership of one strip and the coordinations that hand it over          *)
(* (backend/internal/services/strip_coordination.go and its callers).      *)
(*                                                                         *)
(* Each controller socket and each EuroScope plugin is served by its own   *)
(* goroutine.  A command is a program whose steps are the database         *)
(* statements of the code, in the code's order; there is no transaction    *)
(* around them.  The strip row carries a version that every write raises   *)
(* and only SetStripOwner compares; the coordination rows carry none, a    *)
(* strip may have several, and a query for "the" coordination returns any  *)
(* of them.                                                                *)
(*                                                                         *)
(* The lists of next and previous controllers are left out: a position may *)
(* or may not be expected when the code asks.  Their writes do not touch   *)
(* the version.                                                            *)
(***************************************************************************)
EXTENDS Naturals, Sequences, FiniteSets

CONSTANTS
    Positions,   \* controller positions, one socket each
    Plugins,     \* EuroScope plugins
    None,        \* no owner
    MaxCalls,    \* bound of the model: commands running at once
    MaxVersion,  \* bound of the model: versions of the strip row
    MaxRows      \* bound of the model: coordinations ever created

Actors == Positions \cup Plugins
Owners == Positions \cup {None}

ASSUME CoordinationAssumption ==
    /\ MaxCalls \in Nat /\ MaxVersion \in Nat \ {0} /\ MaxRows \in Nat
    /\ None \notin Positions
    /\ Positions \cap Plugins = {}

VARIABLES
    owner,    \* strips.owner
    version,  \* strips.version
    rows,     \* the strip's rows of the coordinations table
    lastId,   \* the table's id sequence
    call,     \* the command each goroutine is in
    spent     \* history: how often a coordination gave the strip to someone

vars == <<owner, version, rows, lastId, call, spent>>

RowIds == 1..MaxRows
Coordination == [id : RowIds, from : Owners, to : Positions, tag : BOOLEAN]
NoRow == [id |-> 0, from |-> None, to |-> None, tag |-> FALSE]

-----------------------------------------------------------------------------
(* Commands and their programs *)

\* Mutation: the coordination is looked up before the strip is read.
AcceptStepsFindFirst == <<"take", "read", "drop", "own">>

\* AcceptCoordination
AcceptSteps == <<"read", "take", "drop", "own">>

Program == [
    transfer      |-> <<"check", "create", "move">>,
    transferFails |-> <<"check", "create", "findMine", "drop">>,
    goAround      |-> <<"check", "move", "create">>,
    offer         |-> <<"check", "findNone", "create">>,
    arrival       |-> <<"read", "move", "decide", "create">>,
    ownedArrival  |-> <<"readAgain", "own", "create">>,
    assume        |-> <<"read", "findFor">>,
    accept        |-> AcceptSteps,
    acceptMoves   |-> <<"read", "take", "drop", "own", "move">>,
    takeOver      |-> <<"drop", "own">>,
    claim         |-> <<"own">>,
    force         |-> <<"read", "findAny", "drop", "own">>,
    reject        |-> <<"findToMe", "drop">>,
    cancel        |-> <<"findMine", "drop">>,
    request       |-> <<"check", "findNone", "create">>,
    acceptTag     |-> <<"read", "findTag", "drop", "own">>,
    assign        |-> <<"read", "own">>,
    free          |-> <<"read", "own">>,
    unclear       |-> <<"read", "own">>,
    rewrite       |-> <<"read", "rewrite">>,
    tracked       |-> <<"findTracked">>,
    touchdown     |-> <<"findTouchdown">>]

\* who acts; giving is the position the command names: a transfer's or a
\* handover's target, the owner to be set.
Idle == [op |-> "idle", at |-> 1, who |-> None, giving |-> None, from |-> None,
         own |-> None, ver |-> 0, row |-> NoRow]
Calls == [op : DOMAIN Program \cup {"idle"}, at : Nat, who : Owners, giving : Owners,
          from : Owners, own : Owners, ver : Nat, row : Coordination \cup {NoRow}]

InCall(a) == call[a].op # "idle"
At(c, step) == c.op # "idle" /\ Program[c.op][c.at] = step

Put(a, c) == call' = [call EXCEPT ![a] = c]
Return(a) == Put(a, Idle)
\* The next statement, with the local variables c; or the return.
Continue(a, c) ==
    Put(a, IF c.at < Len(Program[c.op]) THEN [c EXCEPT !.at = c.at + 1] ELSE Idle)
\* The command goes on as another program with the same local variables.
Become(a, op, c) == Put(a, [c EXCEPT !.op = op, !.at = 1])
\* AcceptCoordination, called for position p: it reads the strip itself.
Accept(a, op, p) == Put(a, [Idle EXCEPT !.op = op, !.who = p, !.giving = p])

Command(op, who, giving, from) ==
    [Idle EXCEPT !.op = op, !.who = who, !.giving = giving, !.from = from]

Init ==
    /\ owner \in Owners
    /\ version = 1
    /\ rows = {} /\ lastId = 0
    /\ call = [a \in Actors |-> Idle]
    /\ spent = [r \in RowIds |-> 0]

-----------------------------------------------------------------------------
(* The commands an idle goroutine may begin.  Nothing shared happens before  *)
(* a command's first statement, so it begins with it.                        *)

\* handleCoordinationTransferRequest: the owner offers the strip to the next
\* controller or to one it names.  An existing coordination is not looked at.
\* The transfer may move the strip (a start request served, TAXI to TAXI_LWR),
\* and a ready transfer that CDM refuses is rolled back.  MissedApproach moves
\* the owner's strip to AIRBORNE and offers it to the approach controller.
Transfers(p) ==
    {Command(op, p, to, p) :
        op \in {"transfer", "transferFails", "goAround"}, to \in Positions}

\* handleCoordinationAssumeRequest, ...ForceAssume..., ...Reject...,
\* ...CancelTransfer..., ...Tag..., ...AcceptTag... and ...FreeRequest.
Requests(p) ==
    {Command(op, p, p, None) : op \in {"assume", "force", "reject", "cancel", "request", "acceptTag"}}
        \cup {Command("free", p, None, None)}

\* AutoTransferAirborneStrip
AirborneTransfers == {Command("offer", None, to, None) : to \in Positions}

\* HandleCoordinationReceived: EuroScope offers an arrival to target; source
\* is the sender's position if known.
CoordinationsReceived ==
    {Command("arrival", target, target, source) : source \in Owners, target \in Positions}

\* HandleTrackingControllerChanged: a controller took the tag in EuroScope.
TrackingChanges == {Command("tracked", p, p, None) : p \in Positions}

\* autoAcceptPendingCoordination: the arrival has landed.
Landings == {Command("touchdown", None, None, None)}

\* autoAssumeForClearedStrip gives a cleared departure to the configured
\* position whoever owns it.
ClearanceAssumes == {Command("assign", p, p, None) : p \in Positions}
\* AutoAssumeForControllerOnline gives an unowned strip to who came online.
OnlineAssumes == {Command("assign", None, p, None) : p \in Positions}

\* clearOwnerForNotCleared: a withdrawn clearance takes the strip from its
\* owner, whoever withdrew it.
Withdrawals == {Command("unclear", None, None, None)}

\* UpdateStrip: SyncStrip saves EuroScope's strip, alone or in a full sync that
\* read all strips first, and a PDC issue saves a corrected route.
Rewrites == {Command("rewrite", None, None, None)}

Commands(a) ==
    Rewrites \cup ClearanceAssumes \cup Withdrawals
        \cup IF a \in Positions
             THEN Transfers(a) \cup Requests(a)
             ELSE AirborneTransfers \cup CoordinationsReceived \cup TrackingChanges
                     \cup Landings \cup OnlineAssumes

\* What the goroutine executes next.
Ready(a) ==
    IF InCall(a) THEN {call[a]}
    ELSE IF Cardinality({b \in Actors : InCall(b)}) < MaxCalls /\ version < MaxVersion
         THEN Commands(a) ELSE {}

-----------------------------------------------------------------------------
(* Statements *)

\* What a command requires of the strip it has read.
Allowed(c) ==
    CASE c.op \in {"free", "acceptTag", "transfer", "transferFails", "goAround"} ->
            owner = c.who
      [] c.op = "unclear" -> owner # None
      [] c.op = "request" -> owner \notin {None, c.who}
      [] c.op = "offer" -> owner \notin {None, c.giving}
      [] c.op = "assign" -> c.who = None => owner = None
      [] OTHER -> TRUE

\* GetByCallsign of a command that will create a coordination: it is from
\* the owner found.
Check(a, c) ==
    /\ At(c, "check")
    /\ IF Allowed(c) THEN Continue(a, [c EXCEPT !.from = owner]) ELSE Return(a)
    /\ UNCHANGED <<owner, version, rows, lastId, spent>>

\* GetByCallsign of a command that will set the owner.
Read(a, c) ==
    /\ At(c, "read")
    /\ IF Allowed(c) THEN Continue(a, [c EXCEPT !.own = owner, !.ver = version]) ELSE Return(a)
    /\ UNCHANGED <<owner, version, rows, lastId, spent>>

\* HandleCoordinationReceived after its move to FINAL: the target owns the
\* strip already and another position sent it, so the owner is cleared first;
\* or the target owns it and EuroScope alone is answered.
Decide(a, c) ==
    /\ At(c, "decide")
    /\ \/ c.own = c.who /\ c.from \notin {None, c.who} /\ Become(a, "ownedArrival", c)
       \/ c.own = c.who /\ Return(a)
       \/ Continue(a, [c EXCEPT !.from = IF c.from = None THEN c.own ELSE c.from])
    /\ UNCHANGED <<owner, version, rows, lastId, spent>>

\* clearOwnerForOwnedEsArrivalCoordination reads again and clears any owner.
ReadAgain(a, c) ==
    /\ At(c, "readAgain")
    /\ IF owner = None
       THEN Put(a, [c EXCEPT !.at = Len(Program[c.op])])
       ELSE Continue(a, [c EXCEPT !.own = owner, !.ver = version])
    /\ UNCHANGED <<owner, version, rows, lastId, spent>>

\* CreateCoordination
Create(a, c) ==
    /\ At(c, "create") /\ lastId < MaxRows
    /\ lastId' = lastId + 1
    /\ rows' = rows \cup {[id |-> lastId + 1, from |-> c.from, to |-> c.giving, tag |-> c.op = "request"]}
    /\ Continue(a, c)
    /\ UNCHANGED <<owner, version, spent>>

\* The strip's bay or sequence is written, or needed no change.
Move(a, c) ==
    /\ At(c, "move")
    /\ version' \in {version, version + 1} /\ version' =< MaxVersion
    /\ Continue(a, c)
    /\ UNCHANGED <<owner, rows, lastId, spent>>

\* GetByStripID, GetByStripCallsign: any row of the strip, or none.
Look(c, step, Found(_), Nothing) ==
    /\ At(c, step)
    /\ \/ \E r \in rows : Found(r)
       \/ rows = {} /\ Nothing
    /\ UNCHANGED <<owner, version, rows, lastId, spent>>

Holding(c, r) == [c EXCEPT !.row = r]

\* AssumeStripCoordination: the offer is to the caller, and accepting it may
\* move a missed approach back to FINAL; or it is stale, the strip unowned and
\* the caller expected; or there is none and no owner.
FindFor(a, c) ==
    Look(c, "findFor",
         LAMBDA r : \/ r.to = c.who /\ Accept(a, "acceptMoves", c.who)
                    \/ r.to # c.who /\ c.own = None /\ Become(a, "takeOver", Holding(c, r))
                    \/ r.to # c.who /\ Return(a),
         IF c.own = None THEN Become(a, "claim", c) ELSE Return(a))

\* AcceptCoordination: whatever coordination there is now; without one the
\* caller's flow goes on.
Take(a, c) ==
    Look(c, "take",
         LAMBDA r : Continue(a, Holding(c, r)),
         IF c.op = "acceptMoves" THEN Put(a, [c EXCEPT !.at = Len(Program[c.op])]) ELSE Return(a))

\* ForceAssumeStrip: clears a coordination if there is one.
FindAny(a, c) ==
    Look(c, "findAny", LAMBDA r : Continue(a, Holding(c, r)), Become(a, "claim", c))

\* AutoTransferAirborneStrip, CreateTagRequest: only without a coordination.
FindNone(a, c) == Look(c, "findNone", LAMBDA r : Return(a), Continue(a, c))

\* RejectCoordination
FindToMe(a, c) ==
    Look(c, "findToMe",
         LAMBDA r : IF r.to = c.who THEN Continue(a, Holding(c, r)) ELSE Return(a), Return(a))

\* CancelCoordinationTransfer
FindMine(a, c) ==
    Look(c, "findMine",
         LAMBDA r : IF r.from = c.who THEN Continue(a, Holding(c, r)) ELSE Return(a), Return(a))

\* AcceptTagRequest: the strip goes to the requester.
FindTag(a, c) ==
    Look(c, "findTag",
         LAMBDA r : IF r.tag THEN Continue(a, [Holding(c, r) EXCEPT !.giving = r.to]) ELSE Return(a),
         Return(a))

\* HandleTrackingControllerChanged: the sender taking the tag changes nothing;
\* anyone else taking it accepts.  An airborne strip then moves.
FindTracked(a, c) ==
    Look(c, "findTracked",
         LAMBDA r : IF r.from = c.who THEN Return(a) ELSE Accept(a, "acceptMoves", c.who),
         Put(a, [c EXCEPT !.op = "acceptMoves", !.at = Len(Program["acceptMoves"])]))

\* autoAcceptPendingCoordination
FindTouchdown(a, c) ==
    Look(c, "findTouchdown",
         LAMBDA r : Accept(a, "accept", r.to), Return(a))

\* DeleteCoordinationByID: deleting a row that is gone is not an error.
Drop(a, c) ==
    /\ At(c, "drop")
    /\ rows' = {r \in rows : r.id # c.row.id}
    /\ Continue(a, c)
    /\ UNCHANGED <<owner, version, lastId, spent>>

\* The owner the command sets.
NewOwner(c) == IF c.op = "ownedArrival" THEN None ELSE c.giving

\* A command that could not set the owner returns its error; the tracking
\* flow logs it and still moves the strip.
OwnFailed(a, c) ==
    IF c.op = "acceptMoves" /\ a \in Plugins THEN Continue(a, c) ELSE Return(a)

Spend(id) == spent' = IF id \in RowIds THEN [spent EXCEPT ![id] = spent[id] + 1] ELSE spent

\* Mutation: the version is not compared.
SetOwnerUnversioned(a, c) ==
    /\ At(c, "own") /\ version < MaxVersion
    /\ owner' = NewOwner(c)
    /\ version' = version + 1
    /\ Spend(c.row.id)
    /\ Continue(a, c)
    /\ UNCHANGED <<rows, lastId>>

\* setOwnerAndReevaluateDuplicateSquawkValidation: SetStripOwner compares and
\* raises the version.
SetOwner(a, c) ==
    /\ At(c, "own")
    /\ \/ /\ c.ver = version /\ version < MaxVersion
          /\ owner' = NewOwner(c)
          /\ version' = version + 1
          /\ Spend(c.row.id)
          /\ Continue(a, c)
       \/ /\ c.ver # version
          /\ OwnFailed(a, c)
          /\ UNCHANGED <<owner, version, spent>>
    /\ UNCHANGED <<rows, lastId>>

\* The owners a whole-row update writes: the one it read, and for EuroScope's
\* strip none when the flight is refiled or no longer cleared.
RewrittenOwners(a, c) == IF a \in Plugins THEN {c.own, None} ELSE {c.own}

\* Mutation: a whole-row update leaves the version alone.
RewriteUnversioned(a, c) ==
    /\ At(c, "rewrite") /\ version < MaxVersion
    /\ owner' \in RewrittenOwners(a, c)
    /\ Continue(a, c)
    /\ UNCHANGED <<version, rows, lastId, spent>>

\* UpdateStrip writes every column of the copy, the owner too; it raises the
\* version and compares nothing.
Rewrite(a, c) ==
    /\ At(c, "rewrite") /\ version < MaxVersion
    /\ owner' \in RewrittenOwners(a, c)
    /\ version' = version + 1
    /\ Continue(a, c)
    /\ UNCHANGED <<rows, lastId, spent>>

\* The writes of single columns that raise the version: flight data, ground
\* state, runway, stand, sequence.
Edit ==
    /\ version < MaxVersion
    /\ version' = version + 1
    /\ UNCHANGED <<owner, rows, lastId, call, spent>>

-----------------------------------------------------------------------------
Statement(a, c) ==
    \/ Check(a, c) \/ Read(a, c) \/ Decide(a, c) \/ ReadAgain(a, c) \/ Create(a, c) \/ Move(a, c)
    \/ FindFor(a, c) \/ Take(a, c) \/ FindAny(a, c) \/ FindNone(a, c) \/ FindToMe(a, c)
    \/ FindMine(a, c) \/ FindTag(a, c) \/ FindTracked(a, c) \/ FindTouchdown(a, c)
    \/ Drop(a, c) \/ SetOwner(a, c) \/ Rewrite(a, c)

Next == Edit \/ (\E a \in Actors : \E c \in Ready(a) : Statement(a, c))

Spec == Init /\ [][Next]_vars

-----------------------------------------------------------------------------
(* Properties *)

TypeOK ==
    /\ owner \in Owners /\ version \in 1..MaxVersion
    /\ rows \subseteq Coordination /\ lastId \in 0..MaxRows
    /\ call \in [Actors -> Calls]
    /\ spent \in [RowIds -> Nat]

\* One offer moves the strip at most once, whatever becomes of the two
\* controllers, the plugin's tracking event and the landing that may all accept
\* it at the same time (AcceptCoordination deletes the row without looking
\* whether it was still there).
OfferSpentOnce == \A r \in RowIds : spent[r] =< 1

\* A handover takes the strip from the owner it has seen: a command that sets
\* the owner replaces the owner it read, however many commands ran in between,
\* EuroScope's whole-row updates among them, which bring back an earlier owner
\* or none and compare nothing (they are no handover, and not bound by this).
HandoverKnowsOwner ==
    [][\A a \in Actors :
          At(call[a], "own") /\ version' # version /\ call'[a] # call[a] => owner = call[a].own]_vars

\* A coordination is accepted for the position it was offered to ("Accepting:
\* either the TO controller assumed, or there is no coordination").
AcceptedByRecipient ==
    [][\A a \in Actors :
          At(call[a], "own") /\ call[a].op \in {"accept", "acceptMoves"} /\ version' # version /\ call'[a] # call[a]
             => owner' = call[a].row.to]_vars

=============================================================================
