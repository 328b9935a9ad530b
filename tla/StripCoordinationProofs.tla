---------------------- MODULE StripCoordinationProofs ----------------------
(***************************************************************************)
(* Proofs about StripCoordination for any number of positions, plugins,    *)
(* concurrent commands, coordinations and versions.                        *)
(***************************************************************************)
EXTENDS StripCoordination, TLAPS

\* Statements after which a command holds the row it found.
Searches == {"take", "findAny", "findToMe", "findMine", "findTag"}
\* Commands that create a coordination.
CreateOps == {"transfer", "transferFails", "goAround", "offer", "arrival", "ownedArrival", "request"}

\* The order of statements the argument rests on: a row that was found is
\* deleted next and the owner is set after that.
Facts(op, n) ==
    /\ Program[op][n] \in Searches => n < Len(Program[op]) /\ Program[op][n + 1] = "drop"
    /\ Program[op][n] = "drop" /\ n < Len(Program[op]) => Program[op][n + 1] = "own"
    /\ Program[op][n] = "own" /\ n < Len(Program[op]) =>
           op = "ownedArrival" \/ (op = "acceptMoves" /\ n = 4)
    /\ Program[op][n] = "create" => op \in CreateOps
    /\ Program[op][n] = "decide" => op = "arrival"

\* The local variables of a command: it stands at a statement of its program,
\* names a position if it will create a coordination, and holds a row only
\* from the search to the end of the acceptance.
Local(c) ==
    /\ c \in Calls
    /\ c.op # "idle" => c.at \in 1..Len(Program[c.op])
    /\ c.op \in CreateOps => c.giving \in Positions
    /\ c.row # NoRow => /\ c.op # "ownedArrival"
                        /\ At(c, "drop") \/ At(c, "own") \/ (c.op = "acceptMoves" /\ c.at = 5)

\* What the local variables know of the database: the version they carry is
\* not newer than the strip's, and if it is current so is the owner; a row
\* they hold that gave the strip away did so at a newer version; a command
\* about to set the owner has deleted its row.
Current(c, own, ver, rs, last, sp) ==
    /\ c.ver =< ver
    /\ c.ver = ver => c.own = own
    /\ c.row # NoRow => c.row.id =< last /\ (c.ver = ver => sp[c.row.id] = 0)
    /\ At(c, "own") => \A r \in rs : r.id # c.row.id

\* Rows are numbered in the order of their creation; a row in the table has
\* not given the strip away, and none gave it away twice.
Table ==
    /\ owner \in Owners /\ version \in 1..MaxVersion
    /\ rows \subseteq Coordination /\ lastId \in 0..MaxRows
    /\ spent \in [RowIds -> Nat]
    /\ \A r \in rows : r.id =< lastId /\ spent[r.id] = 0
    /\ \A n \in RowIds : spent[n] =< 1 /\ (n > lastId => spent[n] = 0)

Known(c) == Local(c) /\ Current(c, owner, version, rows, lastId, spent)

\* The inductive invariant.
IInv ==
    /\ Table
    /\ call \in [Actors -> Calls]
    /\ \A a \in Actors : Local(call[a])
    /\ \A a \in Actors : Current(call[a], owner, version, rows, lastId, spent)

-----------------------------------------------------------------------------
\* The commands.
LEMMA ProgramOps == DOMAIN Program = {"transfer", "transferFails", "goAround", "offer", "arrival",
     "ownedArrival", "assume", "accept", "acceptMoves", "takeOver", "claim", "force", "reject",
     "cancel", "request", "acceptTag", "assign", "free", "unclear", "rewrite", "tracked",
     "touchdown"}
  BY DEF Program

\* Their statements, with the concatenations carried out.
LEMMA ProgramIs ==
  /\ Program["transfer"] = <<"check", "create", "move">>
  /\ Program["transferFails"] = <<"check", "create", "findMine", "drop">>
  /\ Program["goAround"] = <<"check", "move", "create">>
  /\ Program["offer"] = <<"check", "findNone", "create">>
  /\ Program["arrival"] = <<"read", "move", "decide", "create">>
  /\ Program["ownedArrival"] = <<"readAgain", "own", "create">>
  /\ Program["assume"] = <<"read", "findFor">>
  /\ Program["accept"] = <<"read", "take", "drop", "own">>
  /\ Program["acceptMoves"] = <<"read", "take", "drop", "own", "move">>
  /\ Program["takeOver"] = <<"drop", "own">>
  /\ Program["claim"] = <<"own">>
  /\ Program["force"] = <<"read", "findAny", "drop", "own">>
  /\ Program["reject"] = <<"findToMe", "drop">>
  /\ Program["cancel"] = <<"findMine", "drop">>
  /\ Program["request"] = <<"check", "findNone", "create">>
  /\ Program["acceptTag"] = <<"read", "findTag", "drop", "own">>
  /\ Program["assign"] = <<"read", "own">>
  /\ Program["free"] = <<"read", "own">>
  /\ Program["unclear"] = <<"read", "own">>
  /\ Program["rewrite"] = <<"read", "rewrite">>
  /\ Program["tracked"] = <<"findTracked">>
  /\ Program["touchdown"] = <<"findTouchdown">>
  BY DEF Program, AcceptSteps

\* Which statements follow each other.
LEMMA ProgramFacts ==
  ASSUME NEW op \in DOMAIN Program, NEW n \in 1..Len(Program[op])
  PROVE  Facts(op, n) /\ Len(Program[op]) \in Nat \ {0}
  <1> USE DEF Facts, Searches, CreateOps
  <1>1. CASE op = "transfer"
    <2>1. Program["transfer"] = <<"check", "create", "move">>
      BY ProgramIs
    <2> QED  BY <1>1, <2>1
  <1>2. CASE op = "transferFails"
    <2>1. Program["transferFails"] = <<"check", "create", "findMine", "drop">>
      BY ProgramIs
    <2> QED  BY <1>2, <2>1
  <1>3. CASE op = "goAround"
    <2>1. Program["goAround"] = <<"check", "move", "create">>
      BY ProgramIs
    <2> QED  BY <1>3, <2>1
  <1>4. CASE op = "offer"
    <2>1. Program["offer"] = <<"check", "findNone", "create">>
      BY ProgramIs
    <2> QED  BY <1>4, <2>1
  <1>5. CASE op = "arrival"
    <2>1. Program["arrival"] = <<"read", "move", "decide", "create">>
      BY ProgramIs
    <2> QED  BY <1>5, <2>1
  <1>6. CASE op = "ownedArrival"
    <2>1. Program["ownedArrival"] = <<"readAgain", "own", "create">>
      BY ProgramIs
    <2> QED  BY <1>6, <2>1
  <1>7. CASE op = "assume"
    <2>1. Program["assume"] = <<"read", "findFor">>
      BY ProgramIs
    <2> QED  BY <1>7, <2>1
  <1>8. CASE op = "accept"
    <2>1. Program["accept"] = <<"read", "take", "drop", "own">>
      BY ProgramIs
    <2> QED  BY <1>8, <2>1
  <1>9. CASE op = "acceptMoves"
    <2>1. Program["acceptMoves"] = <<"read", "take", "drop", "own", "move">>
      BY ProgramIs
    <2> QED  BY <1>9, <2>1
  <1>10. CASE op = "takeOver"
    <2>1. Program["takeOver"] = <<"drop", "own">>
      BY ProgramIs
    <2> QED  BY <1>10, <2>1
  <1>11. CASE op = "claim"
    <2>1. Program["claim"] = <<"own">>
      BY ProgramIs
    <2> QED  BY <1>11, <2>1
  <1>12. CASE op = "force"
    <2>1. Program["force"] = <<"read", "findAny", "drop", "own">>
      BY ProgramIs
    <2> QED  BY <1>12, <2>1
  <1>13. CASE op = "reject"
    <2>1. Program["reject"] = <<"findToMe", "drop">>
      BY ProgramIs
    <2> QED  BY <1>13, <2>1
  <1>14. CASE op = "cancel"
    <2>1. Program["cancel"] = <<"findMine", "drop">>
      BY ProgramIs
    <2> QED  BY <1>14, <2>1
  <1>15. CASE op = "request"
    <2>1. Program["request"] = <<"check", "findNone", "create">>
      BY ProgramIs
    <2> QED  BY <1>15, <2>1
  <1>16. CASE op = "acceptTag"
    <2>1. Program["acceptTag"] = <<"read", "findTag", "drop", "own">>
      BY ProgramIs
    <2> QED  BY <1>16, <2>1
  <1>17. CASE op = "assign"
    <2>1. Program["assign"] = <<"read", "own">>
      BY ProgramIs
    <2> QED  BY <1>17, <2>1
  <1>18. CASE op = "free"
    <2>1. Program["free"] = <<"read", "own">>
      BY ProgramIs
    <2> QED  BY <1>18, <2>1
  <1>19. CASE op = "unclear"
    <2>1. Program["unclear"] = <<"read", "own">>
      BY ProgramIs
    <2> QED  BY <1>19, <2>1
  <1>20. CASE op = "tracked"
    <2>1. Program["tracked"] = <<"findTracked">>
      BY ProgramIs
    <2> QED  BY <1>20, <2>1
  <1>21. CASE op = "touchdown"
    <2>1. Program["touchdown"] = <<"findTouchdown">>
      BY ProgramIs
    <2> QED  BY <1>21, <2>1
  <1>22. CASE op = "rewrite"
    <2>1. Program["rewrite"] = <<"read", "rewrite">>
      BY ProgramIs
    <2> QED  BY <1>22, <2>1
  <1> QED  BY <1>1, <1>2, <1>3, <1>4, <1>5, <1>6, <1>7, <1>8, <1>9, <1>10, <1>11, <1>12, <1>13, <1>14, <1>15, <1>16, <1>17, <1>18, <1>19, <1>20, <1>21, <1>22, ProgramOps

-----------------------------------------------------------------------------
(* Local variables *)

\* What a statement changes in the table so that the other commands, who do
\* not notice, keep knowing what they knew.
Gentle ==
    /\ version' >= version
    /\ version' = version => owner' = owner /\ spent' = spent
    /\ lastId' >= lastId
    /\ \A r \in rows' : r \in rows \/ r.id > lastId

\* The values after a step.
Known2(c) == Local(c) /\ Current(c, owner', version', rows', lastId', spent')

\* An idle goroutine knows nothing and is right.
LEMMA IdleKnown ==
    ASSUME CoordinationAssumption, Table
    PROVE  Known(Idle)
  <1>1. Idle \in Calls
    BY DEF Idle, Calls, NoRow, Owners
  <1> QED  BY <1>1 DEF Known, Local, Current, Idle, At, Table, CreateOps

\* A command that begins.
LEMMA CommandKnown ==
    ASSUME CoordinationAssumption, Table, NEW a \in Actors, NEW c \in Commands(a)
    PROVE  Known(c) /\ c.op # "idle"
  <1>1. PICK op \in DOMAIN Program, who \in Owners, giving \in Owners, from \in Owners :
          /\ c = Command(op, who, giving, from)
          /\ op \in CreateOps => giving \in Positions
          /\ Program[op][1] \notin {"own"} /\ op # "idle"
    <2> USE ProgramOps, ProgramIs DEF CreateOps, Owners
    <2>1. CASE c \in Transfers(a) /\ a \in Positions
      BY <2>1 DEF Transfers
    <2>2. CASE c \in Requests(a) /\ a \in Positions
      <3>1. CASE c = Command("free", a, None, None)
        BY <2>2, <3>1
      <3>2. PICK op \in {"assume", "force", "reject", "cancel", "request", "acceptTag"} :
              c = Command(op, a, a, None) \/ c = Command("free", a, None, None)
        BY <2>2 DEF Requests
      <3> QED  BY <2>2, <3>1, <3>2
    <2>3. CASE c \in AirborneTransfers \cup CoordinationsReceived
      BY <2>3 DEF AirborneTransfers, CoordinationsReceived
    <2>4. CASE c \in TrackingChanges \cup Landings
      BY <2>4 DEF TrackingChanges, Landings
    <2>5. CASE c \in ClearanceAssumes \cup OnlineAssumes \cup Withdrawals \cup Rewrites
      BY <2>5 DEF ClearanceAssumes, OnlineAssumes, Withdrawals, Rewrites
    <2> QED  BY <2>1, <2>2, <2>3, <2>4, <2>5 DEF Commands
  <1>2. /\ c.op = op /\ c.at = 1 /\ c.who = who /\ c.giving = giving /\ c.from = from
        /\ c.own = None /\ c.ver = 0 /\ c.row = NoRow
        /\ c = [op |-> op, at |-> 1, who |-> who, giving |-> giving, from |-> from,
                own |-> None, ver |-> 0, row |-> NoRow]
    BY <1>1 DEF Command, Idle
  <1>3. c \in Calls
    BY <1>2 DEF Calls, Owners
  <1>4. 1 \in 1..Len(Program[op])
    BY ProgramIs, ProgramOps
  <1> QED  BY <1>1, <1>2, <1>3, <1>4 DEF Known, Local, Current, At, Table

\* What a goroutine executes next.
LEMMA ReadyKnown ==
    ASSUME CoordinationAssumption, IInv, NEW a \in Actors, NEW c \in Ready(a)
    PROVE  Known(c) /\ c.op # "idle"
  <1>1. CASE InCall(a)
    BY <1>1 DEF Ready, InCall, IInv, Known
  <1>2. CASE ~InCall(a)
    <2>1. c \in Commands(a)
      BY <1>2 DEF Ready
    <2> QED  BY <2>1, CommandKnown DEF IInv
  <1> QED  BY <1>1, <1>2

\* A gentle step does not disturb what a command knows.
LEMMA GentleKeeps ==
    ASSUME Table, Gentle, version' \in Nat, lastId' \in Nat, NEW c, Known(c)
    PROVE  Known2(c)
  <1>1. c.ver \in Nat /\ c.row.id \in Nat /\ (c.row # NoRow => c.row.id \in RowIds) /\ NoRow.id = 0
    BY DEF Known, Local, Calls, Coordination, NoRow, RowIds
  <1>2. c.row # NoRow => c.row.id =< lastId
    BY DEF Known, Current
  <1>3. c.row.id =< lastId /\ lastId \in Nat /\ version \in Nat
    BY <1>1, <1>2 DEF Table
  <1>4. At(c, "own") => \A r \in rows' : r.id # c.row.id
    <2>1. ASSUME NEW r \in rows', At(c, "own") PROVE r.id # c.row.id
      <3>1. CASE r \in rows
        BY <2>1, <3>1 DEF Known, Current
      <3>2. CASE r.id > lastId
        BY <1>1, <1>3, <3>2
      <3> QED  BY <2>1, <3>1, <3>2 DEF Gentle
    <2> QED  BY <2>1
  <1> QED  BY <1>1, <1>2, <1>3, <1>4 DEF Gentle, Known, Known2, Current

\* A step of one goroutine: the table stays right, the step is gentle and the
\* goroutine knows what it then carries.
LEMMA StepKeeps ==
    ASSUME CoordinationAssumption, IInv, NEW a \in Actors, NEW d, Table', Gentle,
           call' = [call EXCEPT ![a] = d], Known2(d)
    PROVE  IInv'
  <1>1. version' \in Nat /\ lastId' \in Nat
    BY DEF Table
  <1>2. d \in Calls /\ call' \in [Actors -> Calls]
    BY DEF Known2, Local, IInv
  <1>3. ASSUME NEW b \in Actors PROVE Known2(call'[b])
    <2>1. CASE b = a
      BY <2>1 DEF IInv
    <2>2. CASE b # a
      <3>1. call'[b] = call[b] /\ Known(call[b])
        BY <2>2 DEF IInv, Known
      <3>2. Known2(call[b])
        BY <1>1, <3>1, GentleKeeps DEF IInv
      <3> QED  BY <3>1, <3>2
    <2> QED  BY <2>1, <2>2
  <1> QED  BY <1>2, <1>3 DEF IInv, Known2

\* The next statement of a command.
After(c) == IF c.at < Len(Program[c.op]) THEN [c EXCEPT !.at = c.at + 1] ELSE Idle

\* Going on without a row.
LEMMA AfterKnown ==
    ASSUME CoordinationAssumption, Table, NEW c, Known(c), c.op # "idle", c.row = NoRow
    PROVE  Known(After(c))
  <1>1. CASE c.at < Len(Program[c.op])
    <2>1. /\ After(c) = [c EXCEPT !.at = c.at + 1]
          /\ c \in Calls /\ c.at \in Nat
      BY <1>1 DEF After, Known, Local, Calls
    <2>2. /\ After(c) \in Calls /\ After(c).op = c.op /\ After(c).at = c.at + 1 /\ After(c).row = NoRow
          /\ After(c).giving = c.giving /\ After(c).ver = c.ver /\ After(c).own = c.own
      BY <2>1 DEF Calls
    <2>3. After(c).at \in 1..Len(Program[c.op])
      BY <1>1, <2>1, <2>2, ProgramFacts DEF Known, Local, Calls
    <2>4. \A r \in rows : r.id # NoRow.id
      BY DEF Table, Coordination, NoRow, RowIds
    <2> QED  BY <2>2, <2>3, <2>4 DEF Known, Local, Current
  <1>2. CASE ~(c.at < Len(Program[c.op]))
    BY <1>2, IdleKnown DEF After
  <1> QED  BY <1>1, <1>2

\* A command without a row knows the rest.
LEMMA NoRowKnown ==
    ASSUME Table, NEW d \in Calls, d.op # "idle", d.at \in 1..Len(Program[d.op]), d.row = NoRow,
           d.op \in CreateOps => d.giving \in Positions,
           d.ver =< version, d.ver = version => d.own = owner
    PROVE  Known(d)
  <1>1. \A r \in rows : r.id # NoRow.id
    BY DEF Table, Coordination, NoRow, RowIds
  <1> QED  BY <1>1 DEF Known, Local, Current

\* A command about to delete a row it found in the table.
LEMMA RowKnown ==
    ASSUME Table, NEW d \in Calls, d.op # "idle", d.at \in 1..Len(Program[d.op]), d.row \in rows,
           At(d, "drop"), d.op \notin CreateOps \/ d.giving \in Positions, d.op # "ownedArrival",
           d.ver =< version, d.ver = version => d.own = owner
    PROVE  Known(d)
  <1>1. ~At(d, "own")
    BY DEF At
  <1> QED  BY <1>1 DEF Known, Local, Current, Table

\* A command holds no row while it reads, searches or creates.
LEMMA NoRowAt ==
    ASSUME NEW c, Known(c), c.op # "idle", NEW s, At(c, s), s \notin {"drop", "own", "move"}
    PROVE  c.row = NoRow
  BY ProgramIs DEF Known, Local, At

\* A statement that only reads.
LEMMA ReadKeeps ==
    ASSUME CoordinationAssumption, IInv, NEW a \in Actors, NEW d, Known(d),
           UNCHANGED <<owner, version, rows, lastId, spent>>,
           call' = [call EXCEPT ![a] = d]
    PROVE  IInv'
  <1>1. Table' /\ Gentle
    BY DEF IInv, Table, Gentle
  <1>2. Known2(d)
    BY DEF Known, Known2
  <1> QED  BY <1>1, <1>2, StepKeeps

\* The fields of a command that knows something.
LEMMA KnownFields ==
    ASSUME NEW c, Known(c), c.op # "idle"
    PROVE  /\ c \in Calls /\ c.op \in DOMAIN Program
           /\ c.at \in 1..Len(Program[c.op]) /\ Len(Program[c.op]) \in Nat \ {0}
           /\ c.who \in Owners /\ c.giving \in Owners /\ c.from \in Owners /\ c.own \in Owners
           /\ c.ver \in Nat /\ c.row \in Coordination \cup {NoRow}
           /\ c.op \in CreateOps => c.giving \in Positions
  <1>1. c \in Calls /\ c.op \in DOMAIN Program /\ c.at \in 1..Len(Program[c.op])
    BY DEF Known, Local, Calls
  <1>2. Len(Program[c.op]) \in Nat \ {0}
    BY <1>1, ProgramFacts
  <1> QED  BY <1>1, <1>2 DEF Known, Local, Calls

-----------------------------------------------------------------------------
(* The statements *)

\* GetByCallsign, in its two uses, and what follows it in an arrival.
LEMMA ReadInv ==
    ASSUME CoordinationAssumption, IInv, NEW a \in Actors, NEW c, Known(c), c.op # "idle",
           Check(a, c) \/ Read(a, c) \/ Decide(a, c) \/ ReadAgain(a, c)
    PROVE  IInv'
  <1>1. UNCHANGED <<owner, version, rows, lastId, spent>>
    BY DEF Check, Read, Decide, ReadAgain
  <1>2. c.row = NoRow
    BY NoRowAt DEF Check, Read, Decide, ReadAgain
  <1>3. /\ c \in Calls /\ c.op \in DOMAIN Program
        /\ c.at \in 1..Len(Program[c.op]) /\ Len(Program[c.op]) \in Nat \ {0}
        /\ c.op \in CreateOps => c.giving \in Positions
        /\ c.ver \in Nat /\ c.from \in Owners /\ c.own \in Owners
    BY KnownFields
  <1>4. Table /\ owner \in Owners /\ version \in Nat
    BY DEF IInv, Table
  <1>5. c.ver =< version /\ (c.ver = version => c.own = owner)
    BY DEF Known, Current
  <1>6. ASSUME NEW d, d \in Calls, d.op = c.op, d.at = c.at, d.row = NoRow, d.giving = c.giving,
               d.ver =< version, d.ver = version => d.own = owner, Continue(a, d)
        PROVE  IInv'
    <2>1. Known(d)
      BY <1>3, <1>4, <1>6, NoRowKnown
    <2>2. Known(After(d))
      BY <1>4, <1>6, <2>1, AfterKnown
    <2>3. call' = [call EXCEPT ![a] = After(d)]
      BY <1>6 DEF Continue, Put, After
    <2> QED  BY <1>1, <2>2, <2>3, ReadKeeps
  <1>7. ASSUME Return(a) PROVE IInv'
    BY <1>1, <1>4, <1>7, IdleKnown, ReadKeeps DEF Return, Put
  <1>8. CASE Check(a, c)
    <2>1. CASE Allowed(c)
      <3> DEFINE d == [c EXCEPT !.from = owner]
      <3>1. d \in Calls /\ d.op = c.op /\ d.at = c.at /\ d.row = NoRow /\ d.giving = c.giving
              /\ d.ver = c.ver /\ d.own = c.own
        BY <1>2, <1>3, <1>4 DEF Calls
      <3>2. Continue(a, d)
        BY <1>8, <2>1 DEF Check
      <3> HIDE DEF d
      <3> QED  BY <1>5, <1>6, <3>1, <3>2
    <2> QED  BY <1>7, <1>8, <2>1 DEF Check
  <1>9. CASE Read(a, c)
    <2>1. CASE Allowed(c)
      <3> DEFINE d == [c EXCEPT !.own = owner, !.ver = version]
      <3>1. d \in Calls /\ d.op = c.op /\ d.at = c.at /\ d.row = NoRow /\ d.giving = c.giving
              /\ d.ver = version /\ d.own = owner
        BY <1>2, <1>3, <1>4 DEF Calls
      <3>2. Continue(a, d)
        BY <1>9, <2>1 DEF Read
      <3> HIDE DEF d
      <3> QED  BY <1>4, <1>6, <3>1, <3>2
    <2> QED  BY <1>7, <1>9, <2>1 DEF Read
  <1>10. CASE Decide(a, c)
    <2>1. CASE Become(a, "ownedArrival", c)
      <3> DEFINE d == [c EXCEPT !.op = "ownedArrival", !.at = 1]
      <3>1. c.op = "arrival"
        BY <1>3, <1>10, ProgramFacts DEF Decide, At, Facts
      <3>2. d \in Calls /\ d.op = "ownedArrival" /\ d.at = 1 /\ d.row = NoRow /\ d.giving = c.giving
              /\ d.ver = c.ver /\ d.own = c.own
        BY <1>2, <1>3, ProgramOps DEF Calls
      <3>3. 1 \in 1..Len(Program["ownedArrival"]) /\ c.giving \in Positions
        BY <1>3, <3>1, ProgramIs DEF CreateOps
      <3>4. call' = [call EXCEPT ![a] = d]
        BY <2>1 DEF Become, Put
      <3> HIDE DEF d
      <3>5. Known(d)
        BY <1>4, <1>5, <3>2, <3>3, NoRowKnown
      <3> QED  BY <1>1, <3>4, <3>5, ReadKeeps
    <2>2. CASE Continue(a, [c EXCEPT !.from = IF c.from = None THEN c.own ELSE c.from])
      <3> DEFINE d == [c EXCEPT !.from = IF c.from = None THEN c.own ELSE c.from]
      <3>1. d \in Calls /\ d.op = c.op /\ d.at = c.at /\ d.row = NoRow /\ d.giving = c.giving
              /\ d.ver = c.ver /\ d.own = c.own
        BY <1>2, <1>3 DEF Calls
      <3>2. Continue(a, d)
        BY <2>2
      <3> HIDE DEF d
      <3> QED  BY <1>5, <1>6, <3>1, <3>2
    <2> QED  BY <1>7, <1>10, <2>1, <2>2 DEF Decide
  <1>11. CASE ReadAgain(a, c)
    <2>1. CASE owner = None
      <3> DEFINE d == [c EXCEPT !.at = Len(Program[c.op])]
      <3>1. d \in Calls /\ d.op = c.op /\ d.at = Len(Program[c.op]) /\ d.row = NoRow /\ d.giving = c.giving
              /\ d.ver = c.ver /\ d.own = c.own
        BY <1>2, <1>3 DEF Calls
      <3>2. call' = [call EXCEPT ![a] = d]
        BY <1>11, <2>1 DEF ReadAgain, Put
      <3> HIDE DEF d
      <3>3. Known(d)
        BY <1>3, <1>4, <1>5, <3>1, NoRowKnown
      <3> QED  BY <1>1, <3>2, <3>3, ReadKeeps
    <2>2. CASE owner # None
      <3> DEFINE d == [c EXCEPT !.own = owner, !.ver = version]
      <3>1. d \in Calls /\ d.op = c.op /\ d.at = c.at /\ d.row = NoRow /\ d.giving = c.giving
              /\ d.ver = version /\ d.own = owner
        BY <1>2, <1>3, <1>4 DEF Calls
      <3>2. Continue(a, d)
        BY <1>11, <2>2 DEF ReadAgain
      <3> HIDE DEF d
      <3> QED  BY <1>4, <1>6, <3>1, <3>2
    <2> QED  BY <2>1, <2>2
  <1> QED  BY <1>8, <1>9, <1>10, <1>11

\* The searches for a coordination.
LEMMA FindInv ==
    ASSUME CoordinationAssumption, IInv, NEW a \in Actors, NEW c, Known(c), c.op # "idle",
           FindFor(a, c) \/ Take(a, c) \/ FindAny(a, c) \/ FindNone(a, c) \/ FindToMe(a, c)
             \/ FindMine(a, c) \/ FindTag(a, c) \/ FindTracked(a, c) \/ FindTouchdown(a, c)
    PROVE  IInv'
  <1>1. UNCHANGED <<owner, version, rows, lastId, spent>>
    BY DEF FindFor, Take, FindAny, FindNone, FindToMe, FindMine, FindTag, FindTracked, FindTouchdown, Look
  <1>2. c.row = NoRow
    BY NoRowAt DEF FindFor, Take, FindAny, FindNone, FindToMe, FindMine, FindTag, FindTracked, FindTouchdown, Look
  <1>3. /\ c \in Calls /\ c.op \in DOMAIN Program
        /\ c.at \in 1..Len(Program[c.op]) /\ Len(Program[c.op]) \in Nat \ {0}
        /\ c.op \in CreateOps => c.giving \in Positions
        /\ c.ver \in Nat /\ c.who \in Owners
    BY KnownFields
  <1>4. Table /\ version \in Nat /\ rows \subseteq Coordination /\ \A r \in rows : r.to \in Positions
    BY DEF IInv, Table, Coordination
  <1>5. c.ver =< version /\ (c.ver = version => c.own = owner)
    BY DEF Known, Current
  <1>6. ASSUME Return(a) PROVE IInv'
    BY <1>1, <1>4, <1>6, IdleKnown, ReadKeeps DEF Return, Put
  <1>7. ASSUME NEW op \in {"accept", "acceptMoves"}, NEW p \in Owners, Accept(a, op, p) PROVE IInv'
    <2> DEFINE d == [Idle EXCEPT !.op = op, !.who = p, !.giving = p]
    <2>1. Idle \in Calls /\ Idle.at = 1 /\ Idle.row = NoRow /\ Idle.ver = 0
      BY DEF Idle, Calls, Owners
    <2>2. op \in DOMAIN Program /\ op # "idle" /\ op \notin CreateOps
      BY <1>7, ProgramOps DEF CreateOps
    <2>3. 1 \in 1..Len(Program[op])
      BY <1>7, ProgramIs
    <2>4. d.op = op /\ d.at = 1 /\ d.row = NoRow /\ d.ver = 0
      BY <2>1 DEF Calls
    <2>5. d \in Calls
      BY <1>7, <2>1, <2>2 DEF Calls
    <2>6. call' = [call EXCEPT ![a] = d]
      BY <1>7 DEF Accept, Put
    <2>7. 0 =< version /\ 0 # version
      BY <1>4 DEF Table
    <2> HIDE DEF d
    <2>8. Known(d)
      BY <1>4, <2>2, <2>3, <2>4, <2>5, <2>7, NoRowKnown
    <2> QED  BY <1>1, <2>6, <2>8, ReadKeeps
  <1>8. ASSUME NEW d \in Calls, d.op = c.op, d.at = c.at, d.row \in rows, d.ver = c.ver, d.own = c.own,
               d.giving = c.giving \/ d.giving \in Positions,
               NEW s \in Searches, At(c, s), Continue(a, d)
        PROVE  IInv'
    <2>1. c.at < Len(Program[c.op]) /\ Program[c.op][c.at + 1] = "drop"
      BY <1>3, <1>8, ProgramFacts DEF Facts, At
    <2>2. call' = [call EXCEPT ![a] = [d EXCEPT !.at = d.at + 1]]
      BY <1>8, <2>1 DEF Continue, Put
    <2> DEFINE e == [d EXCEPT !.at = d.at + 1]
    <2>3. e \in Calls /\ e.op = c.op /\ e.at = c.at + 1 /\ e.row = d.row /\ e.ver = c.ver /\ e.own = c.own
            /\ e.giving = d.giving
      BY <1>3, <1>8 DEF Calls
    <2>4. e.at \in 1..Len(Program[e.op]) /\ e.row \in rows
      BY <1>3, <1>8, <2>1, <2>3
    <2> HIDE DEF e
    <2>5. At(e, "drop") /\ e.op # "ownedArrival" /\ e.op # "idle"
      <3>1. c.op # "idle" /\ e.op = c.op /\ e.at = c.at + 1 /\ Program[c.op][c.at + 1] = "drop"
        BY <1>8, <2>1, <2>3 DEF At
      <3>2. Program["ownedArrival"] = <<"readAgain", "own", "create">>
        BY ProgramIs
      <3>3. c.op # "ownedArrival"
        <4> SUFFICES ASSUME c.op = "ownedArrival" PROVE FALSE
          OBVIOUS
        <4>1. c.at \in {1, 2}
          BY <1>3, <2>1, <3>2
        <4> QED  BY <3>1, <3>2, <4>1
      <3> QED  BY <3>1, <3>3 DEF At
    <2>6. e.op \notin CreateOps \/ e.giving \in Positions
      BY <1>3, <1>8, <2>3
    <2>7. Known(e)
      BY <1>4, <1>5, <2>3, <2>4, <2>5, <2>6, RowKnown
    <2> QED  BY <1>1, <2>2, <2>7, ReadKeeps DEF e
  <1>9. ASSUME NEW r \in rows
        PROVE  /\ Holding(c, r) \in Calls /\ Holding(c, r).op = c.op /\ Holding(c, r).at = c.at
               /\ Holding(c, r).row = r /\ Holding(c, r).ver = c.ver /\ Holding(c, r).own = c.own
               /\ Holding(c, r).giving = c.giving
    BY <1>3, <1>4 DEF Holding, Calls
  <1>10. ASSUME NEW r \in rows, NEW s \in Searches, At(c, s), Continue(a, Holding(c, r)) PROVE IInv'
    BY <1>8, <1>9, <1>10
  <1>11. ASSUME NEW op \in DOMAIN Program \ CreateOps, NEW n \in 1..Len(Program[op]),
                call' = [call EXCEPT ![a] = [c EXCEPT !.op = op, !.at = n]]
         PROVE  IInv'
    <2> DEFINE d == [c EXCEPT !.op = op, !.at = n]
    <2>0. n \in Nat /\ op # "idle"
      BY ProgramOps
    <2>1. d \in Calls /\ d.op = op /\ d.at = n /\ d.row = NoRow /\ d.ver = c.ver /\ d.own = c.own
      BY <1>2, <1>3, <2>0 DEF Calls
    <2> HIDE DEF d
    <2>2. Known(d)
      BY <1>4, <1>5, <2>0, <2>1, NoRowKnown
    <2> QED  BY <1>1, <1>11, <2>2, ReadKeeps DEF d
  <1>12. /\ 1 \in 1..Len(Program["claim"]) /\ 1 \in 1..Len(Program["takeOver"])
         /\ 5 \in 1..Len(Program["acceptMoves"]) /\ Len(Program["acceptMoves"]) = 5
         /\ "claim" \in DOMAIN Program \ CreateOps /\ "acceptMoves" \in DOMAIN Program \ CreateOps
         /\ "takeOver" \in DOMAIN Program \ CreateOps /\ Program["takeOver"][1] = "drop"
    BY ProgramIs, ProgramOps DEF CreateOps
  <1>13. CASE FindFor(a, c)
    <2>1. ASSUME NEW r \in rows, Become(a, "takeOver", Holding(c, r)) PROVE IInv'
      <3> DEFINE d == [Holding(c, r) EXCEPT !.op = "takeOver", !.at = 1]
      <3>1. d \in Calls /\ d.op = "takeOver" /\ d.at = 1 /\ d.row = r /\ d.ver = c.ver /\ d.own = c.own
        <4> DEFINE e == Holding(c, r)
        <4>1. e \in Calls /\ e.row = r /\ e.ver = c.ver /\ e.own = c.own
          BY <1>3, <1>9 DEF Calls, Holding
        <4> HIDE DEF e
        <4>2. [e EXCEPT !.op = "takeOver", !.at = 1] \in Calls
          BY <1>12, <4>1 DEF Calls
        <4>3. /\ [e EXCEPT !.op = "takeOver", !.at = 1].op = "takeOver"
              /\ [e EXCEPT !.op = "takeOver", !.at = 1].at = 1
              /\ [e EXCEPT !.op = "takeOver", !.at = 1].row = r
              /\ [e EXCEPT !.op = "takeOver", !.at = 1].ver = c.ver
              /\ [e EXCEPT !.op = "takeOver", !.at = 1].own = c.own
          BY <4>1 DEF Calls
        <4> QED  BY <4>2, <4>3 DEF e
      <3>2. call' = [call EXCEPT ![a] = d]
        BY <2>1 DEF Become, Put
      <3> HIDE DEF d
      <3>3. Known(d)
        BY <1>4, <1>5, <1>12, <3>1, RowKnown DEF At
      <3> QED  BY <1>1, <3>2, <3>3, ReadKeeps
    <2>2. ASSUME Become(a, "claim", c) PROVE IInv'
      BY <1>11, <1>12, <2>2 DEF Become, Put
    <2>3. \/ \E r \in rows : Accept(a, "acceptMoves", c.who) \/ Become(a, "takeOver", Holding(c, r)) \/ Return(a)
          \/ Become(a, "claim", c) \/ Return(a)
      BY <1>13 DEF FindFor, Look
    <2> QED  BY <1>3, <1>6, <1>7, <2>1, <2>2, <2>3
  <1>14. CASE Take(a, c)
    <2>1. /\ At(c, "take")
          /\ \/ \E r \in rows : Continue(a, Holding(c, r))
             \/ c.op = "acceptMoves" /\ Put(a, [c EXCEPT !.at = Len(Program[c.op])])
             \/ Return(a)
      BY <1>14 DEF Take, Look
    <2>2. ASSUME c.op = "acceptMoves", Put(a, [c EXCEPT !.at = Len(Program[c.op])]) PROVE IInv'
      <3>1. [c EXCEPT !.at = Len(Program[c.op])] = [c EXCEPT !.op = "acceptMoves", !.at = 5]
        BY <1>3, <1>12, <2>2 DEF Calls
      <3> QED  BY <1>11, <1>12, <2>2, <3>1 DEF Put
    <2>3. "take" \in Searches
      BY DEF Searches
    <2> QED  BY <1>6, <1>10, <2>1, <2>2, <2>3
  <1>15. CASE FindAny(a, c)
    <2>1. /\ At(c, "findAny") /\ "findAny" \in Searches
          /\ (\E r \in rows : Continue(a, Holding(c, r))) \/ Become(a, "claim", c)
      BY <1>15 DEF FindAny, Look, Searches
    <2>2. ASSUME Become(a, "claim", c) PROVE IInv'
      BY <1>11, <1>12, <2>2 DEF Become, Put
    <2> QED  BY <1>10, <2>1, <2>2
  <1>16. CASE FindNone(a, c)
    <2>1. Return(a) \/ Continue(a, c)
      BY <1>16 DEF FindNone, Look
    <2>2. ASSUME Continue(a, c) PROVE IInv'
      <3>1. Known(After(c))
        BY <1>2, <1>4, AfterKnown
      <3>2. call' = [call EXCEPT ![a] = After(c)]
        BY <2>2 DEF Continue, Put, After
      <3> QED  BY <1>1, <3>1, <3>2, ReadKeeps
    <2> QED  BY <1>6, <2>1, <2>2
  <1>17. CASE FindToMe(a, c)
    <2>1. /\ At(c, "findToMe") /\ "findToMe" \in Searches
          /\ (\E r \in rows : Continue(a, Holding(c, r)) \/ Return(a)) \/ Return(a)
      BY <1>17 DEF FindToMe, Look, Searches
    <2> QED  BY <1>6, <1>10, <2>1
  <1>18. CASE FindMine(a, c)
    <2>1. /\ At(c, "findMine") /\ "findMine" \in Searches
          /\ (\E r \in rows : Continue(a, Holding(c, r)) \/ Return(a)) \/ Return(a)
      BY <1>18 DEF FindMine, Look, Searches
    <2> QED  BY <1>6, <1>10, <2>1
  <1>19. CASE FindTag(a, c)
    <2>1. /\ At(c, "findTag") /\ "findTag" \in Searches
          /\ \/ \E r \in rows : Continue(a, [Holding(c, r) EXCEPT !.giving = r.to]) \/ Return(a)
             \/ Return(a)
      BY <1>19 DEF FindTag, Look, Searches
    <2>2. ASSUME NEW r \in rows, Continue(a, [Holding(c, r) EXCEPT !.giving = r.to]) PROVE IInv'
      <3> DEFINE d == [Holding(c, r) EXCEPT !.giving = r.to]
      <3>1. d \in Calls /\ d.op = c.op /\ d.at = c.at /\ d.row = r /\ d.ver = c.ver /\ d.own = c.own
              /\ d.giving \in Positions
        BY <1>4, <1>9 DEF Calls, Owners
      <3>2. Continue(a, d)
        BY <2>2
      <3> HIDE DEF d
      <3> QED  BY <1>8, <2>1, <3>1, <3>2
    <2> QED  BY <1>6, <2>1, <2>2
  <1>20. CASE FindTracked(a, c)
    <2>1. \/ Return(a) \/ Accept(a, "acceptMoves", c.who)
          \/ call' = [call EXCEPT ![a] = [c EXCEPT !.op = "acceptMoves", !.at = Len(Program["acceptMoves"])]]
      BY <1>20 DEF FindTracked, Look, Put
    <2> QED  BY <1>3, <1>6, <1>7, <1>11, <1>12, <2>1
  <1>21. CASE FindTouchdown(a, c)
    <2>1. (\E r \in rows : Accept(a, "accept", r.to)) \/ Return(a)
      BY <1>21 DEF FindTouchdown, Look
    <2> QED  BY <1>4, <1>6, <1>7, <2>1 DEF Owners
  <1> QED  BY <1>13, <1>14, <1>15, <1>16, <1>17, <1>18, <1>19, <1>20, <1>21

\* CreateCoordination and writes of the strip that leave its owner alone.
LEMMA WriteInv ==
    ASSUME CoordinationAssumption, IInv, NEW a \in Actors, NEW c, Known(c), c.op # "idle",
           Create(a, c) \/ Move(a, c)
    PROVE  IInv'
  <1>1. call' = [call EXCEPT ![a] = After(c)]
    BY DEF Create, Move, Continue, Put, After
  <1>2. Table /\ version \in Nat /\ lastId \in Nat
    BY DEF IInv, Table
  <1>3. Known(After(c))
    <2>1. CASE c.row = NoRow
      BY <1>2, <2>1, AfterKnown
    <2>2. CASE c.row # NoRow
      <3>1. c.op = "acceptMoves" /\ c.at = 5
        BY <2>2 DEF Known, Local, Create, Move, At
      <3>2. After(c) = Idle
        BY <3>1, ProgramIs DEF After
      <3> QED  BY <1>2, <3>2, IdleKnown
    <2> QED  BY <2>1, <2>2
  <1>4. Gentle /\ Table'
    <2>1. CASE Move(a, c)
      <3>1. /\ version' \in 1..MaxVersion /\ version' >= version
            /\ UNCHANGED <<owner, rows, lastId, spent>>
        BY <1>2, <2>1 DEF Move, IInv, Table, CoordinationAssumption
      <3> QED  BY <3>1 DEF Gentle, IInv, Table
    <2>2. CASE Create(a, c)
      <3> DEFINE n == [id |-> lastId + 1, from |-> c.from, to |-> c.giving, tag |-> c.op = "request"]
      <3>1. c.giving \in Positions /\ c.from \in Owners
        <4>1. c.op \in CreateOps
          BY <2>2, KnownFields, ProgramFacts DEF Create, At, Facts
        <4> QED  BY <4>1, KnownFields
      <3>2. /\ lastId' = lastId + 1 /\ lastId + 1 \in RowIds /\ lastId' \in 0..MaxRows
            /\ rows' = rows \cup {n} /\ UNCHANGED <<owner, version, spent>>
        BY <1>2, <2>2 DEF Create, RowIds, IInv, Table, CoordinationAssumption
      <3>3. (c.op = "request") \in BOOLEAN
        OBVIOUS
      <3>4. n \in Coordination /\ n.id = lastId + 1
        BY <3>1, <3>2, <3>3 DEF Coordination
      <3> HIDE DEF n
      <3>5. Gentle
        BY <1>2, <3>2, <3>4 DEF Gentle
      <3>6. \A r \in rows' : r.id =< lastId' /\ spent'[r.id] = 0
        <4>1. \A r \in rows : r.id \in Nat /\ r.id =< lastId /\ spent[r.id] = 0
          BY DEF IInv, Table, Coordination, RowIds
        <4>2. spent[lastId + 1] = 0
          BY <1>2, <3>2 DEF IInv, Table
        <4> QED  BY <1>2, <3>2, <3>4, <4>1, <4>2
      <3>7. \A m \in RowIds : spent'[m] =< 1 /\ (m > lastId' => spent'[m] = 0)
        BY <1>2, <3>2 DEF IInv, Table, RowIds
      <3> QED  BY <3>2, <3>4, <3>5, <3>6, <3>7 DEF IInv, Table
    <2> QED  BY <2>1, <2>2
  <1>5. Known2(After(c))
    <2>1. version' \in Nat /\ lastId' \in Nat
      BY <1>4 DEF Table
    <2> QED  BY <1>2, <1>3, <1>4, <2>1, GentleKeeps
  <1> QED  BY <1>1, <1>4, <1>5, StepKeeps

\* DeleteCoordinationByID, whether or not the row is still there.
LEMMA DropInv ==
    ASSUME CoordinationAssumption, IInv, NEW a \in Actors, NEW c, Known(c), c.op # "idle", Drop(a, c)
    PROVE  IInv'
  <1>1. call' = [call EXCEPT ![a] = After(c)]
    BY DEF Drop, Continue, Put, After
  <1>2. /\ rows' = {r \in rows : r.id # c.row.id} /\ At(c, "drop")
        /\ UNCHANGED <<owner, version, lastId, spent>>
    BY DEF Drop
  <1>3. Gentle /\ Table'
    BY <1>2 DEF Gentle, IInv, Table
  <1>4. Known2(After(c))
    <2>1. CASE c.at < Len(Program[c.op])
      <3>1. Program[c.op][c.at + 1] = "own"
        BY <1>2, <2>1, KnownFields, ProgramFacts DEF At, Facts
      <3>2. /\ After(c) = [c EXCEPT !.at = c.at + 1] /\ c.at \in Nat /\ Len(Program[c.op]) \in Nat
            /\ c \in Calls /\ c.at \in 1..Len(Program[c.op])
        BY <2>1, KnownFields DEF After
      <3>3. /\ After(c) \in Calls /\ After(c).op = c.op /\ After(c).at = c.at + 1 /\ After(c).row = c.row
            /\ After(c).giving = c.giving /\ After(c).ver = c.ver /\ After(c).own = c.own
        BY <3>2 DEF Calls
      <3>4. After(c).at \in 1..Len(Program[c.op]) /\ At(After(c), "own")
        BY <2>1, <3>1, <3>2, <3>3 DEF At
      <3>5. Local(After(c))
        BY <3>3, <3>4 DEF Known, Local
      <3>6. \A r \in rows' : r.id # After(c).row.id
        BY <1>2, <3>3
      <3> QED  BY <1>2, <3>3, <3>5, <3>6 DEF Known, Known2, Current
    <2>2. CASE ~(c.at < Len(Program[c.op]))
      <3>1. After(c) = Idle
        BY <2>2 DEF After
      <3>2. Known(Idle)
        BY IdleKnown DEF IInv
      <3>3. version' \in Nat /\ lastId' \in Nat
        BY <1>3 DEF Table
      <3> QED  BY <1>3, <3>1, <3>2, <3>3, GentleKeeps DEF IInv
    <2> QED  BY <2>1, <2>2
  <1> QED  BY <1>1, <1>3, <1>4, StepKeeps

\* Setting the owner: the version decides.
LEMMA OwnInv ==
    ASSUME CoordinationAssumption, IInv, NEW a \in Actors, NEW c, Known(c), c.op # "idle", SetOwner(a, c)
    PROVE  IInv'
  <1>1. /\ c \in Calls /\ c.op \in DOMAIN Program /\ c.at \in 1..Len(Program[c.op])
        /\ Len(Program[c.op]) \in Nat \ {0} /\ c.ver \in Nat /\ c.giving \in Owners
        /\ c.row \in Coordination \cup {NoRow}
        /\ At(c, "own") /\ rows' = rows /\ lastId' = lastId
    BY KnownFields DEF SetOwner
  <1>2. Table /\ version \in Nat /\ lastId \in Nat
    BY DEF IInv, Table
  <1>3. ASSUME NEW ow, NEW ver \in Nat, NEW sp, ver > c.ver, After(c) # Idle
        PROVE  Local(After(c)) /\ Current(After(c), ow, ver, rows, lastId, sp)
    <2>1. c.at < Len(Program[c.op])
      BY <1>3 DEF After
    <2>2. /\ After(c) \in Calls /\ After(c).op = c.op /\ After(c).at = c.at + 1 /\ After(c).row = c.row
          /\ After(c).giving = c.giving /\ After(c).ver = c.ver
      BY <1>1, <2>1 DEF After, Calls
    <2>3. c.op = "ownedArrival" \/ (c.op = "acceptMoves" /\ c.at = 4)
      BY <1>1, <2>1, ProgramFacts DEF At, Facts
    <2>4. /\ ~At(After(c), "own")
          /\ c.op = "ownedArrival" => c.row = NoRow
          /\ c.row # NoRow => After(c).op = "acceptMoves" /\ After(c).at = 5
      <3>1. c.op = "ownedArrival" => c.at = 2
        BY <1>1, ProgramIs DEF At
      <3> QED  BY <2>2, <2>3, <3>1, ProgramIs DEF At, Known, Local
    <2>5. After(c).at \in 1..Len(Program[c.op])
      BY <1>1, <2>1, <2>2
    <2>6. Local(After(c))
      BY <2>2, <2>4, <2>5 DEF Known, Local
    <2>7. c.row # NoRow => c.row.id =< lastId
      BY DEF Known, Current
    <2> QED  BY <1>1, <1>3, <2>2, <2>4, <2>6, <2>7 DEF Current
  <1>4. CASE c.ver # version
    <2>1. UNCHANGED <<owner, version, rows, lastId, spent>> /\ OwnFailed(a, c)
      BY <1>1, <1>4 DEF SetOwner
    <2>2. c.ver < version
      BY <1>1, <1>2, <1>4 DEF Known, Current
    <2>3. Known(Idle)
      BY <1>2, IdleKnown
    <2>4. Known(After(c))
      <3>1. CASE After(c) = Idle
        BY <2>3, <3>1
      <3>2. CASE After(c) # Idle
        BY <1>2, <1>3, <2>2, <3>2 DEF Known
      <3> QED  BY <3>1, <3>2
    <2>5. call' = [call EXCEPT ![a] = After(c)] \/ call' = [call EXCEPT ![a] = Idle]
      BY <2>1 DEF OwnFailed, Continue, Return, Put, After
    <2> QED  BY <2>1, <2>3, <2>4, <2>5, ReadKeeps
  <1>5. CASE c.ver = version
    <2>1. /\ version < MaxVersion /\ owner' = NewOwner(c) /\ version' = version + 1
          /\ Spend(c.row.id) /\ call' = [call EXCEPT ![a] = After(c)]
      BY <1>5 DEF SetOwner, Continue, Put, After
    <2>2. owner' \in Owners /\ version' \in 1..MaxVersion
      BY <1>1, <1>2, <2>1 DEF NewOwner, Owners, CoordinationAssumption, Table
    <2>3. Gentle
      BY <1>1, <1>2, <2>1 DEF Gentle
    <2>6. Known2(After(c))
      <3>1. CASE After(c) = Idle
        <4>1. Known(Idle) /\ version' \in Nat /\ lastId' \in Nat
          BY <1>1, <1>2, <2>1, IdleKnown
        <4> QED  BY <1>2, <2>3, <3>1, <4>1, GentleKeeps
      <3>2. CASE After(c) # Idle
        <4>1. version' \in Nat /\ version' > c.ver
          BY <1>2, <1>5, <2>1
        <4> QED  BY <1>1, <1>3, <3>2, <4>1 DEF Known2
      <3> QED  BY <3>1, <3>2
    <2>4. CASE c.row = NoRow
      <3>1. spent' = spent
        BY <2>1, <2>4 DEF Spend, NoRow, RowIds
      <3>2. Table'
        BY <1>1, <2>2, <3>1 DEF IInv, Table
      <3> QED  BY <2>1, <2>3, <2>6, <3>2, StepKeeps
    <2>5. CASE c.row # NoRow
      <3>1. c.row.id \in RowIds /\ c.row.id =< lastId /\ spent[c.row.id] = 0
        BY <1>1, <1>5, <2>5 DEF Known, Current, Coordination
      <3>2. spent' = [spent EXCEPT ![c.row.id] = spent[c.row.id] + 1]
        BY <2>1, <3>1 DEF Spend
      <3>3. \A r \in rows : r.id # c.row.id
        BY <1>1 DEF Known, Current
      <3>4. spent \in [RowIds -> Nat]
        BY <1>2 DEF Table
      <3>5. spent' \in [RowIds -> Nat]
        BY <3>1, <3>2, <3>4
      <3>6. \A m \in RowIds : spent'[m] = IF m = c.row.id THEN 1 ELSE spent[m]
        BY <3>1, <3>2, <3>4
      <3>7. \A r \in rows' : r.id \in RowIds /\ r.id =< lastId' /\ spent'[r.id] = 0
        BY <1>1, <1>2, <3>3, <3>6 DEF Table, Coordination
      <3>8. \A m \in RowIds : spent'[m] =< 1 /\ (m > lastId' => spent'[m] = 0)
        BY <1>1, <1>2, <3>1, <3>6 DEF Table, RowIds
      <3>9. Table'
        BY <1>1, <1>2, <2>2, <3>5, <3>7, <3>8 DEF Table
      <3> QED  BY <2>1, <2>3, <2>6, <3>9, StepKeeps
    <2> QED  BY <2>4, <2>5
  <1> QED  BY <1>4, <1>5

\* A whole-row update brings back the owner that was read, or none.
LEMMA RewriteInv ==
    ASSUME CoordinationAssumption, IInv, NEW a \in Actors, NEW c, Known(c), c.op # "idle", Rewrite(a, c)
    PROVE  IInv'
  <1>1. call' = [call EXCEPT ![a] = After(c)] /\ At(c, "rewrite")
    BY DEF Rewrite, Continue, Put, After
  <1>2. Table /\ version \in Nat /\ lastId \in Nat
    BY DEF IInv, Table
  <1>4. c.row = NoRow
    BY <1>1, NoRowAt
  <1>5. Known(After(c))
    BY <1>2, <1>4, AfterKnown
  <1>6. owner' \in Owners
    BY DEF Rewrite, RewrittenOwners, Known, Local, Calls, Owners
  <1>7. /\ version' = version + 1 /\ version' \in 1..MaxVersion
        /\ UNCHANGED <<rows, lastId, spent>>
    BY <1>2 DEF Rewrite, CoordinationAssumption
  <1>8. Gentle /\ Table' /\ version' \in Nat /\ lastId' \in Nat
    BY <1>2, <1>6, <1>7 DEF Gentle, Table
  <1>9. Known2(After(c))
    BY <1>2, <1>5, <1>8, GentleKeeps
  <1> QED  BY <1>1, <1>8, <1>9, StepKeeps

\* The writes of single columns.
LEMMA EditInv == ASSUME CoordinationAssumption, IInv, Edit PROVE IInv'
  <1>1. /\ version' = version + 1 /\ version' \in 1..MaxVersion /\ version \in Nat
        /\ UNCHANGED <<owner, rows, lastId, call, spent>>
    BY DEF Edit, IInv, Table, CoordinationAssumption
  <1>2. Table' /\ Gentle /\ Table /\ version' \in Nat /\ lastId' \in Nat
    BY <1>1 DEF IInv, Table, Gentle
  <1>3. ASSUME NEW b \in Actors PROVE Known2(call[b])
    <2>1. Known(call[b])
      BY DEF IInv, Known
    <2> QED  BY <1>2, <2>1, GentleKeeps
  <1> QED  BY <1>1, <1>2, <1>3 DEF IInv, Known2

-----------------------------------------------------------------------------
\* A strip without coordinations, and nobody in a command.
LEMMA InitInv == CoordinationAssumption /\ Init => IInv
  <1> SUFFICES ASSUME CoordinationAssumption, Init PROVE IInv
    OBVIOUS
  <1>1. Table
    BY DEF Init, Table, CoordinationAssumption, RowIds
  <1>2. Known(Idle)
    BY <1>1, IdleKnown
  <1> QED  BY <1>1, <1>2 DEF Init, IInv, Known, Local

\* One case per statement of a command, and the writes of the strip by others.
LEMMA NextInv == CoordinationAssumption /\ IInv /\ [Next]_vars => IInv'
  <1> SUFFICES ASSUME CoordinationAssumption, IInv, [Next]_vars PROVE IInv'
    OBVIOUS
  <1>1. ASSUME NEW a \in Actors, NEW c \in Ready(a), Statement(a, c)
        PROVE  IInv'
    <2>1. Known(c) /\ c.op # "idle"
      BY ReadyKnown
    <2>2. CASE Check(a, c) \/ Read(a, c) \/ Decide(a, c) \/ ReadAgain(a, c)
      BY <2>1, <2>2, ReadInv
    <2>3. CASE FindFor(a, c) \/ Take(a, c) \/ FindAny(a, c) \/ FindNone(a, c) \/ FindToMe(a, c)
                 \/ FindMine(a, c) \/ FindTag(a, c) \/ FindTracked(a, c) \/ FindTouchdown(a, c)
      BY <2>1, <2>3, FindInv
    <2>4. CASE Create(a, c) \/ Move(a, c)
      BY <2>1, <2>4, WriteInv
    <2>5. CASE Drop(a, c)
      BY <2>1, <2>5, DropInv
    <2>6. CASE SetOwner(a, c)
      BY <2>1, <2>6, OwnInv
    <2>7. CASE Rewrite(a, c)
      BY <2>1, <2>7, RewriteInv
    <2> QED  BY <1>1, <2>2, <2>3, <2>4, <2>5, <2>6, <2>7 DEF Statement
  <1>2. CASE Edit
    BY <1>2, EditInv
  <1>3. CASE UNCHANGED vars
    BY <1>3 DEF vars, IInv, Table
  <1> QED  BY <1>1, <1>2, <1>3 DEF Next

\* The invariant holds in every reachable state.
THEOREM CoordinationInvariant == Spec => []IInv
  BY CoordinationAssumption, InitInv, NextInv, PTL DEF Spec

\* The strip row, the coordination rows and the local variables of every
\* command (strip_coordination.go and its callers) keep their types.
THEOREM CoordinationTypeOK == Spec => []TypeOK
  <1>1. IInv => TypeOK
    BY DEF IInv, Table, TypeOK
  <1> QED  BY <1>1, CoordinationInvariant, PTL

\* However many controllers, plugins and landings accept the same coordination
\* at once (AcceptCoordination ignores whether its Delete deleted anything), it
\* gives the strip away at most once.
THEOREM CoordinationSpentOnce == Spec => []OfferSpentOnce
  <1>1. IInv => OfferSpentOnce
    BY DEF IInv, Table, OfferSpentOnce
  <1> QED  BY <1>1, CoordinationInvariant, PTL

\* A handover (SetStripOwner) takes the strip from the owner it read, for any
\* number of commands in between and whatever owners EuroScope's whole-row
\* updates (UpdateStrip) bring back meanwhile: those raise the version too.
THEOREM CoordinationHandoverKnows == Spec => HandoverKnowsOwner
  <1>1. ASSUME IInv, [Next]_vars, NEW a \in Actors,
               At(call[a], "own"), version' # version, call'[a] # call[a]
        PROVE  owner = call[a].own
    <2>1. InCall(a) /\ call \in [Actors -> Calls]
      BY <1>1 DEF At, InCall, IInv
    <2>0. PICK b \in Actors : \E c \in Ready(b) : Statement(b, c)
      BY <1>1 DEF Next, Edit, vars
    <2>2. PICK c \in Ready(b) : Statement(b, c)
      BY <2>0
    <2>3. PICK d : call' = [call EXCEPT ![b] = d]
      BY <2>2 DEF Statement, Check, Read, Decide, ReadAgain, Create, Move, FindFor, Take, FindAny, FindNone,
             FindToMe, FindMine, FindTag, FindTracked, FindTouchdown, Drop, SetOwner, OwnFailed, Rewrite, Look,
             Continue, Return, Become, Accept, Put
    <2>4. a = b /\ c = call[a]
      BY <1>1, <2>1, <2>2, <2>3 DEF Ready
    <2>5. SetOwner(a, call[a])
      BY <1>1, <2>2, <2>4 DEF Statement, Check, Read, Decide, ReadAgain, Create, Move, FindFor, Take, FindAny,
             FindNone, FindToMe, FindMine, FindTag, FindTracked, FindTouchdown, Drop, Rewrite, Look, At
    <2>6. call[a].ver = version
      BY <1>1, <2>5 DEF SetOwner
    <2> QED  BY <1>1, <2>6 DEF IInv, Current
  <1>2. IInv /\ [Next]_vars =>
          [\A a \in Actors :
             At(call[a], "own") /\ version' # version /\ call'[a] # call[a] => owner = call[a].own]_vars
    BY <1>1
  <1> QED  BY <1>2, CoordinationInvariant, PTL DEF Spec, HandoverKnowsOwner

=============================================================================
