---------------------------- MODULE PDCClearance ----------------------------
(***************************************************************************)
(* The pre-departure clearance exchange of one aircraft in one LIVE        *)
(* session (backend/internal/pdc): requests over datalink and web,         *)
(* issuance, pilot answers, voice clearances, the acknowledgement timeout, *)
(* removal of the session, and a restart of the server.                    *)
(*                                                                         *)
(* Every call is a program over the strip row and the timeout map; its     *)
(* steps are the database statements and critical sections of the code, in *)
(* the code's order.  The row is read and written without a transaction,   *)
(* so a call carries the copy it read.  Callers are goroutines: the poll   *)
(* loop, controller sockets and HTTP requests.                             *)
(*                                                                         *)
(* Overlap says whether calls and expiries may run between each other's    *)
(* steps, as in the program; FALSE is the schedule in which each runs to   *)
(* its end (or to a crash) before the next begins, and a timeout goroutine *)
(* it started or cancelled runs to its wait or its exit.                   *)
(***************************************************************************)
EXTENDS Naturals, Sequences, FiniteSets

CONSTANTS
    Desks,     \* controller sockets
    Requests,  \* HTTP requests of the pilot's browser
    Overlap,   \* calls may interleave
    Leaves,    \* a controller may be gone when its command binding is checked
    HangsUp,   \* a browser may abandon its request
    Outages,   \* a statement on the database may fail
    MaxSeq,    \* bound of the model: clearances given a message number
    MaxCrash   \* bound of the model: restarts of the server

Poll == "poll"
Actors == {Poll} \cup Desks \cup Requests

ASSUME PDCAssumption ==
    /\ MaxSeq \in Nat /\ MaxCrash \in Nat
    /\ Overlap \in BOOLEAN /\ Leaves \in BOOLEAN /\ HangsUp \in BOOLEAN /\ Outages \in BOOLEAN
    /\ Poll \notin Desks \cup Requests /\ Desks \cap Requests = {}

VARIABLES
    pdc,       \* the pdc_data column: state, MessageSequence, web channel
    cleared,   \* the cleared column
    bay,       \* the bay column: not cleared, or cleared and beyond
    lastSeq,   \* the session's message sequence
    call,      \* the call each goroutine is in
    tracker,   \* s.timeouts[key]: the tracker of this aircraft, or NoTimer
    worker,    \* the handleTimeout goroutines; NoWorker where there is none
    removed,   \* the session is in s.removedSessions
    up,        \* the server is running
    crashes,   \* restarts so far
    shown,     \* history: EuroScope showed the flight cleared since it was withdrawn
    acked      \* history: message numbers a pilot acknowledged

row == <<pdc, cleared, bay>>
timers == <<tracker, worker>>
world == <<removed, up, crashes, shown>>
vars == <<row, lastSeq, call, timers, world, acked>>

NoSeq == 0      \* MessageSequence is nil
NoTimer == 0    \* the map has no entry
Timers == 1..(MaxSeq + MaxCrash)   \* enough: a start takes a number or a restart

Bays == {"NOT_CLEARED", "CLEARED"}
Withdrawn == {"FAILED", "NO_RESPONSE", "REVERT_TO_VOICE"}
States == {"NONE", "REQUESTED", "REQUESTED_WITH_FAULTS", "CLEARED", "CONFIRMED"} \cup Withdrawn
PdcData == [state : States, seq : Nat, web : BOOLEAN]
NoData == [state |-> "NONE", seq |-> NoSeq, web |-> FALSE]
NoWorker == [pc |-> "none", live |-> FALSE, by |-> Poll, seq |-> NoSeq, data |-> NoData]

\* WebPDCCanSubmit
CanSubmit(state) == state = "NONE" \/ state \in Withdrawn

-----------------------------------------------------------------------------
(* Calls and their programs *)

\* PersistPdcRequestOutcome: the repository reads the row and writes it back.
NoteSteps == <<"read", "set">>
\* Mutation: the previous timeout is cancelled after the new one is installed.
IssueStepsStopLast == <<"read", "persist", "move", "arm", "stop">>

\* IssueClearance from persistIssuedPdcClearance to StartClearanceTimeout.
IssueSteps == <<"read", "persist", "move", "stop", "arm">>
\* confirmPilotAcknowledgement
ConfirmSteps == <<"flag", "confirm", "stop">>
\* CancelTimeout and setPdcFailed, of HandleUnable and RevertToVoice.
WithdrawSteps == <<"stop", "read", "set", "unclear">>
\* ConfirmVoiceClearance
VoiceSteps == <<"recheck", "stop", "wipe">>

Program == [
    note          |-> NoteSteps,
    issue         |-> IssueSteps,
    issueFails    |-> IssueSteps \o NoteSteps,
    acknowledge   |-> ConfirmSteps,
    withdraw      |-> WithdrawSteps,
    voiceFlag     |-> VoiceSteps \o <<"raise">>,
    voiceOnly     |-> VoiceSteps,
    raise         |-> <<"raise">>,
    lower         |-> <<"lower">>,
    voiceMove     |-> <<"raise">> \o VoiceSteps,
    sync          |-> <<"sync">>,
    review        |-> <<"review">>,
    rearm         |-> <<"restore", "stop", "arm">>,
    webNote       |-> <<"submit">> \o NoteSteps \o <<"return">>,
    webIssue      |-> <<"submit">> \o IssueSteps \o <<"return">>,
    webIssueFails |-> <<"submit">> \o IssueSteps \o NoteSteps \o <<"return">>,
    webAcknowledge |-> ConfirmSteps \o <<"return">>]

\* data, cleared and bay are the copy of the row the call works with.
Idle == [op |-> "idle", at |-> 1, data |-> NoData, cleared |-> FALSE, bay |-> "NOT_CLEARED",
         seq |-> NoSeq, state |-> "NONE"]
Calls == [op : DOMAIN Program \cup {"idle"}, at : Nat, data : PdcData, cleared : BOOLEAN, bay : Bays,
          seq : Nat, state : States]

InCall(a) == call[a].op # "idle"
At(a, step) == InCall(a) /\ Program[call[a].op][call[a].at] = step

\* The goroutine's next statement, or its return.
Advance(a, data) ==
    call' = [call EXCEPT ![a] =
        IF call[a].at < Len(Program[call[a].op])
        THEN [call[a] EXCEPT !.at = call[a].at + 1, !.data = data]
        ELSE Idle]

\* An error return.  An HTTP handler still ends its request.
Abort(a) ==
    call' = [call EXCEPT ![a] =
        IF a \in Requests
        THEN [call[a] EXCEPT !.at = Len(Program[call[a].op])]
        ELSE Idle]

Enter(a, op, seq, state) ==
    call' = [call EXCEPT ![a] = [op |-> op, at |-> 1, data |-> pdc, cleared |-> cleared, bay |-> bay,
                                 seq |-> seq, state |-> state]]

\* handleTimeout goroutines past their select.
Expiring == {w \in Timers : worker[w].pc \in {"expired", "read", "mark", "unclear", "end"}}
Quiet == (\A a \in Actors : ~InCall(a)) /\ Expiring = {}
Settled == Quiet /\ \A w \in Timers : worker[w].pc # "none" => worker[w].pc = "waiting" /\ worker[w].live

\* A call begins: the goroutine is free, the server is up, the session lives.
MayEnter(a) == up /\ ~removed /\ ~InCall(a) /\ (Overlap \/ Settled)

Init ==
    /\ pdc = NoData /\ cleared = FALSE /\ bay = "NOT_CLEARED"
    /\ lastSeq = 0
    /\ call = [a \in Actors |-> Idle]
    /\ tracker = NoTimer
    /\ worker = [w \in Timers |-> NoWorker]
    /\ removed = FALSE /\ up = TRUE /\ crashes = 0 /\ shown = FALSE
    /\ acked = {}

-----------------------------------------------------------------------------
(* Entries *)

\* ProcessPDCRequest: rejected with a message when the strip is cleared (or
\* the request does not match, which changes nothing either); otherwise the
\* validation decides between review and automatic issue.
RequestNoted ==
    /\ MayEnter(Poll) /\ ~cleared
    /\ \E s \in {"REQUESTED", "REQUESTED_WITH_FAULTS"} : Enter(Poll, "note", NoSeq, s)
    /\ UNCHANGED <<row, lastSeq, timers, world, acked>>

\* IssueClearance: the message number is drawn before delivery.  It does not
\* look at the PDC state.  Automatic issue ends in one of three ways: issued;
\* failed before or while the row is saved; failed after the timeout started.
RequestIssued ==
    /\ MayEnter(Poll) /\ ~cleared /\ lastSeq < MaxSeq
    /\ lastSeq' = lastSeq + 1
    /\ \E op \in {"issue", "issueFails", "note"} :
          Enter(Poll, op, lastSeq + 1, "REQUESTED_WITH_FAULTS")
    /\ UNCHANGED <<row, timers, world, acked>>

\* handleIssuePdcClearance: a controller issues; a failed delivery changes
\* nothing and a failed notification only returns an error.
DeskIssues(d) ==
    /\ MayEnter(d) /\ lastSeq < MaxSeq
    /\ lastSeq' = lastSeq + 1
    /\ Enter(d, "issue", lastSeq + 1, "NONE")
    /\ UNCHANGED <<row, timers, world, acked>>

\* SubmitWebPDCRequest
WebSubmits(r) ==
    /\ MayEnter(r)
    /\ pdc.web => CanSubmit(pdc.state)
    /\ ~cleared
    /\ \/ /\ \E s \in {"REQUESTED", "REQUESTED_WITH_FAULTS"} : Enter(r, "webNote", NoSeq, s)
          /\ UNCHANGED lastSeq
       \/ /\ lastSeq < MaxSeq
          /\ lastSeq' = lastSeq + 1
          /\ \E op \in {"webIssue", "webIssueFails", "webNote"} :
                Enter(r, op, lastSeq + 1, "REQUESTED_WITH_FAULTS")
    /\ UNCHANGED <<row, timers, world, acked>>

\* Mutation: the message the pilot answered is not compared.
WilcoAnySequence(n) ==
    /\ MayEnter(Poll)
    /\ pdc.seq # NoSeq
    /\ acked' = acked \cup {n}
    /\ Enter(Poll, "acknowledge", NoSeq, "NONE")
    /\ UNCHANGED <<row, lastSeq, timers, world>>

\* HandleWilco: the answer names the message; a late, repeated or foreign one
\* is refused unless it names the number in the row.  The state is not read.
Wilco(n) ==
    /\ MayEnter(Poll)
    /\ pdc.seq # NoSeq /\ pdc.seq = n
    /\ acked' = acked \cup {n}
    /\ Enter(Poll, "acknowledge", NoSeq, "NONE")
    /\ UNCHANGED <<row, lastSeq, timers, world>>

\* handleAcknowledge: the browser acknowledges whatever the row holds.
WebAcknowledges(r) ==
    /\ MayEnter(r)
    /\ pdc.web /\ pdc.state \in {"CLEARED", "CONFIRMED"}
    /\ acked' = acked \cup ({pdc.seq} \ {NoSeq})
    /\ Enter(r, "webAcknowledge", NoSeq, "NONE")
    /\ UNCHANGED <<row, lastSeq, timers, world>>

\* HandleUnable: names no message and is accepted in every state.
Unable ==
    /\ MayEnter(Poll)
    /\ Enter(Poll, "withdraw", NoSeq, "FAILED")
    /\ UNCHANGED <<row, lastSeq, timers, world, acked>>

\* RevertToVoice
DeskReverts(d) ==
    /\ MayEnter(d)
    /\ pdc.state \notin {"NONE", "REVERT_TO_VOICE"}
    /\ Enter(d, "withdraw", NoSeq, "REVERT_TO_VOICE")
    /\ UNCHANGED <<row, lastSeq, timers, world, acked>>

\* UpdateClearedFlag: EuroScope reports the cleared flag of the aircraft.
FlagReported(d, flag) ==
    /\ MayEnter(d)
    /\ LET voice == flag /\ pdc.state \notin {"NONE", "CONFIRMED"} IN
          \/ voice /\ flag # cleared /\ Enter(d, "voiceFlag", NoSeq, "NONE")
          \/ voice /\ flag = cleared /\ Enter(d, "voiceOnly", NoSeq, "NONE")
          \/ ~voice /\ flag # cleared /\ Enter(d, IF flag THEN "raise" ELSE "lower", NoSeq, "NONE")
    /\ UNCHANGED <<row, lastSeq, timers, world, acked>>

\* MoveFrontendStrip to the cleared bay.
DeskMovesToCleared(d) ==
    /\ MayEnter(d)
    /\ bay # "CLEARED" \/ ~cleared
    /\ Enter(d, IF pdc.state = "NONE" THEN "raise" ELSE "voiceMove", NoSeq, "NONE")
    /\ UNCHANGED <<row, lastSeq, timers, world, acked>>

\* SyncStrip: EuroScope sends the whole strip, alone or in a full sync.
StripReported(d) ==
    /\ MayEnter(d)
    /\ Enter(d, "sync", NoSeq, "NONE")
    /\ UNCHANGED <<row, lastSeq, timers, world, acked>>

\* applyMandatoryRouteReview: IssueClearance begins by correcting the route.
\* What follows reads the row again, so the correction is a call of its own.
RouteReviewed(a) ==
    /\ MayEnter(a)
    /\ Enter(a, "review", NoSeq, "NONE")
    /\ UNCHANGED <<row, lastSeq, timers, world, acked>>

-----------------------------------------------------------------------------
(* Statements on the row *)

\* GetByCallsign of a read-modify-write.
Read(a) ==
    /\ At(a, "read")
    /\ Advance(a, pdc)
    /\ UNCHANGED <<row, lastSeq, timers, world, acked>>

\* SetPdcRequested, UpdatePdcStatus: the copy goes back with a new state,
\* unless the session was removed meanwhile.
Set(a) ==
    /\ At(a, "set")
    /\ \/ /\ ~removed
          /\ pdc' = [call[a].data EXCEPT !.state = call[a].state]
          /\ shown' = (shown /\ call[a].state \notin Withdrawn)
          /\ Advance(a, NoData)
       \/ removed /\ Abort(a) /\ UNCHANGED <<pdc, shown>>
    /\ UNCHANGED <<cleared, bay, lastSeq, timers, removed, up, crashes, acked>>

\* persistIssuedPdcClearance
Persist(a) ==
    /\ At(a, "persist")
    /\ \/ /\ ~removed
          /\ pdc' = [call[a].data EXCEPT !.state = "CLEARED", !.seq = call[a].seq]
          /\ Advance(a, NoData)
       \/ removed /\ Abort(a) /\ UNCHANGED pdc
    /\ UNCHANGED <<cleared, bay, lastSeq, timers, world, acked>>

\* SubmitWebPDCRequest saves the request; the state stays what it was.
SaveWebRequest(a) ==
    /\ At(a, "submit")
    /\ pdc' = [call[a].data EXCEPT !.seq = NoSeq, !.web = TRUE]
    /\ Advance(a, NoData)
    /\ UNCHANGED <<cleared, bay, lastSeq, timers, world, acked>>

\* moveIssuedPdcStrip: the bay changes, the cleared flag does not.
MoveIssued(a) ==
    /\ At(a, "move")
    /\ bay' = "CLEARED"
    /\ Advance(a, NoData)
    /\ UNCHANGED <<pdc, cleared, lastSeq, timers, world, acked>>

\* ConfirmPdcClearance
RaiseConfirmed(a) ==
    /\ At(a, "flag")
    /\ cleared' = TRUE /\ bay' = "CLEARED"
    /\ Advance(a, call[a].data)
    /\ UNCHANGED <<pdc, lastSeq, timers, world, acked>>

\* confirmPilotAcknowledgement: the copy the answer was matched with is saved.
SaveConfirmed(a) ==
    /\ call[a].op \in {"acknowledge", "webAcknowledge"} /\ At(a, "confirm")
    /\ pdc' = [call[a].data EXCEPT !.state = "CONFIRMED"]
    /\ Advance(a, NoData)
    /\ UNCHANGED <<cleared, bay, lastSeq, timers, world, acked>>

\* UpdateClearedFlag and the frontend's move: cleared by voice.
RaiseByVoice(a) ==
    /\ At(a, "raise")
    /\ cleared' = TRUE /\ bay' = "CLEARED"
    /\ Advance(a, NoData)
    /\ UNCHANGED <<pdc, lastSeq, timers, world, acked>>

\* UpdateClearedFlag with FALSE: the bay and the PDC state stay.
Lower(a) ==
    /\ At(a, "lower")
    /\ cleared' = FALSE
    /\ Advance(a, NoData)
    /\ UNCHANGED <<pdc, bay, lastSeq, timers, world, acked>>

\* ValidateCommandAuthority: work a controller began is bound to that
\* controller's plugin and refused once it is gone; other work is not bound.
Authority(a) == IF Leaves /\ a \in Desks THEN BOOLEAN ELSE {TRUE}

\* Mutation: only the bay is taken back.
UnclearKeepsFlag(a) ==
    /\ At(a, "unclear")
    /\ bay' = "NOT_CLEARED"
    /\ Advance(a, NoData)
    /\ UNCHANGED <<pdc, cleared, lastSeq, timers, world, acked>>

\* UnclearStrip: needs the caller's command binding; its error is only logged.
Unclear(a) ==
    /\ At(a, "unclear")
    /\ \E bound \in Authority(a) :
          IF bound
          THEN cleared' = FALSE /\ bay' = "NOT_CLEARED"
          ELSE UNCHANGED <<cleared, bay>>
    /\ Advance(a, NoData)
    /\ UNCHANGED <<pdc, lastSeq, timers, world, acked>>

\* ConfirmVoiceClearance refuses a controller whose plugin is gone: a report
\* ends there, and a move puts the strip back as it found it.  It reads the
\* state again and returns when it is NONE.
Recheck(a) ==
    /\ At(a, "recheck")
    /\ \E bound \in Authority(a) :
          /\ \/ ~bound /\ call' = [call EXCEPT ![a] = Idle]
             \/ bound /\ pdc.state # "NONE" /\ Advance(a, NoData)
             \/ /\ bound /\ pdc.state = "NONE"
                /\ call' = [call EXCEPT ![a] =
                      IF call[a].op = "voiceFlag" THEN [call[a] EXCEPT !.op = "raise", !.at = 1] ELSE Idle]
          /\ IF ~bound /\ call[a].op = "voiceMove"
             THEN cleared' = call[a].cleared /\ bay' = call[a].bay
             ELSE UNCHANGED <<cleared, bay>>
    /\ UNCHANGED <<pdc, lastSeq, timers, world, acked>>

\* ConfirmVoiceClearance empties pdc_data.
Wipe(a) ==
    /\ At(a, "wipe")
    /\ pdc' = NoData
    /\ Advance(a, NoData)
    /\ UNCHANGED <<cleared, bay, lastSeq, timers, world, acked>>

\* applyMandatoryRouteReview writes the whole copy back, comparing nothing.
SaveReviewed(a) ==
    /\ At(a, "review")
    /\ pdc' = call[a].data /\ cleared' = call[a].cleared /\ bay' = call[a].bay
    /\ Advance(a, NoData)
    /\ UNCHANGED <<lastSeq, timers, world, acked>>

\* Observe: the workflow keeps what an outstanding or confirmed clearance gave
\* when EuroScope does not show the flag.
KeepsFlag(copy) == copy.cleared /\ copy.data.state \in {"CLEARED", "CONFIRMED"}
KeepsBay(copy) == copy.data.state = "CLEARED" \/ (copy.data.state = "CONFIRMED" /\ copy.cleared)

\* SyncStrip writes flag and bay from EuroScope's flag and ground state, and
\* the copy's PDC data or, for a refiled flight, none; it compares no version
\* and does not tell the PDC service.
SaveSynced(a) ==
    /\ At(a, "sync")
    /\ \E flag \in BOOLEAN, refiled \in BOOLEAN : \E b \in (IF flag THEN {"CLEARED"} ELSE Bays) :
          /\ pdc' = IF refiled THEN NoData ELSE call[a].data
          /\ cleared' = (flag \/ (~refiled /\ KeepsFlag(call[a])))
          /\ bay' = IF ~flag /\ ~refiled /\ b = "NOT_CLEARED" /\ KeepsBay(call[a]) THEN call[a].bay ELSE b
          /\ shown' = (flag \/ b # "NOT_CLEARED")
    /\ Advance(a, NoData)
    /\ UNCHANGED <<lastSeq, timers, removed, up, crashes, acked>>

-----------------------------------------------------------------------------
(* The timeout map *)

Cancelled(w) == IF w = NoTimer THEN worker ELSE [worker EXCEPT ![w].live = FALSE]

\* CancelTimeout
Stop(a) ==
    /\ At(a, "stop")
    /\ worker' = Cancelled(tracker)
    /\ tracker' = NoTimer
    /\ Advance(a, NoData)
    /\ UNCHANGED <<row, lastSeq, world, acked>>

\* A goroutine is started under the context of caller a; slot w is free.
StartWorker(w, a) ==
    /\ worker[w] = NoWorker
    /\ \A v \in Timers : worker[v] = NoWorker => w <= v
    /\ tracker' = w
    /\ worker' = [worker EXCEPT ![w] =
                    [pc |-> "new", live |-> TRUE, by |-> a, seq |-> call[a].seq, data |-> NoData]]

\* Mutation: the session is not looked up again under the lock.
ArmAfterRemoval(a) ==
    /\ At(a, "arm")
    /\ \E w \in Timers : StartWorker(w, a)
    /\ Advance(a, NoData)
    /\ UNCHANGED <<row, lastSeq, world, acked>>

\* startClearanceTimeoutAfter: installs the tracker, in a critical section of
\* its own, and starts the goroutine under the caller's context.
Arm(a) ==
    /\ At(a, "arm")
    /\ \/ ~removed /\ \E w \in Timers : StartWorker(w, a)
       \/ removed /\ UNCHANGED timers
    /\ Advance(a, NoData)
    /\ UNCHANGED <<row, lastSeq, world, acked>>

\* The HTTP server cancels the request's context when the handler returns.
Return(r) ==
    /\ At(r, "return")
    /\ worker' = [w \in Timers |-> IF worker[w].by = r THEN [worker[w] EXCEPT !.live = FALSE] ELSE worker[w]]
    /\ call' = [call EXCEPT ![r] = Idle]
    /\ UNCHANGED <<row, lastSeq, tracker, world, acked>>

\* The browser goes away: the next statement under the request's context fails.
\* The database may fail anyone: the call returns the error, and what it did
\* before stays (a clearance that is saved and not timed, a timeout cancelled
\* and the state not set, a restart that restores nothing).  Cancelling a
\* timeout alone asks nobody; arming one looks the session up first.
Fail(a) ==
    /\ Outages \/ (HangsUp /\ a \in Requests)
    /\ InCall(a) /\ ~At(a, "return")
    /\ At(a, "stop") => call[a].op \in {"issue", "issueFails", "webIssue", "webIssueFails"}
    /\ Abort(a)
    /\ UNCHANGED <<row, lastSeq, timers, world, acked>>

\* restorePendingTimeouts: at the start of the server, before the poll loop.
Restore ==
    /\ At(Poll, "restore")
    /\ IF pdc.state = "CLEARED" /\ pdc.seq # NoSeq
       THEN call' = [call EXCEPT ![Poll] = [call[Poll] EXCEPT !.at = 2, !.seq = pdc.seq]]
       ELSE call' = [call EXCEPT ![Poll] = Idle]
    /\ UNCHANGED <<row, lastSeq, timers, world, acked>>

-----------------------------------------------------------------------------
(* handleTimeout *)

Goto(w, pc, data) == worker' = [worker EXCEPT ![w].pc = pc, ![w].data = data]
Exit(w) == worker' = [worker EXCEPT ![w] = NoWorker]

\* The goroutine looks its tracker up; without one it returns.
LookUp(w) ==
    /\ worker[w].pc = "new"
    /\ IF tracker = NoTimer THEN Exit(w) ELSE Goto(w, "waiting", NoData)
    /\ UNCHANGED <<row, lastSeq, call, tracker, world, acked>>

\* ctx.Done
Interrupted(w) ==
    /\ worker[w].pc = "waiting" /\ ~worker[w].live
    /\ Exit(w)
    /\ UNCHANGED <<row, lastSeq, call, tracker, world, acked>>

\* Mutation: the end of the delay starts it again.
ElapseRestarts(w) ==
    /\ worker[w].pc = "waiting"
    /\ Overlap \/ Settled
    /\ Goto(w, "waiting", NoData)
    /\ UNCHANGED <<row, lastSeq, call, tracker, world, acked>>

\* The delay is over.  A cancellation concurrent with it may leave both
\* channels ready, and select takes either.
Elapse(w) ==
    /\ worker[w].pc = "waiting"
    /\ Overlap \/ Settled
    /\ IF removed THEN Exit(w) ELSE Goto(w, "expired", NoData)
    /\ UNCHANGED <<row, lastSeq, call, tracker, world, acked>>

\* Whether a query of the expiry is answered: not under a cancelled context,
\* and not in an outage.
Answers(w) == IF ~worker[w].live THEN {FALSE} ELSE IF Outages THEN BOOLEAN ELSE {TRUE}

\* Reload: only a strip that still waits for the pilot is withdrawn, and none
\* when the query fails.
Reload(w) ==
    /\ worker[w].pc = "expired"
    /\ \E answered \in Answers(w) :
          Goto(w, IF answered /\ pdc.state = "CLEARED" THEN "read" ELSE "end", NoData)
    /\ UNCHANGED <<row, lastSeq, call, tracker, world, acked>>

\* setPdcFailed reads the row ...
ReadExpired(w) ==
    /\ worker[w].pc = "read"
    /\ \E answered \in Answers(w) : Goto(w, IF answered /\ ~removed THEN "mark" ELSE "end", pdc)
    /\ UNCHANGED <<row, lastSeq, call, tracker, world, acked>>

\* ... and writes it back, unless a cancellation came first.
MarkNoResponse(w) ==
    /\ worker[w].pc = "mark"
    /\ \E answered \in Answers(w) :
          IF answered
          THEN /\ pdc' = [worker[w].data EXCEPT !.state = "NO_RESPONSE"]
               /\ shown' = FALSE
               /\ Goto(w, "unclear", NoData)
          ELSE UNCHANGED <<pdc, shown>> /\ Goto(w, "end", NoData)
    /\ UNCHANGED <<cleared, bay, lastSeq, call, tracker, removed, up, crashes, acked>>

\* UnclearStrip under the context of whoever issued the clearance: it checks
\* that controller's command binding, and its error is only logged.
UnclearExpired(w) ==
    /\ worker[w].pc = "unclear"
    /\ \E bound \in Authority(worker[w].by), answered \in Answers(w) :
          IF bound /\ answered
          THEN cleared' = FALSE /\ bay' = "NOT_CLEARED"
          ELSE UNCHANGED <<cleared, bay>>
    /\ Goto(w, "end", NoData)
    /\ UNCHANGED <<pdc, lastSeq, call, tracker, world, acked>>

\* The key is deleted from the map, whoever's tracker it holds.
Forget(w) ==
    /\ worker[w].pc = "end"
    /\ Exit(w)
    /\ tracker' = NoTimer
    /\ UNCHANGED <<row, lastSeq, call, world, acked>>

-----------------------------------------------------------------------------
(* The session and the server *)

\* RemoveSession
RemoveSession ==
    /\ up /\ ~removed
    /\ removed' = TRUE
    /\ worker' = Cancelled(tracker)
    /\ tracker' = NoTimer
    /\ UNCHANGED <<row, lastSeq, call, up, crashes, shown, acked>>

\* The process ends between any two statements; only the row survives.
Crash ==
    /\ up /\ ~removed /\ crashes < MaxCrash
    /\ up' = FALSE /\ crashes' = crashes + 1
    /\ call' = [a \in Actors |-> Idle]
    /\ tracker' = NoTimer
    /\ worker' = [w \in Timers |-> NoWorker]
    /\ UNCHANGED <<row, lastSeq, removed, shown, acked>>

\* Start: the poll goroutine restores the timeouts first.
Restart ==
    /\ ~up
    /\ up' = TRUE
    /\ Enter(Poll, "rearm", NoSeq, "NONE")
    /\ UNCHANGED <<row, lastSeq, timers, removed, crashes, shown, acked>>

-----------------------------------------------------------------------------
EnterCall ==
    \/ RequestNoted \/ RequestIssued \/ Unable
    \/ \E n \in 0..lastSeq : Wilco(n)
    \/ \E d \in Desks : DeskIssues(d) \/ DeskReverts(d) \/ DeskMovesToCleared(d) \/ StripReported(d)
    \/ \E a \in {Poll} \cup Desks : RouteReviewed(a)
    \/ \E d \in Desks, flag \in BOOLEAN : FlagReported(d, flag)
    \/ \E r \in Requests : WebSubmits(r) \/ WebAcknowledges(r)

StepCall(a) ==
    \/ Read(a) \/ Set(a) \/ Persist(a) \/ SaveWebRequest(a) \/ MoveIssued(a)
    \/ RaiseConfirmed(a) \/ SaveConfirmed(a) \/ RaiseByVoice(a) \/ Lower(a)
    \/ Unclear(a) \/ Recheck(a) \/ Wipe(a) \/ Stop(a) \/ Arm(a) \/ Return(a)
    \/ SaveReviewed(a) \/ SaveSynced(a)
    \/ (a = Poll /\ Restore)

StepWorker(w) ==
    \/ LookUp(w) \/ Interrupted(w) \/ Reload(w) \/ ReadExpired(w)
    \/ MarkNoResponse(w) \/ UnclearExpired(w) \/ Forget(w)

Next ==
    \/ EnterCall
    \/ \E a \in Actors : StepCall(a)
    \/ \E a \in Actors : Fail(a)
    \/ \E w \in Timers : StepWorker(w) \/ Elapse(w)
    \/ RemoveSession \/ Crash \/ Restart

\* Goroutines run, the ten minutes pass, and the server is restarted.
Fairness ==
    /\ \A a \in Actors : WF_vars(StepCall(a))
    /\ \A w \in Timers : WF_vars(StepWorker(w)) /\ SF_vars(Elapse(w))
    /\ WF_vars(Restart)

Spec == Init /\ [][Next]_vars
FairSpec == Spec /\ Fairness

-----------------------------------------------------------------------------
(* Properties *)

WorkerPC == {"none", "new", "waiting", "expired", "read", "mark", "unclear", "end"}

\* Every variable keeps its type, and timeout goroutines are numbered.
TypeOK ==
    /\ pdc \in PdcData /\ cleared \in BOOLEAN /\ bay \in Bays
    /\ lastSeq \in 0..MaxSeq
    /\ call \in [Actors -> Calls]
    /\ tracker \in Timers \cup {NoTimer}
    /\ worker \in [Timers -> [pc : WorkerPC, live : BOOLEAN, by : Actors, seq : Nat, data : PdcData]]
    /\ removed \in BOOLEAN /\ up \in BOOLEAN /\ shown \in BOOLEAN
    /\ crashes \in 0..MaxCrash /\ acked \subseteq Nat

\* A strip is CONFIRMED only with a clearance whose own message number a pilot
\* acknowledged: not by a late, repeated or crossed answer to another one, in
\* any interleaving, and not after a restart.  (A later web request keeps the
\* state for a moment and erases the number.)
ConfirmedWasAcknowledged ==
    pdc.state = "CONFIRMED" /\ pdc.seq # NoSeq => pdc.seq \in acked

\* A removed session has no timeout left and gets none: neither a call that
\* passed its checks before the removal nor the restore of a start installs
\* one afterwards.
RemovedSessionQuiet == removed => tracker = NoTimer

\* An outstanding clearance delivered over datalink is always timed: its
\* tracker is in the map, its goroutine runs under a live context and will
\* withdraw this clearance, whatever calls, failures and restarts came before.
OutstandingTimed ==
    Quiet /\ up /\ ~removed /\ pdc.state = "CLEARED" /\ ~pdc.web =>
        /\ tracker # NoTimer
        /\ worker[tracker].pc \in {"new", "waiting"} /\ worker[tracker].live
        /\ worker[tracker].seq = pdc.seq

\* FAILED, NO RESPONSE and REVERT TO VOICE mean that the strip is no longer
\* cleared: once the call or the expiry that set the state is over, the
\* cleared flag is down and the strip is back in the not-cleared bay, whatever
\* requests, answers, moves and voice clearances came before or after.  Only
\* EuroScope's own strip can show such a flight cleared, since SyncStrip does
\* not look at the PDC state then.
WithdrawnNotCleared ==
    Quiet /\ crashes = 0 /\ ~removed /\ pdc.state \in Withdrawn =>
        (~cleared /\ bay = "NOT_CLEARED") \/ shown

\* A pilot who does not answer a datalink clearance is timed out, also across
\* a restart: the exchange does not stay CLEARED for ever.
DatalinkResolved ==
    (pdc.state = "CLEARED" /\ ~pdc.web) ~> (pdc.state # "CLEARED" \/ pdc.web \/ removed)

\* The documentation's promise for every channel: no answer, NO RESPONSE.
EveryClearanceResolved == (pdc.state = "CLEARED") ~> (pdc.state # "CLEARED" \/ removed)

=============================================================================
