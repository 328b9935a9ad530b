------------------------- MODULE PDCClearanceProofs -------------------------
(***************************************************************************)
(* Proofs about PDCClearance.  The first part holds for any interleaving   *)
(* of calls, expiries, restarts and the removal of the session; the second *)
(* is about the schedule in which each call and each expiry runs to its    *)
(* end first, and follows the clearance through every program.             *)
(***************************************************************************)
EXTENDS PDCClearance, TLAPS

Ops == DOMAIN Program
AckOps == {"acknowledge", "webAcknowledge"}
IssueOps == {"issue", "issueFails", "webIssue", "webIssueFails"}
SubmitOps == {"webNote", "webIssue", "webIssueFails"}
WebOps == SubmitOps \cup {"webAcknowledge"}
VoiceOps == {"voiceFlag", "voiceOnly", "voiceMove"}
RowOps == {"sync", "review"}

WorkerData == [pc : WorkerPC, live : BOOLEAN, by : Actors, seq : Nat, data : PdcData]
StepOf(a) == Program[call[a].op][call[a].at]

\* What every goroutine carries: its position lies in its program, a browser
\* runs only the programs of web requests, and no call sets CLEARED or
\* CONFIRMED by name.
Carried ==
    \A a \in Actors :
        /\ InCall(a) => call[a].at \in 1..Len(Program[call[a].op])
        /\ call[a].state \notin {"CLEARED", "CONFIRMED"}
        /\ a \in Requests => call[a].op \in WebOps \cup {"idle"}
        /\ call[a].op \in WebOps => a \in Requests
        /\ call[a].op \in IssueOps => call[a].seq # NoSeq

\* The copy an acknowledgement will save is one a pilot acknowledged, and so
\* is a confirmed copy of the whole row that will be written back.
CopiesAcknowledged ==
    \A a \in Actors :
        /\ call[a].op \in AckOps => call[a].data.seq \in acked \cup {NoSeq}
        /\ call[a].op \in RowOps /\ call[a].data.state = "CONFIRMED" =>
              call[a].data.seq \in acked \cup {NoSeq}

-----------------------------------------------------------------------------
(* One call at a time *)

Outstanding == pdc.state = "CLEARED" /\ ~pdc.web
Timed ==
    /\ tracker # NoTimer
    /\ worker[tracker].pc \in {"new", "waiting"} /\ worker[tracker].live
    /\ worker[tracker].seq = pdc.seq /\ worker[tracker].by \notin Requests

\* Where a call has saved a clearance and not yet timed it, has stopped the
\* timeout of one it will withdraw, or has not restored it yet.
Untimed(a) ==
    \/ call[a].op \in IssueOps /\ StepOf(a) \in {"move", "stop", "arm"}
    \/ call[a].op = "withdraw" /\ StepOf(a) \in {"read", "set"}
    \/ call[a].op \in VoiceOps /\ StepOf(a) = "wipe"
    \/ call[a].op = "rearm"

\* Calls and expiries exclude each other; only the tracked worker is live.
Alone ==
    /\ \A a, b \in Actors : InCall(a) /\ InCall(b) => a = b
    /\ \A a \in Actors : InCall(a) => Expiring = {}
    /\ \A w \in Timers : worker[w].live => w = tracker
    /\ \A w \in Expiring : worker[w].live
    /\ ~up => (\A a \in Actors : ~InCall(a)) /\ \A w \in Timers : worker[w].pc = "none"

\* What a call in progress knows of the row and of the timeout map.
Knows(a) ==
    /\ StepOf(a) \in {"persist", "set", "submit", "flag", "confirm", "sync", "review"} => call[a].data = pdc
    /\ StepOf(a) \in {"sync", "review"} => call[a].cleared = cleared /\ call[a].bay = bay
    /\ call[a].op \in IssueOps /\ StepOf(a) \in {"move", "stop", "arm"} =>
          pdc.state = "CLEARED" /\ pdc.seq = call[a].seq
    /\ call[a].op = "rearm" /\ StepOf(a) # "restore" => call[a].seq = pdc.seq
    /\ StepOf(a) \in {"arm", "wipe"} => tracker = NoTimer
    /\ call[a].op \in AckOps /\ StepOf(a) = "stop" => pdc.state = "CONFIRMED"
    /\ call[a].op \in SubmitOps /\ StepOf(a) \notin {"submit", "return"} => pdc.web

TimerKept ==
    /\ Outstanding => pdc.seq # NoSeq
    /\ up /\ Outstanding =>
          \/ Timed
          \/ \E a \in Actors : InCall(a) /\ Untimed(a)
          \/ \E w \in Timers : worker[w].pc \in {"expired", "read", "mark"}
    /\ \A w \in Timers : worker[w].pc = "mark" => worker[w].data = pdc

SerialNow ==
    /\ Alone
    /\ \A a \in Actors : InCall(a) => Knows(a)
    /\ TimerKept

Serial == ~removed => SerialNow

\* Where the strip of a withdrawn clearance may still be cleared.
Lowering(a) ==
    \/ call[a].op = "withdraw" /\ StepOf(a) = "unclear"
    \/ call[a].op \in AckOps /\ StepOf(a) = "confirm"
    \/ call[a].op = "voiceMove" /\ StepOf(a) \in {"recheck", "stop", "wipe"}

Down == ~cleared /\ bay = "NOT_CLEARED"

\* What a call in progress knows of a withdrawn clearance: it does not raise
\* the flag of one for good, and only a withdrawal withdraws.
Minds(a) ==
    /\ call[a].op \in {"raise", "voiceFlag"} /\ StepOf(a) = "raise" => pdc.state \notin Withdrawn
    /\ call[a].op = "webAcknowledge" => pdc.state \notin Withdrawn
    /\ call[a].state \in Withdrawn <=> call[a].op = "withdraw"

LoweredNow ==
    /\ pdc.state \in Withdrawn =>
          \/ Down \/ shown
          \/ \E a \in Actors : InCall(a) /\ Lowering(a)
          \/ \E w \in Timers : worker[w].pc = "unclear"
    /\ \A a \in Actors : InCall(a) => Minds(a)

Lowered == ~removed /\ crashes = 0 => LoweredNow

-----------------------------------------------------------------------------
(* The programs *)

\* What the proofs use of position n of program op: which programs contain
\* the step there, and which step comes before and after it.
Facts(op, n) ==
    LET p == Program[op]
        s == p[n]
        last == n = Len(p)
        t == p[n + 1]
    IN  /\ s \in {"arm", "move", "persist"} => op \in IssueOps \cup {"rearm"}
        /\ s \in {"move", "persist"} => op \in IssueOps
        /\ s = "restore" => op = "rearm"
        /\ s \in {"recheck", "wipe"} => op \in VoiceOps
        /\ s = "submit" => op \in SubmitOps
        /\ s = "unclear" => op = "withdraw"
        /\ s = "lower" => op = "lower"
        /\ s = "sync" => op = "sync" /\ last
        /\ s = "review" => op = "review" /\ last
        /\ op \in RowOps => s \in {"sync", "review"}
        /\ s \in {"flag", "confirm"} => op \in AckOps
        /\ s = "raise" => op \in {"raise", "voiceFlag", "voiceMove"}
        /\ s = "return" => last /\ op \in SubmitOps \cup {"webAcknowledge"}
        /\ s = "read" => op \notin AckOps \cup VoiceOps \cup {"rearm"}
        /\ s = "set" => op \notin AckOps \cup VoiceOps \cup {"rearm", "issue", "webIssue"}
        /\ s = "stop" => op \in IssueOps \cup AckOps \cup VoiceOps \cup {"withdraw", "rearm"}
        /\ op \in SubmitOps \cup {"webAcknowledge"} /\ last => s = "return"
        /\ op \in SubmitOps /\ s = "submit" => ~last /\ t = "read"
        /\ op \in IssueOps /\ s = "read" => ~last /\ t \in {"persist", "set"}
        /\ op \in IssueOps /\ s = "persist" => ~last /\ t = "move"
        /\ op \in IssueOps /\ s = "move" => ~last /\ t = "stop"
        /\ op \in IssueOps /\ s = "stop" => ~last /\ t = "arm"
        /\ op = "rearm" /\ s = "stop" => ~last /\ t = "arm"
        /\ op = "rearm" /\ s = "restore" => n = 1 /\ Len(p) = 3 /\ p[2] = "stop"
        /\ op = "withdraw" => s \in {"stop", "read", "set", "unclear"}
        /\ op = "withdraw" /\ s = "stop" => ~last /\ t = "read"
        /\ op = "withdraw" /\ s = "read" => ~last /\ t = "set"
        /\ op = "withdraw" /\ s = "set" => ~last /\ t = "unclear"
        /\ op \in VoiceOps /\ s = "recheck" => ~last /\ t = "stop"
        /\ op \in VoiceOps /\ s = "stop" => ~last /\ t = "wipe"
        /\ op = "voiceMove" /\ s = "raise" => ~last /\ t = "recheck"
        /\ op \in AckOps /\ s = "flag" => ~last /\ t = "confirm"
        /\ op \in AckOps /\ s = "confirm" => ~last /\ t = "stop"
        /\ ~last /\ t \in {"persist", "set"} => s = "read"
        /\ ~last /\ t = "arm" => s = "stop"
        /\ ~last /\ t = "move" => s = "persist"
        /\ ~last /\ t = "confirm" => s = "flag"
        /\ ~last /\ t = "stop" /\ op \in IssueOps => s = "move"
        /\ ~last /\ t = "raise" => s = "wipe" /\ op = "voiceFlag"
        /\ ~last => t \notin {"submit", "flag", "restore", "sync", "review"}
        /\ ~last /\ t = "unclear" => s = "set"
        /\ ~last /\ op = "withdraw" /\ t = "read" => s = "stop"
        /\ ~last /\ t = "wipe" => s = "stop"
        /\ ~last /\ t = "recheck" => s = "raise"
        /\ ~last /\ op \in VoiceOps /\ t = "stop" => s = "recheck"
        /\ n = 1 /\ op \in IssueOps => s \in {"read", "submit"}
        /\ n = 1 /\ op \in SubmitOps => s = "submit"
        /\ n = 1 /\ op \in AckOps => s = "flag"
        /\ n = 1 /\ op = "withdraw" => s = "stop"
        /\ n = 1 /\ op \in {"voiceFlag", "voiceOnly"} => s = "recheck"
        /\ n = 1 /\ op \in {"raise", "voiceMove"} => s = "raise"
        /\ n = 1 /\ op = "rearm" => s = "restore"
        /\ n = 1 => s \notin {"arm", "move", "persist", "set", "unclear"}

\* The names of the programs.
LEMMA OpsAre ==
    Ops = {"note", "issue", "issueFails", "acknowledge", "withdraw", "voiceFlag", "voiceOnly", "raise",
           "lower", "voiceMove", "sync", "review", "rearm", "webNote", "webIssue", "webIssueFails", "webAcknowledge"}
  BY DEF Ops, Program

\* No program is empty.
LEMMA ProgramLengths == \A op \in Ops : Len(Program[op]) \in Nat \ {0}
  BY OpsAre DEF Program, NoteSteps, IssueSteps, ConfirmSteps, WithdrawSteps, VoiceSteps

\* The facts hold at every position of every program.
LEMMA ProgramFacts ==
    ASSUME NEW op \in Ops, NEW n \in 1..Len(Program[op])
    PROVE  Facts(op, n) /\ Len(Program[op]) \in Nat \ {0}
  <1> USE DEF Facts, IssueOps, SubmitOps, VoiceOps, AckOps, RowOps
  <1>1. CASE op = "note"
    <2> DEFINE p == Program["note"]
    <2>1. Len(p) = 2 /\ p[1] = "read" /\ p[2] = "set"
      BY DEF Program, NoteSteps, IssueSteps, ConfirmSteps, WithdrawSteps, VoiceSteps
    <2> HIDE DEF p
    <2>2. p = Program[op] /\ n \in 1..2
      BY <1>1, <2>1 DEF p
    <2>3. CASE n = 1
      BY <1>1, <2>1, <2>2, <2>3
    <2>4. CASE n = 2
      BY <1>1, <2>1, <2>2, <2>4
    <2> QED
      BY <2>2, <2>3, <2>4
  <1>2. CASE op = "issue"
    <2> DEFINE p == Program["issue"]
    <2>1. Len(p) = 5 /\ p[1] = "read" /\ p[2] = "persist" /\ p[3] = "move" /\ p[4] = "stop" /\ p[5] = "arm"
      BY DEF Program, NoteSteps, IssueSteps, ConfirmSteps, WithdrawSteps, VoiceSteps
    <2> HIDE DEF p
    <2>2. p = Program[op] /\ n \in 1..5
      BY <1>2, <2>1 DEF p
    <2>3. CASE n = 1
      BY <1>2, <2>1, <2>2, <2>3
    <2>4. CASE n = 2
      BY <1>2, <2>1, <2>2, <2>4
    <2>5. CASE n = 3
      BY <1>2, <2>1, <2>2, <2>5
    <2>6. CASE n = 4
      BY <1>2, <2>1, <2>2, <2>6
    <2>7. CASE n = 5
      BY <1>2, <2>1, <2>2, <2>7
    <2> QED
      BY <2>2, <2>3, <2>4, <2>5, <2>6, <2>7
  <1>3. CASE op = "issueFails"
    <2> DEFINE p == Program["issueFails"]
    <2>1. Len(p) = 7 /\ p[1] = "read" /\ p[2] = "persist" /\ p[3] = "move" /\ p[4] = "stop" /\ p[5] = "arm" /\ p[6] = "read" /\ p[7] = "set"
      BY DEF Program, NoteSteps, IssueSteps, ConfirmSteps, WithdrawSteps, VoiceSteps
    <2> HIDE DEF p
    <2>2. p = Program[op] /\ n \in 1..7
      BY <1>3, <2>1 DEF p
    <2>3. CASE n = 1
      <3>1. Len(p) = 7 /\ p[n] = "read" /\ p[n + 1] = "persist"
        BY <2>1, <2>3
      <3> QED
        BY <1>3, <2>2, <2>3, <3>1
    <2>4. CASE n = 2
      <3>1. Len(p) = 7 /\ p[n] = "persist" /\ p[n + 1] = "move"
        BY <2>1, <2>4
      <3> QED
        BY <1>3, <2>2, <2>4, <3>1
    <2>5. CASE n = 3
      <3>1. Len(p) = 7 /\ p[n] = "move" /\ p[n + 1] = "stop"
        BY <2>1, <2>5
      <3> QED
        BY <1>3, <2>2, <2>5, <3>1
    <2>6. CASE n = 4
      <3>1. Len(p) = 7 /\ p[n] = "stop" /\ p[n + 1] = "arm"
        BY <2>1, <2>6
      <3> QED
        BY <1>3, <2>2, <2>6, <3>1
    <2>7. CASE n = 5
      <3>1. Len(p) = 7 /\ p[n] = "arm" /\ p[n + 1] = "read"
        BY <2>1, <2>7
      <3> QED
        BY <1>3, <2>2, <2>7, <3>1
    <2>8. CASE n = 6
      <3>1. Len(p) = 7 /\ p[n] = "read" /\ p[n + 1] = "set"
        BY <2>1, <2>8
      <3> QED
        BY <1>3, <2>2, <2>8, <3>1
    <2>9. CASE n = 7
      <3>1. Len(p) = 7 /\ p[n] = "set"
        BY <2>1, <2>9
      <3> QED
        BY <1>3, <2>2, <2>9, <3>1
    <2> QED
      BY <2>2, <2>3, <2>4, <2>5, <2>6, <2>7, <2>8, <2>9
  <1>4. CASE op = "acknowledge"
    <2> DEFINE p == Program["acknowledge"]
    <2>1. Len(p) = 3 /\ p[1] = "flag" /\ p[2] = "confirm" /\ p[3] = "stop"
      BY DEF Program, NoteSteps, IssueSteps, ConfirmSteps, WithdrawSteps, VoiceSteps
    <2> HIDE DEF p
    <2>2. p = Program[op] /\ n \in 1..3
      BY <1>4, <2>1 DEF p
    <2>3. CASE n = 1
      BY <1>4, <2>1, <2>2, <2>3
    <2>4. CASE n = 2
      BY <1>4, <2>1, <2>2, <2>4
    <2>5. CASE n = 3
      BY <1>4, <2>1, <2>2, <2>5
    <2> QED
      BY <2>2, <2>3, <2>4, <2>5
  <1>5. CASE op = "withdraw"
    <2> DEFINE p == Program["withdraw"]
    <2>1. Len(p) = 4 /\ p[1] = "stop" /\ p[2] = "read" /\ p[3] = "set" /\ p[4] = "unclear"
      BY DEF Program, NoteSteps, IssueSteps, ConfirmSteps, WithdrawSteps, VoiceSteps
    <2> HIDE DEF p
    <2>2. p = Program[op] /\ n \in 1..4
      BY <1>5, <2>1 DEF p
    <2>3. CASE n = 1
      BY <1>5, <2>1, <2>2, <2>3
    <2>4. CASE n = 2
      BY <1>5, <2>1, <2>2, <2>4
    <2>5. CASE n = 3
      BY <1>5, <2>1, <2>2, <2>5
    <2>6. CASE n = 4
      BY <1>5, <2>1, <2>2, <2>6
    <2> QED
      BY <2>2, <2>3, <2>4, <2>5, <2>6
  <1>6. CASE op = "voiceFlag"
    <2> DEFINE p == Program["voiceFlag"]
    <2>1. Len(p) = 4 /\ p[1] = "recheck" /\ p[2] = "stop" /\ p[3] = "wipe" /\ p[4] = "raise"
      BY DEF Program, NoteSteps, IssueSteps, ConfirmSteps, WithdrawSteps, VoiceSteps
    <2> HIDE DEF p
    <2>2. p = Program[op] /\ n \in 1..4
      BY <1>6, <2>1 DEF p
    <2>3. CASE n = 1
      BY <1>6, <2>1, <2>2, <2>3
    <2>4. CASE n = 2
      BY <1>6, <2>1, <2>2, <2>4
    <2>5. CASE n = 3
      BY <1>6, <2>1, <2>2, <2>5
    <2>6. CASE n = 4
      BY <1>6, <2>1, <2>2, <2>6
    <2> QED
      BY <2>2, <2>3, <2>4, <2>5, <2>6
  <1>7. CASE op = "voiceOnly"
    <2> DEFINE p == Program["voiceOnly"]
    <2>1. Len(p) = 3 /\ p[1] = "recheck" /\ p[2] = "stop" /\ p[3] = "wipe"
      BY DEF Program, NoteSteps, IssueSteps, ConfirmSteps, WithdrawSteps, VoiceSteps
    <2> HIDE DEF p
    <2>2. p = Program[op] /\ n \in 1..3
      BY <1>7, <2>1 DEF p
    <2>3. CASE n = 1
      BY <1>7, <2>1, <2>2, <2>3
    <2>4. CASE n = 2
      BY <1>7, <2>1, <2>2, <2>4
    <2>5. CASE n = 3
      BY <1>7, <2>1, <2>2, <2>5
    <2> QED
      BY <2>2, <2>3, <2>4, <2>5
  <1>8. CASE op = "raise"
    <2> DEFINE p == Program["raise"]
    <2>1. Len(p) = 1 /\ p[1] = "raise"
      BY DEF Program, NoteSteps, IssueSteps, ConfirmSteps, WithdrawSteps, VoiceSteps
    <2> HIDE DEF p
    <2>2. p = Program[op] /\ n \in 1..1
      BY <1>8, <2>1 DEF p
    <2>3. CASE n = 1
      BY <1>8, <2>1, <2>2, <2>3
    <2> QED
      BY <2>2, <2>3
  <1>9. CASE op = "lower"
    <2> DEFINE p == Program["lower"]
    <2>1. Len(p) = 1 /\ p[1] = "lower"
      BY DEF Program, NoteSteps, IssueSteps, ConfirmSteps, WithdrawSteps, VoiceSteps
    <2> HIDE DEF p
    <2>2. p = Program[op] /\ n \in 1..1
      BY <1>9, <2>1 DEF p
    <2>3. CASE n = 1
      BY <1>9, <2>1, <2>2, <2>3
    <2> QED
      BY <2>2, <2>3
  <1>10. CASE op = "voiceMove"
    <2> DEFINE p == Program["voiceMove"]
    <2>1. Len(p) = 4 /\ p[1] = "raise" /\ p[2] = "recheck" /\ p[3] = "stop" /\ p[4] = "wipe"
      BY DEF Program, NoteSteps, IssueSteps, ConfirmSteps, WithdrawSteps, VoiceSteps
    <2> HIDE DEF p
    <2>2. p = Program[op] /\ n \in 1..4
      BY <1>10, <2>1 DEF p
    <2>3. CASE n = 1
      BY <1>10, <2>1, <2>2, <2>3
    <2>4. CASE n = 2
      BY <1>10, <2>1, <2>2, <2>4
    <2>5. CASE n = 3
      BY <1>10, <2>1, <2>2, <2>5
    <2>6. CASE n = 4
      BY <1>10, <2>1, <2>2, <2>6
    <2> QED
      BY <2>2, <2>3, <2>4, <2>5, <2>6
  <1>11. CASE op = "rearm"
    <2> DEFINE p == Program["rearm"]
    <2>1. Len(p) = 3 /\ p[1] = "restore" /\ p[2] = "stop" /\ p[3] = "arm"
      BY DEF Program, NoteSteps, IssueSteps, ConfirmSteps, WithdrawSteps, VoiceSteps
    <2> HIDE DEF p
    <2>2. p = Program[op] /\ n \in 1..3
      BY <1>11, <2>1 DEF p
    <2>3. CASE n = 1
      BY <1>11, <2>1, <2>2, <2>3
    <2>4. CASE n = 2
      BY <1>11, <2>1, <2>2, <2>4
    <2>5. CASE n = 3
      BY <1>11, <2>1, <2>2, <2>5
    <2> QED
      BY <2>2, <2>3, <2>4, <2>5
  <1>12. CASE op = "webNote"
    <2> DEFINE p == Program["webNote"]
    <2>1. Len(p) = 4 /\ p[1] = "submit" /\ p[2] = "read" /\ p[3] = "set" /\ p[4] = "return"
      BY DEF Program, NoteSteps, IssueSteps, ConfirmSteps, WithdrawSteps, VoiceSteps
    <2> HIDE DEF p
    <2>2. p = Program[op] /\ n \in 1..4
      BY <1>12, <2>1 DEF p
    <2>3. CASE n = 1
      BY <1>12, <2>1, <2>2, <2>3
    <2>4. CASE n = 2
      BY <1>12, <2>1, <2>2, <2>4
    <2>5. CASE n = 3
      BY <1>12, <2>1, <2>2, <2>5
    <2>6. CASE n = 4
      BY <1>12, <2>1, <2>2, <2>6
    <2> QED
      BY <2>2, <2>3, <2>4, <2>5, <2>6
  <1>13. CASE op = "webIssue"
    <2> DEFINE p == Program["webIssue"]
    <2>1. Len(p) = 7 /\ p[1] = "submit" /\ p[2] = "read" /\ p[3] = "persist" /\ p[4] = "move" /\ p[5] = "stop" /\ p[6] = "arm" /\ p[7] = "return"
      BY DEF Program, NoteSteps, IssueSteps, ConfirmSteps, WithdrawSteps, VoiceSteps
    <2> HIDE DEF p
    <2>2. p = Program[op] /\ n \in 1..7
      BY <1>13, <2>1 DEF p
    <2>3. CASE n = 1
      <3>1. Len(p) = 7 /\ p[n] = "submit" /\ p[n + 1] = "read"
        BY <2>1, <2>3
      <3> QED
        BY <1>13, <2>2, <2>3, <3>1
    <2>4. CASE n = 2
      <3>1. Len(p) = 7 /\ p[n] = "read" /\ p[n + 1] = "persist"
        BY <2>1, <2>4
      <3> QED
        BY <1>13, <2>2, <2>4, <3>1
    <2>5. CASE n = 3
      <3>1. Len(p) = 7 /\ p[n] = "persist" /\ p[n + 1] = "move"
        BY <2>1, <2>5
      <3> QED
        BY <1>13, <2>2, <2>5, <3>1
    <2>6. CASE n = 4
      <3>1. Len(p) = 7 /\ p[n] = "move" /\ p[n + 1] = "stop"
        BY <2>1, <2>6
      <3> QED
        BY <1>13, <2>2, <2>6, <3>1
    <2>7. CASE n = 5
      <3>1. Len(p) = 7 /\ p[n] = "stop" /\ p[n + 1] = "arm"
        BY <2>1, <2>7
      <3> QED
        BY <1>13, <2>2, <2>7, <3>1
    <2>8. CASE n = 6
      <3>1. Len(p) = 7 /\ p[n] = "arm" /\ p[n + 1] = "return"
        BY <2>1, <2>8
      <3> QED
        BY <1>13, <2>2, <2>8, <3>1
    <2>9. CASE n = 7
      <3>1. Len(p) = 7 /\ p[n] = "return"
        BY <2>1, <2>9
      <3> QED
        BY <1>13, <2>2, <2>9, <3>1
    <2> QED
      BY <2>2, <2>3, <2>4, <2>5, <2>6, <2>7, <2>8, <2>9
  <1>14. CASE op = "webIssueFails"
    <2> DEFINE p == Program["webIssueFails"]
    <2>1. Len(p) = 9 /\ p[1] = "submit" /\ p[2] = "read" /\ p[3] = "persist" /\ p[4] = "move" /\ p[5] = "stop" /\ p[6] = "arm" /\ p[7] = "read" /\ p[8] = "set" /\ p[9] = "return"
      BY DEF Program, NoteSteps, IssueSteps, ConfirmSteps, WithdrawSteps, VoiceSteps
    <2> HIDE DEF p
    <2>2. p = Program[op] /\ n \in 1..9
      BY <1>14, <2>1 DEF p
    <2>3. CASE n = 1
      <3>1. Len(p) = 9 /\ p[n] = "submit" /\ p[n + 1] = "read"
        BY <2>1, <2>3
      <3> QED
        BY <1>14, <2>2, <2>3, <3>1
    <2>4. CASE n = 2
      <3>1. Len(p) = 9 /\ p[n] = "read" /\ p[n + 1] = "persist"
        BY <2>1, <2>4
      <3> QED
        BY <1>14, <2>2, <2>4, <3>1
    <2>5. CASE n = 3
      <3>1. Len(p) = 9 /\ p[n] = "persist" /\ p[n + 1] = "move"
        BY <2>1, <2>5
      <3> QED
        BY <1>14, <2>2, <2>5, <3>1
    <2>6. CASE n = 4
      <3>1. Len(p) = 9 /\ p[n] = "move" /\ p[n + 1] = "stop"
        BY <2>1, <2>6
      <3> QED
        BY <1>14, <2>2, <2>6, <3>1
    <2>7. CASE n = 5
      <3>1. Len(p) = 9 /\ p[n] = "stop" /\ p[n + 1] = "arm"
        BY <2>1, <2>7
      <3> QED
        BY <1>14, <2>2, <2>7, <3>1
    <2>8. CASE n = 6
      <3>1. Len(p) = 9 /\ p[n] = "arm" /\ p[n + 1] = "read"
        BY <2>1, <2>8
      <3> QED
        BY <1>14, <2>2, <2>8, <3>1
    <2>9. CASE n = 7
      <3>1. Len(p) = 9 /\ p[n] = "read" /\ p[n + 1] = "set"
        BY <2>1, <2>9
      <3> QED
        BY <1>14, <2>2, <2>9, <3>1
    <2>10. CASE n = 8
      <3>1. Len(p) = 9 /\ p[n] = "set" /\ p[n + 1] = "return"
        BY <2>1, <2>10
      <3> QED
        BY <1>14, <2>2, <2>10, <3>1
    <2>11. CASE n = 9
      <3>1. Len(p) = 9 /\ p[n] = "return"
        BY <2>1, <2>11
      <3> QED
        BY <1>14, <2>2, <2>11, <3>1
    <2> QED
      BY <2>2, <2>3, <2>4, <2>5, <2>6, <2>7, <2>8, <2>9, <2>10, <2>11
  <1>15. CASE op = "webAcknowledge"
    <2> DEFINE p == Program["webAcknowledge"]
    <2>1. Len(p) = 4 /\ p[1] = "flag" /\ p[2] = "confirm" /\ p[3] = "stop" /\ p[4] = "return"
      BY DEF Program, NoteSteps, IssueSteps, ConfirmSteps, WithdrawSteps, VoiceSteps
    <2> HIDE DEF p
    <2>2. p = Program[op] /\ n \in 1..4
      BY <1>15, <2>1 DEF p
    <2>3. CASE n = 1
      BY <1>15, <2>1, <2>2, <2>3
    <2>4. CASE n = 2
      BY <1>15, <2>1, <2>2, <2>4
    <2>5. CASE n = 3
      BY <1>15, <2>1, <2>2, <2>5
    <2>6. CASE n = 4
      BY <1>15, <2>1, <2>2, <2>6
    <2> QED
      BY <2>2, <2>3, <2>4, <2>5, <2>6
  <1>16. CASE op = "sync"
    <2> DEFINE p == Program["sync"]
    <2>1. Len(p) = 1 /\ p[1] = "sync"
      BY DEF Program
    <2> HIDE DEF p
    <2>2. p = Program[op] /\ n \in 1..1
      BY <1>16, <2>1 DEF p
    <2>3. CASE n = 1
      BY <1>16, <2>1, <2>2, <2>3
    <2> QED
      BY <2>2, <2>3
  <1>17. CASE op = "review"
    <2> DEFINE p == Program["review"]
    <2>1. Len(p) = 1 /\ p[1] = "review"
      BY DEF Program
    <2> HIDE DEF p
    <2>2. p = Program[op] /\ n \in 1..1
      BY <1>17, <2>1 DEF p
    <2>3. CASE n = 1
      BY <1>17, <2>1, <2>2, <2>3
    <2> QED
      BY <2>2, <2>3
  <1> QED
    BY OpsAre, <1>1, <1>2, <1>3, <1>4, <1>5, <1>6, <1>7, <1>8, <1>9, <1>10, <1>11, <1>12, <1>13, <1>14,
       <1>15, <1>16, <1>17

-----------------------------------------------------------------------------
(* What the helpers do to a call *)

\* Members of the record sets, and values that belong to them.
LEMMA Values ==
    /\ NoData \in PdcData /\ NoData.seq = NoSeq /\ NoData.web = FALSE /\ NoData.state = "NONE"
    /\ Idle \in Calls /\ Idle.op = "idle" /\ Idle.state = "NONE" /\ Idle.at = 1
    /\ NoWorker \in WorkerData /\ NoWorker.pc = "none" /\ NoWorker.live = FALSE
    /\ Poll \in Actors /\ Poll \notin Requests /\ "idle" \notin Ops
    /\ \A r \in Requests : r \in Actors
    /\ \A d \in Desks : d \in Actors /\ d \notin Requests
  <1>1. NoData \in PdcData /\ NoData.seq = NoSeq /\ NoData.web = FALSE /\ NoData.state = "NONE"
    BY DEF NoData, PdcData, States, NoSeq
  <1>2. Idle \in Calls /\ Idle.op = "idle" /\ Idle.state = "NONE" /\ Idle.at = 1
    BY <1>1 DEF Idle, Calls, NoSeq, States, Bays
  <1>3. NoWorker \in WorkerData /\ NoWorker.pc = "none" /\ NoWorker.live = FALSE
    BY <1>1 DEF NoWorker, WorkerData, WorkerPC, Actors, NoSeq
  <1> QED
    BY <1>1, <1>2, <1>3, OpsAre, PDCAssumption DEF Actors

\* The goroutine goes on to its next statement, or returns.
LEMMA AdvanceCall ==
    ASSUME TypeOK, Carried, NEW a \in Actors, InCall(a), NEW d \in PdcData, Advance(a, d)
    PROVE  /\ call' \in [Actors -> Calls] /\ Carried'
           /\ \A b \in Actors \ {a} : call'[b] = call[b]
           /\ \/ call'[a] = Idle /\ call[a].at = Len(Program[call[a].op])
              \/ /\ call[a].at # Len(Program[call[a].op])
                 /\ call'[a].op = call[a].op /\ call'[a].at = call[a].at + 1 /\ call'[a].data = d
                 /\ call'[a].seq = call[a].seq /\ call'[a].state = call[a].state
                 /\ InCall(a)'
  <1>1. /\ call \in [Actors -> Calls] /\ call[a] \in Calls /\ call[a].op \in Ops
        /\ call[a].at \in 1..Len(Program[call[a].op])
    BY DEF TypeOK, Carried, Calls, InCall, Ops
  <1>2. Len(Program[call[a].op]) \in Nat
    BY <1>1, ProgramFacts
  <1>3. CASE call[a].at < Len(Program[call[a].op])
    <2> DEFINE k == call[a].at + 1
               next == [call[a] EXCEPT !.at = k, !.data = d]
    <2>1. call' = [call EXCEPT ![a] = next]
      BY <1>3 DEF Advance
    <2>0. k \in Nat /\ k = call[a].at + 1
      BY <1>1, <1>2
    <2> HIDE DEF k
    <2>2. /\ next \in Calls /\ next.op = call[a].op /\ next.at = k
          /\ next.data = d /\ next.seq = call[a].seq /\ next.state = call[a].state
      BY <1>1, <2>0 DEF Calls
    <2> HIDE DEF next
    <2>3. call'[a] = next /\ \A b \in Actors \ {a} : call'[b] = call[b]
      BY <2>1, <1>1
    <2>4. call' \in [Actors -> Calls]
      BY <2>1, <2>2, <1>1
    <2>5. Carried'
      BY <1>1, <1>2, <1>3, <2>0, <2>2, <2>3 DEF Carried, InCall
    <2> QED
      BY <1>1, <1>2, <1>3, <2>0, <2>2, <2>3, <2>4, <2>5 DEF InCall
  <1>4. CASE ~(call[a].at < Len(Program[call[a].op]))
    <2>1. call' = [call EXCEPT ![a] = Idle]
      BY <1>4 DEF Advance
    <2>2. call'[a] = Idle /\ call' \in [Actors -> Calls] /\ \A b \in Actors \ {a} : call'[b] = call[b]
      BY <1>1, <2>1, Values
    <2>3. Carried'
      BY <2>2, Values DEF Carried, InCall, IssueOps, WebOps, SubmitOps
    <2> QED
      BY <1>1, <1>2, <1>4, <2>2, <2>3
  <1> QED
    BY <1>3, <1>4

\* The browser's handler is left with its return, any other call ends.
LEMMA AbortCall ==
    ASSUME TypeOK, Carried, NEW a \in Actors, InCall(a), Abort(a)
    PROVE  /\ call' \in [Actors -> Calls] /\ Carried'
           /\ \A b \in Actors \ {a} : call'[b] = call[b]
           /\ \/ call'[a] = Idle
              \/ /\ call'[a].op = call[a].op /\ call'[a].at = Len(Program[call[a].op])
                 /\ call'[a].data = call[a].data /\ StepOf(a)' = "return"
                 /\ call[a].op \in WebOps
  <1>1. /\ call \in [Actors -> Calls] /\ call[a] \in Calls /\ call[a].op \in Ops
        /\ call[a].at \in 1..Len(Program[call[a].op])
    BY DEF TypeOK, Carried, Calls, InCall, Ops
  <1>2. Len(Program[call[a].op]) \in Nat \ {0}
    BY <1>1, ProgramFacts
  <1>3. CASE a \in Requests
    <2> DEFINE next == [call[a] EXCEPT !.at = Len(Program[call[a].op])]
    <2>1. call' = [call EXCEPT ![a] = next]
      BY <1>3 DEF Abort
    <2>2. /\ next \in Calls /\ next.op = call[a].op /\ next.at = Len(Program[call[a].op])
          /\ next.data = call[a].data /\ next.seq = call[a].seq /\ next.state = call[a].state
      BY <1>1, <1>2 DEF Calls
    <2> HIDE DEF next
    <2>3. call'[a] = next /\ \A b \in Actors \ {a} : call'[b] = call[b]
      BY <2>1, <1>1
    <2>4. call' \in [Actors -> Calls]
      BY <2>1, <2>2, <1>1
    <2>5. Carried'
      BY <1>1, <1>2, <1>3, <2>2, <2>3 DEF Carried, InCall
    <2>6. call[a].op \in WebOps
      BY <1>3 DEF Carried, InCall
    <2>7. Program[call[a].op][Len(Program[call[a].op])] = "return"
      BY <1>1, <1>2, <2>6, ProgramFacts DEF Facts, WebOps
    <2> QED
      BY <2>2, <2>3, <2>4, <2>5, <2>6, <2>7 DEF StepOf
  <1>4. CASE a \notin Requests
    <2>1. call' = [call EXCEPT ![a] = Idle]
      BY <1>4 DEF Abort
    <2>2. call'[a] = Idle /\ call' \in [Actors -> Calls] /\ \A b \in Actors \ {a} : call'[b] = call[b]
      BY <1>1, <2>1, Values
    <2>3. Carried'
      BY <2>2, Values DEF Carried, InCall, IssueOps, WebOps, SubmitOps
    <2> QED
      BY <2>2, <2>3
  <1> QED
    BY <1>3, <1>4

\* A call starts with the row it read.
LEMMA EnterNew ==
    ASSUME TypeOK, Carried, NEW a \in Actors, NEW op \in Ops, NEW n \in Nat, NEW st \in States,
           st \notin {"CLEARED", "CONFIRMED"}, op \in IssueOps => n # NoSeq,
           a \in Requests <=> op \in WebOps,
           Enter(a, op, n, st)
    PROVE  /\ call' \in [Actors -> Calls] /\ Carried'
           /\ \A b \in Actors \ {a} : call'[b] = call[b]
           /\ call'[a].op = op /\ call'[a].at = 1 /\ call'[a].data = pdc
           /\ call'[a].seq = n /\ call'[a].state = st /\ InCall(a)'
           /\ call'[a].cleared = cleared /\ call'[a].bay = bay
  <1> DEFINE next == [op |-> op, at |-> 1, data |-> pdc, cleared |-> cleared, bay |-> bay,
                      seq |-> n, state |-> st]
  <1>1. call' = [call EXCEPT ![a] = next]
    BY DEF Enter
  <1>2. next \in Calls
    BY DEF TypeOK, Calls, Ops
  <1>3. /\ next.op = op /\ next.at = 1 /\ next.data = pdc /\ next.seq = n /\ next.state = st
        /\ next.cleared = cleared /\ next.bay = bay
    OBVIOUS
  <1> HIDE DEF next
  <1>4. call'[a] = next /\ call' \in [Actors -> Calls] /\ \A b \in Actors \ {a} : call'[b] = call[b]
    BY <1>1, <1>2 DEF TypeOK
  <1>5. op # "idle"
    BY Values
  <1>6. Len(Program[op]) \in Nat \ {0}
    BY ProgramLengths
  <1>7. 1 \in 1..Len(Program[op])
    BY <1>6
  <1>8. Carried'
    BY <1>3, <1>4, <1>5, <1>7 DEF Carried, InCall
  <1> QED
    BY <1>3, <1>4, <1>5, <1>8 DEF InCall

\* The goroutine returns at once.
LEMMA ReturnIdle ==
    ASSUME TypeOK, Carried, NEW a \in Actors, call' = [call EXCEPT ![a] = Idle]
    PROVE  /\ call' \in [Actors -> Calls] /\ Carried' /\ call'[a] = Idle /\ ~InCall(a)'
           /\ \A b \in Actors \ {a} : call'[b] = call[b]
  <1>1. call'[a] = Idle /\ call' \in [Actors -> Calls] /\ \A b \in Actors \ {a} : call'[b] = call[b]
    BY Values DEF TypeOK
  <1> QED
    BY <1>1, Values DEF Carried, InCall, IssueOps, WebOps, SubmitOps

-----------------------------------------------------------------------------
(* Any interleaving *)

Base ==
    /\ TypeOK /\ Carried /\ CopiesAcknowledged
    /\ ConfirmedWasAcknowledged /\ RemovedSessionQuiet

\* How a call may begin: with which program, on which row.
Entry(a, op, n, st) ==
    /\ Enter(a, op, n, st) /\ MayEnter(a)
    /\ UNCHANGED <<row, timers, world>>
    /\ lastSeq' \in 0..MaxSeq /\ acked \subseteq acked' /\ acked' \subseteq Nat
    /\ st \notin {"CLEARED", "CONFIRMED"}
    /\ op \in IssueOps => n # NoSeq
    /\ a \in Requests <=> op \in WebOps
    /\ op \in AckOps => pdc.seq \in acked' \cup {NoSeq}
    /\ op # "rearm"
    /\ st \in Withdrawn <=> op = "withdraw"
    /\ op \in {"raise", "webAcknowledge"} => pdc.state \notin Withdrawn

\* Every entry is one of these.
LEMMA Entries ==
    ASSUME TypeOK, EnterCall
    PROVE  \E a \in Actors, op \in Ops, n \in Nat, st \in States : Entry(a, op, n, st)
  <1>0. /\ lastSeq \in 0..MaxSeq /\ acked \subseteq Nat /\ MaxSeq \in Nat /\ pdc \in PdcData
        /\ "NONE" \in States /\ "REQUESTED" \in States /\ "REQUESTED" \notin Withdrawn /\ "REQUESTED_WITH_FAULTS" \notin Withdrawn
        /\ "REQUESTED_WITH_FAULTS" \in States
        /\ Withdrawn \subseteq States /\ "CLEARED" \notin Withdrawn /\ "CONFIRMED" \notin Withdrawn
        /\ "NONE" \notin Withdrawn /\ NoSeq \in Nat /\ lastSeq + 1 \in Nat /\ lastSeq + 1 # NoSeq
        /\ "FAILED" \in Withdrawn /\ "REVERT_TO_VOICE" \in Withdrawn
    BY PDCAssumption DEF TypeOK, States, Withdrawn, NoSeq
  <1>1. CASE RequestNoted
    <2>1. PICK st \in {"REQUESTED", "REQUESTED_WITH_FAULTS"} : Enter(Poll, "note", NoSeq, st)
      BY <1>1 DEF RequestNoted
    <2>2. Entry(Poll, "note", NoSeq, st)
      BY <1>0, <1>1, <2>1, Values DEF RequestNoted, Entry, IssueOps, AckOps, WebOps, SubmitOps
    <2> QED
      BY <1>0, <2>2, OpsAre, Values
  <1>2. CASE RequestIssued
    <2>1. PICK op \in {"issue", "issueFails", "note"} : Enter(Poll, op, lastSeq + 1, "REQUESTED_WITH_FAULTS")
      BY <1>2 DEF RequestIssued
    <2>2. Entry(Poll, op, lastSeq + 1, "REQUESTED_WITH_FAULTS")
      BY <1>0, <1>2, <2>1, Values DEF RequestIssued, Entry, IssueOps, AckOps, WebOps, SubmitOps
    <2> QED
      BY <1>0, <2>2, OpsAre, Values
  <1>3. CASE Unable
    <2>2. Entry(Poll, "withdraw", NoSeq, "FAILED")
      BY <1>0, <1>3, Values DEF Unable, Entry, IssueOps, AckOps, WebOps, SubmitOps
    <2> QED
      BY <1>0, <2>2, OpsAre, Values
  <1>4. ASSUME NEW n \in 0..lastSeq, Wilco(n)
        PROVE  \E a \in Actors, op \in Ops, m \in Nat, st \in States : Entry(a, op, m, st)
    <2>2. Entry(Poll, "acknowledge", NoSeq, "NONE")
      BY <1>0, <1>4, Values DEF Wilco, Entry, IssueOps, AckOps, WebOps, SubmitOps
    <2> QED
      BY <1>0, <2>2, OpsAre, Values
  <1>5. ASSUME NEW d \in Desks, DeskIssues(d)
        PROVE  \E a \in Actors, op \in Ops, n \in Nat, st \in States : Entry(a, op, n, st)
    <2>2. Entry(d, "issue", lastSeq + 1, "NONE")
      BY <1>0, <1>5, Values DEF DeskIssues, Entry, IssueOps, AckOps, WebOps, SubmitOps
    <2> QED
      BY <1>0, <2>2, OpsAre, Values
  <1>6. ASSUME NEW d \in Desks, DeskReverts(d)
        PROVE  \E a \in Actors, op \in Ops, n \in Nat, st \in States : Entry(a, op, n, st)
    <2>2. Entry(d, "withdraw", NoSeq, "REVERT_TO_VOICE")
      BY <1>0, <1>6, Values DEF DeskReverts, Entry, IssueOps, AckOps, WebOps, SubmitOps
    <2> QED
      BY <1>0, <2>2, OpsAre, Values
  <1>7. ASSUME NEW d \in Desks, DeskMovesToCleared(d)
        PROVE  \E a \in Actors, op \in Ops, n \in Nat, st \in States : Entry(a, op, n, st)
    <2>1. CASE pdc.state = "NONE"
      <3>1. Entry(d, "raise", NoSeq, "NONE")
        BY <1>0, <1>7, <2>1, Values DEF DeskMovesToCleared, Entry, IssueOps, AckOps, WebOps, SubmitOps
      <3> QED
        BY <1>0, <3>1, OpsAre, Values
    <2>2. CASE pdc.state # "NONE"
      <3>1. Entry(d, "voiceMove", NoSeq, "NONE")
        BY <1>0, <1>7, <2>2, Values DEF DeskMovesToCleared, Entry, IssueOps, AckOps, WebOps, SubmitOps
      <3> QED
        BY <1>0, <3>1, OpsAre, Values
    <2> QED
      BY <2>1, <2>2
  <1>8. ASSUME NEW d \in Desks, NEW flag \in BOOLEAN, FlagReported(d, flag)
        PROVE  \E a \in Actors, op \in Ops, n \in Nat, st \in States : Entry(a, op, n, st)
    <2>1. PICK op \in {"voiceFlag", "voiceOnly", "raise", "lower"} :
             /\ Enter(d, op, NoSeq, "NONE")
             /\ op = "raise" => pdc.state \in {"NONE", "CONFIRMED"}
      BY <1>8 DEF FlagReported
    <2>2. Entry(d, op, NoSeq, "NONE")
      BY <1>0, <1>8, <2>1, Values DEF FlagReported, Entry, IssueOps, AckOps, WebOps, SubmitOps
    <2> QED
      BY <1>0, <2>2, OpsAre, Values
  <1>9. ASSUME NEW r \in Requests, WebSubmits(r)
        PROVE  \E a \in Actors, op \in Ops, n \in Nat, st \in States : Entry(a, op, n, st)
    <2>1. CASE \E st \in {"REQUESTED", "REQUESTED_WITH_FAULTS"} : Enter(r, "webNote", NoSeq, st) /\ lastSeq' = lastSeq
      <3>1. PICK st \in {"REQUESTED", "REQUESTED_WITH_FAULTS"} : Enter(r, "webNote", NoSeq, st) /\ lastSeq' = lastSeq
        BY <2>1
      <3>2. Entry(r, "webNote", NoSeq, st)
        BY <1>0, <1>9, <3>1, Values DEF WebSubmits, Entry, IssueOps, AckOps, WebOps, SubmitOps
      <3> QED
        BY <1>0, <3>2, OpsAre, Values
    <2>2. CASE /\ lastSeq < MaxSeq /\ lastSeq' = lastSeq + 1
               /\ \E op \in {"webIssue", "webIssueFails", "webNote"} :
                     Enter(r, op, lastSeq + 1, "REQUESTED_WITH_FAULTS")
      <3>1. PICK op \in {"webIssue", "webIssueFails", "webNote"} :
               Enter(r, op, lastSeq + 1, "REQUESTED_WITH_FAULTS")
        BY <2>2
      <3>2. Entry(r, op, lastSeq + 1, "REQUESTED_WITH_FAULTS")
        BY <1>0, <1>9, <2>2, <3>1, Values DEF WebSubmits, Entry, IssueOps, AckOps, WebOps, SubmitOps
      <3> QED
        BY <1>0, <3>2, OpsAre, Values
    <2> QED
      BY <1>9, <2>1, <2>2 DEF WebSubmits
  <1>10. ASSUME NEW r \in Requests, WebAcknowledges(r)
         PROVE  \E a \in Actors, op \in Ops, n \in Nat, st \in States : Entry(a, op, n, st)
    <2>1. acked \subseteq acked' /\ acked' \subseteq Nat /\ pdc.seq \in acked' \cup {NoSeq}
          /\ pdc.state \notin Withdrawn
      BY <1>0, <1>10 DEF WebAcknowledges, PdcData, Withdrawn
    <2>2. Entry(r, "webAcknowledge", NoSeq, "NONE")
      BY <1>0, <1>10, <2>1, Values DEF WebAcknowledges, Entry, IssueOps, AckOps, WebOps, SubmitOps
    <2> QED
      BY <1>0, <2>2, OpsAre, Values
  <1>11. ASSUME NEW d \in Desks, StripReported(d)
         PROVE  \E a \in Actors, op \in Ops, n \in Nat, st \in States : Entry(a, op, n, st)
    <2>2. Entry(d, "sync", NoSeq, "NONE")
      BY <1>0, <1>11, Values DEF StripReported, Entry, IssueOps, AckOps, WebOps, SubmitOps
    <2> QED
      BY <1>0, <2>2, OpsAre, Values
  <1>12. ASSUME NEW d \in {Poll} \cup Desks, RouteReviewed(d)
         PROVE  \E a \in Actors, op \in Ops, n \in Nat, st \in States : Entry(a, op, n, st)
    <2>1. d \in Actors /\ d \notin Requests
      BY Values
    <2>2. Entry(d, "review", NoSeq, "NONE")
      BY <1>0, <1>12, <2>1 DEF RouteReviewed, Entry, IssueOps, AckOps, WebOps, SubmitOps
    <2> QED
      BY <1>0, <2>1, <2>2, OpsAre
  <1> QED
    BY <1>1, <1>2, <1>3, <1>4, <1>5, <1>6, <1>7, <1>8, <1>9, <1>10, <1>11, <1>12 DEF EnterCall

\* An entry keeps the base invariant.
LEMMA EntryBase ==
    ASSUME Base, NEW a \in Actors, NEW op \in Ops, NEW n \in Nat, NEW st \in States,
           Entry(a, op, n, st)
    PROVE  Base'
  <1>1. /\ TypeOK /\ Carried /\ CopiesAcknowledged
        /\ UNCHANGED <<pdc, cleared, bay, tracker, worker, removed, up, crashes, shown>>
        /\ lastSeq' \in 0..MaxSeq /\ acked \subseteq acked' /\ acked' \subseteq Nat
    BY DEF Base, Entry, row, timers, world
  <1>2. /\ call' \in [Actors -> Calls] /\ Carried'
        /\ \A b \in Actors \ {a} : call'[b] = call[b]
        /\ call'[a].op = op /\ call'[a].data = pdc
    BY <1>1, EnterNew DEF Entry
  <1>3. TypeOK'
    BY <1>1, <1>2 DEF TypeOK
  <1>4. CopiesAcknowledged'
    BY <1>1, <1>2 DEF CopiesAcknowledged, Entry, Base, ConfirmedWasAcknowledged, AckOps, RowOps
  <1> QED
    BY <1>1, <1>2, <1>3, <1>4 DEF Base, ConfirmedWasAcknowledged, RemovedSessionQuiet

\* A goroutine's step from step to step: its copy of an acknowledged row stays
\* one, or is dropped.
LEMMA AdvanceBase ==
    ASSUME Base, NEW a \in Actors, InCall(a), NEW d \in PdcData, Advance(a, d), acked' = acked,
           call[a].op \in AckOps => d.seq \in acked \cup {NoSeq},
           call[a].op \in RowOps => d.seq = NoSeq
    PROVE  call' \in [Actors -> Calls] /\ Carried' /\ CopiesAcknowledged'
  <1>1. /\ call' \in [Actors -> Calls] /\ Carried'
        /\ \A b \in Actors \ {a} : call'[b] = call[b]
        /\ \/ call'[a] = Idle
           \/ call'[a].op = call[a].op /\ call'[a].data = d
    BY AdvanceCall DEF Base
  <1>2. CopiesAcknowledged'
    BY <1>1, Values DEF Base, CopiesAcknowledged, AckOps, RowOps
  <1> QED
    BY <1>1, <1>2

\* An error return keeps the copies.
LEMMA AbortBase ==
    ASSUME Base, NEW a \in Actors, InCall(a), Abort(a), acked' = acked
    PROVE  call' \in [Actors -> Calls] /\ Carried' /\ CopiesAcknowledged'
  <1>1. /\ call' \in [Actors -> Calls] /\ Carried'
        /\ \A b \in Actors \ {a} : call'[b] = call[b]
        /\ \/ call'[a] = Idle
           \/ call'[a].op = call[a].op /\ call'[a].data = call[a].data
    BY AbortCall DEF Base
  <1>2. CopiesAcknowledged'
    BY <1>1, Values DEF Base, CopiesAcknowledged, AckOps, RowOps
  <1> QED
    BY <1>1, <1>2

\* What a goroutine in a call is at.
LEMMA InProgram ==
    ASSUME TypeOK, Carried, NEW a \in Actors, InCall(a)
    PROVE  /\ call[a] \in Calls /\ call[a].op \in Ops /\ call[a].data \in PdcData
           /\ call[a].at \in 1..Len(Program[call[a].op])
           /\ Facts(call[a].op, call[a].at)
  <1>1. /\ call[a] \in Calls /\ call[a].op \in Ops /\ call[a].data \in PdcData
        /\ call[a].at \in 1..Len(Program[call[a].op])
    BY DEF TypeOK, Carried, Calls, InCall, Ops
  <1> QED
    BY <1>1, ProgramFacts

\* Cancelling touches only whether a goroutine's context is live.
LEMMA CancelledWorkers ==
    ASSUME TypeOK, worker' = Cancelled(tracker)
    PROVE  /\ worker' \in [Timers -> WorkerData]
           /\ \A w \in Timers : /\ worker'[w].pc = worker[w].pc /\ worker'[w].by = worker[w].by
                                /\ worker'[w].data = worker[w].data /\ worker'[w].seq = worker[w].seq
                                /\ worker'[w].live => worker[w].live /\ w # tracker
                                /\ w # tracker => worker'[w] = worker[w]
  <1>1. worker \in [Timers -> WorkerData] /\ tracker \in Timers \cup {NoTimer}
    BY DEF TypeOK, WorkerData
  <1>2. NoTimer \notin Timers
    BY PDCAssumption DEF NoTimer, Timers
  <1>3. CASE tracker = NoTimer
    BY <1>1, <1>2, <1>3 DEF Cancelled
  <1>4. CASE tracker # NoTimer
    <2>1. worker' = [worker EXCEPT ![tracker].live = FALSE] /\ tracker \in Timers
      BY <1>1, <1>4 DEF Cancelled
    <2> DEFINE x == [worker[tracker] EXCEPT !.live = FALSE]
    <2>2. worker' = [worker EXCEPT ![tracker] = x]
      BY <2>1, <1>1
    <2>3. /\ x \in WorkerData /\ x.live = FALSE /\ x.pc = worker[tracker].pc /\ x.by = worker[tracker].by
          /\ x.data = worker[tracker].data /\ x.seq = worker[tracker].seq
      BY <1>1, <2>1 DEF WorkerData
    <2> HIDE DEF x
    <2> QED
      BY <1>1, <2>1, <2>2, <2>3
  <1> QED
    BY <1>3, <1>4

\* A goroutine is started in a free slot.
LEMMA StartedWorker ==
    ASSUME TypeOK, NEW a \in Actors, InCall(a), NEW w \in Timers, StartWorker(w, a)
    PROVE  /\ worker' \in [Timers -> WorkerData] /\ tracker' = w
           /\ \A v \in Timers \ {w} : worker'[v] = worker[v]
           /\ worker'[w].pc = "new" /\ worker'[w].live /\ worker'[w].by = a
           /\ worker'[w].seq = call[a].seq /\ worker[w].pc = "none"
  <1> DEFINE x == [pc |-> "new", live |-> TRUE, by |-> a, seq |-> call[a].seq, data |-> NoData]
  <1>1. worker' = [worker EXCEPT ![w] = x] /\ tracker' = w /\ worker[w] = NoWorker
    BY DEF StartWorker
  <1>2. x \in WorkerData
    BY Values DEF TypeOK, Calls, WorkerData, WorkerPC
  <1>3. x.pc = "new" /\ x.live /\ x.by = a /\ x.seq = call[a].seq
    OBVIOUS
  <1> HIDE DEF x
  <1> QED
    BY <1>1, <1>2, <1>3, Values DEF TypeOK, WorkerData

\* A goroutine goes on.
LEMMA GotoWorker ==
    ASSUME TypeOK, NEW w \in Timers, NEW pc \in WorkerPC, NEW d \in PdcData, Goto(w, pc, d)
    PROVE  /\ worker' \in [Timers -> WorkerData]
           /\ \A v \in Timers \ {w} : worker'[v] = worker[v]
           /\ worker'[w].pc = pc /\ worker'[w].data = d
           /\ worker'[w].live = worker[w].live /\ worker'[w].by = worker[w].by
           /\ worker'[w].seq = worker[w].seq
  <1>1. worker \in [Timers -> WorkerData]
    BY DEF TypeOK, WorkerData
  <1> DEFINE x == [worker[w] EXCEPT !.pc = pc, !.data = d]
  <1>2. worker' = [worker EXCEPT ![w] = x]
    BY <1>1 DEF Goto
  <1>3. /\ x \in WorkerData /\ x.pc = pc /\ x.data = d /\ x.live = worker[w].live
        /\ x.by = worker[w].by /\ x.seq = worker[w].seq
    BY <1>1 DEF WorkerData
  <1> HIDE DEF x
  <1> QED
    BY <1>1, <1>2, <1>3

\* A goroutine ends.
LEMMA ExitWorker ==
    ASSUME TypeOK, NEW w \in Timers, Exit(w)
    PROVE  /\ worker' \in [Timers -> WorkerData] /\ worker'[w] = NoWorker
           /\ \A v \in Timers \ {w} : worker'[v] = worker[v]
  BY Values DEF TypeOK, WorkerData, Exit

\* ConfirmVoiceClearance returns and the flag is raised next.
RaisesInstead(a) == call' = [call EXCEPT ![a] = [call[a] EXCEPT !.op = "raise", !.at = 1]]

\* What that does to the call.
LEMMA RaisedInstead ==
    ASSUME TypeOK, Carried, NEW a \in Actors, call[a].op = "voiceFlag", RaisesInstead(a)
    PROVE  /\ call' \in [Actors -> Calls] /\ Carried'
           /\ \A b \in Actors \ {a} : call'[b] = call[b]
           /\ call'[a].op = "raise" /\ call'[a].at = 1 /\ StepOf(a)' = "raise" /\ InCall(a)'
  <1> DEFINE next == [call[a] EXCEPT !.op = "raise", !.at = 1]
  <1>1. call \in [Actors -> Calls] /\ call' = [call EXCEPT ![a] = next] /\ "raise" \in DOMAIN Program
    BY OpsAre DEF TypeOK, RaisesInstead, Ops
  <1>2. next \in Calls /\ next.op = "raise" /\ next.at = 1 /\ next.state = call[a].state /\ next.seq = call[a].seq
    BY <1>1 DEF Calls
  <1> HIDE DEF next
  <1>3. call'[a] = next /\ call' \in [Actors -> Calls] /\ \A b \in Actors \ {a} : call'[b] = call[b]
    BY <1>1, <1>2
  <1>4. Len(Program["raise"]) = 1 /\ Program["raise"][1] = "raise"
    BY DEF Program
  <1>5. a \notin Requests
    BY DEF Carried, WebOps, SubmitOps
  <1>6. Carried'
    BY <1>2, <1>3, <1>4, <1>5 DEF Carried, InCall, IssueOps, WebOps, SubmitOps
  <1> QED
    BY <1>2, <1>3, <1>4, <1>6 DEF StepOf, InCall

\* restorePendingTimeouts: on with the row's number, or nothing to restore.
LEMMA RestoredCall ==
    ASSUME TypeOK, Carried, Restore
    PROVE  /\ call' \in [Actors -> Calls] /\ Carried' /\ InCall(Poll) /\ StepOf(Poll) = "restore"
           /\ call[Poll].op = "rearm"
           /\ \A b \in Actors \ {Poll} : call'[b] = call[b]
           /\ \/ call'[Poll] = Idle /\ ~(pdc.state = "CLEARED" /\ pdc.seq # NoSeq)
              \/ /\ call'[Poll].op = "rearm" /\ StepOf(Poll)' = "stop" /\ call'[Poll].seq = pdc.seq
                 /\ InCall(Poll)'
  <1>1. InCall(Poll) /\ StepOf(Poll) = "restore"
    BY DEF Restore, At, StepOf
  <1>2. /\ call[Poll] \in Calls /\ call[Poll].op \in Ops
        /\ Facts(call[Poll].op, call[Poll].at)
    BY <1>1, InProgram, Values
  <1>3. call[Poll].op = "rearm" /\ Len(Program["rearm"]) = 3 /\ Program["rearm"][2] = "stop"
    BY <1>1, <1>2 DEF Facts, StepOf
  <1>4. CASE pdc.state = "CLEARED" /\ pdc.seq # NoSeq
    <2> DEFINE next == [call[Poll] EXCEPT !.at = 2, !.seq = pdc.seq]
    <2>1. call' = [call EXCEPT ![Poll] = next]
      BY <1>4 DEF Restore
    <2>2. next \in Calls /\ next.op = "rearm" /\ next.at = 2 /\ next.seq = pdc.seq /\ next.state = call[Poll].state
      BY <1>2, <1>3 DEF Calls, TypeOK, PdcData
    <2> HIDE DEF next
    <2>3. call'[Poll] = next /\ call' \in [Actors -> Calls] /\ \A b \in Actors \ {Poll} : call'[b] = call[b]
      BY <2>1, <2>2, Values DEF TypeOK
    <2>4. Carried'
      BY <1>3, <2>2, <2>3, Values DEF Carried, InCall, IssueOps, WebOps, SubmitOps
    <2> QED
      BY <1>1, <1>3, <2>2, <2>3, <2>4 DEF StepOf, InCall
  <1>5. CASE ~(pdc.state = "CLEARED" /\ pdc.seq # NoSeq)
    <2>1. call' = [call EXCEPT ![Poll] = Idle]
      BY <1>5 DEF Restore
    <2> QED
      BY <1>1, <1>3, <1>5, <2>1, ReturnIdle, Values
  <1> QED
    BY <1>4, <1>5

\* The HTTP server cancels what the request started.
LEMMA ReturnedWorkers ==
    ASSUME TypeOK, NEW r \in Actors, Return(r)
    PROVE  /\ worker' \in [Timers -> WorkerData]
           /\ \A w \in Timers : /\ worker'[w].pc = worker[w].pc /\ worker'[w].by = worker[w].by
                                /\ worker'[w].data = worker[w].data /\ worker'[w].seq = worker[w].seq
                                /\ worker'[w].live => worker[w].live
                                /\ worker[w].by # r => worker'[w] = worker[w]
  <1>1. worker \in [Timers -> WorkerData]
    BY DEF TypeOK, WorkerData
  <1> DEFINE x(w) == [worker[w] EXCEPT !.live = FALSE]
  <1>2. \A w \in Timers : /\ x(w) \in WorkerData /\ x(w).pc = worker[w].pc /\ x(w).by = worker[w].by
                          /\ x(w).data = worker[w].data /\ x(w).seq = worker[w].seq /\ x(w).live = FALSE
    BY <1>1 DEF WorkerData
  <1>3. worker' = [w \in Timers |-> IF worker[w].by = r THEN x(w) ELSE worker[w]]
    BY DEF Return
  <1> HIDE DEF x
  <1> QED
    BY <1>1, <1>2, <1>3

\* A statement of a call keeps the base invariant: only an acknowledgement
\* writes CONFIRMED, and what it writes was acknowledged.
LEMMA StepBase ==
    ASSUME Base, NEW a \in Actors, StepCall(a)
    PROVE  Base'
  <1>0. TypeOK /\ Carried /\ CopiesAcknowledged /\ ConfirmedWasAcknowledged /\ RemovedSessionQuiet
    BY DEF Base
  <1>u. /\ pdc \in PdcData /\ worker \in [Timers -> WorkerData] /\ tracker \in Timers \cup {NoTimer}
        /\ cleared \in BOOLEAN /\ bay \in Bays /\ removed \in BOOLEAN /\ shown \in BOOLEAN
        /\ "CLEARED" \in Bays /\ "NOT_CLEARED" \in Bays
    BY <1>0 DEF TypeOK, WorkerData, Bays
  <1>i. ASSUME InCall(a)
        PROVE  /\ call[a] \in Calls /\ call[a].op \in Ops /\ call[a].data \in PdcData
               /\ Facts(call[a].op, call[a].at)
               /\ call[a].cleared \in BOOLEAN /\ call[a].bay \in Bays
    BY <1>0, <1>i, InProgram DEF Calls
  \* From the parts a statement changes to the whole invariant.
  <1>c. ASSUME call' \in [Actors -> Calls], Carried', CopiesAcknowledged',
               UNCHANGED <<lastSeq, removed, up, crashes, acked>>, shown' \in BOOLEAN,
               pdc' \in PdcData, pdc'.state = "CONFIRMED" /\ pdc'.seq # NoSeq => pdc'.seq \in acked,
               cleared' \in BOOLEAN, bay' \in Bays,
               worker' \in [Timers -> WorkerData], tracker' \in Timers \cup {NoTimer},
               removed => tracker' = NoTimer
        PROVE  Base'
    BY <1>0, <1>c DEF Base, TypeOK, WorkerData, ConfirmedWasAcknowledged, RemovedSessionQuiet
  <1>1. CASE Read(a)
    <2>1. /\ InCall(a) /\ StepOf(a) = "read" /\ Advance(a, pdc)
          /\ UNCHANGED <<pdc, cleared, bay, lastSeq, tracker, worker, removed, up, crashes, shown, acked>>
      BY <1>1 DEF Read, At, StepOf, row, timers, world
    <2>2. call[a].op \notin AckOps \cup RowOps
      BY <2>1, <1>i DEF Facts, StepOf
    <2>3. call' \in [Actors -> Calls] /\ Carried' /\ CopiesAcknowledged'
      BY <2>1, <2>2, <1>u, AdvanceBase
    <2> QED
      BY <2>1, <2>3, <1>0, <1>u, <1>c DEF ConfirmedWasAcknowledged, RemovedSessionQuiet
  <1>2. CASE Set(a)
    <2>1. /\ InCall(a)
          /\ UNCHANGED <<cleared, bay, lastSeq, tracker, worker, removed, up, crashes, acked>>
          /\ \/ Advance(a, NoData) /\ pdc' = [call[a].data EXCEPT !.state = call[a].state]
             \/ Abort(a) /\ pdc' = pdc
      BY <1>2 DEF Set, At, timers
    <2>4. shown' \in BOOLEAN
      BY <1>2, <1>u DEF Set
    <2>2. call' \in [Actors -> Calls] /\ Carried' /\ CopiesAcknowledged'
      BY <2>1, AbortBase, AdvanceBase, Values
    <2>3. pdc' \in PdcData /\ (pdc' = pdc \/ pdc'.state # "CONFIRMED")
      BY <2>1, <1>0, <1>i, <1>u DEF PdcData, Calls, Carried
    <2> QED
      BY <2>1, <2>2, <2>3, <2>4, <1>0, <1>u, <1>c DEF ConfirmedWasAcknowledged, RemovedSessionQuiet
  <1>3. CASE Persist(a)
    <2>1. /\ InCall(a)
          /\ UNCHANGED <<cleared, bay, lastSeq, tracker, worker, removed, up, crashes, shown, acked>>
          /\ \/ Advance(a, NoData) /\ pdc' = [call[a].data EXCEPT !.state = "CLEARED", !.seq = call[a].seq]
             \/ Abort(a) /\ pdc' = pdc
      BY <1>3 DEF Persist, At, timers, world
    <2>2. call' \in [Actors -> Calls] /\ Carried' /\ CopiesAcknowledged'
      BY <2>1, AbortBase, AdvanceBase, Values
    <2>3. pdc' \in PdcData /\ (pdc' = pdc \/ pdc'.state # "CONFIRMED")
      BY <2>1, <1>i, <1>u DEF PdcData, Calls, States
    <2> QED
      BY <2>1, <2>2, <2>3, <1>0, <1>u, <1>c DEF ConfirmedWasAcknowledged, RemovedSessionQuiet
  <1>4. CASE SaveWebRequest(a)
    <2>1. /\ InCall(a) /\ Advance(a, NoData)
          /\ UNCHANGED <<cleared, bay, lastSeq, tracker, worker, removed, up, crashes, shown, acked>>
          /\ pdc' = [call[a].data EXCEPT !.seq = NoSeq, !.web = TRUE]
      BY <1>4 DEF SaveWebRequest, At, timers, world
    <2>2. call' \in [Actors -> Calls] /\ Carried' /\ CopiesAcknowledged'
      BY <2>1, AdvanceBase, Values
    <2>3. pdc' \in PdcData /\ pdc'.seq = NoSeq
      BY <2>1, <1>i DEF PdcData, NoSeq
    <2> QED
      BY <2>1, <2>2, <2>3, <1>0, <1>u, <1>c DEF RemovedSessionQuiet
  <1>5. CASE MoveIssued(a) \/ RaiseByVoice(a) \/ Lower(a) \/ Unclear(a)
    <2>1. /\ InCall(a) /\ Advance(a, NoData)
          /\ UNCHANGED <<pdc, lastSeq, tracker, worker, removed, up, crashes, shown, acked>>
          /\ bay' = "CLEARED" \/ bay' = "NOT_CLEARED" \/ bay' = bay
      BY <1>5 DEF MoveIssued, RaiseByVoice, Lower, Unclear, At, timers, world
    <2>2. cleared' = TRUE \/ cleared' = FALSE \/ cleared' = cleared
      BY <1>5 DEF MoveIssued, RaiseByVoice, Lower, Unclear
    <2>3. call' \in [Actors -> Calls] /\ Carried' /\ CopiesAcknowledged'
      BY <2>1, AdvanceBase, Values
    <2>4. cleared' \in BOOLEAN
      BY <2>2, <1>u
    <2>5. bay' \in Bays
      BY <2>1, <1>u
    <2> QED
      BY <2>1, <2>3, <2>4, <2>5, <1>0, <1>u, <1>c DEF ConfirmedWasAcknowledged, RemovedSessionQuiet
  <1>6. CASE RaiseConfirmed(a)
    <2>1. /\ InCall(a) /\ Advance(a, call[a].data)
          /\ UNCHANGED <<pdc, lastSeq, tracker, worker, removed, up, crashes, shown, acked>>
          /\ bay' = "CLEARED"
      BY <1>6 DEF RaiseConfirmed, At, timers, world
    <2>2. cleared' \in BOOLEAN
      BY <1>6 DEF RaiseConfirmed
    <2>3. call' \in [Actors -> Calls] /\ Carried' /\ CopiesAcknowledged'
      <3>1. call[a].op \notin RowOps
        BY <1>6, <2>1, <1>i DEF RaiseConfirmed, At, Facts, RowOps
      <3> QED
        BY <2>1, <3>1, <1>0, <1>i, AdvanceBase DEF CopiesAcknowledged
    <2> QED
      BY <2>1, <2>2, <2>3, <1>0, <1>u, <1>c DEF ConfirmedWasAcknowledged, RemovedSessionQuiet
  <1>7. CASE SaveConfirmed(a)
    <2>1. /\ InCall(a) /\ Advance(a, NoData) /\ call[a].op \in AckOps
          /\ UNCHANGED <<cleared, bay, lastSeq, tracker, worker, removed, up, crashes, shown, acked>>
          /\ pdc' = [call[a].data EXCEPT !.state = "CONFIRMED"]
      BY <1>7 DEF SaveConfirmed, At, AckOps, timers, world
    <2>2. call' \in [Actors -> Calls] /\ Carried' /\ CopiesAcknowledged'
      BY <2>1, AdvanceBase, Values
    <2>3. pdc' \in PdcData /\ pdc'.seq = call[a].data.seq
      BY <2>1, <1>i DEF PdcData, States
    <2>4. pdc'.seq \in acked \cup {NoSeq}
      BY <2>1, <2>3, <1>0 DEF CopiesAcknowledged
    <2> QED
      BY <2>1, <2>2, <2>3, <2>4, <1>0, <1>u, <1>c DEF RemovedSessionQuiet
  <1>8. CASE Wipe(a)
    <2>1. /\ InCall(a) /\ Advance(a, NoData) /\ pdc' = NoData
          /\ UNCHANGED <<cleared, bay, lastSeq, tracker, worker, removed, up, crashes, shown, acked>>
      BY <1>8 DEF Wipe, At, timers, world
    <2>2. call' \in [Actors -> Calls] /\ Carried' /\ CopiesAcknowledged'
      BY <2>1, AdvanceBase, Values
    <2> QED
      BY <2>1, <2>2, <1>0, <1>u, <1>c, Values DEF RemovedSessionQuiet
  <1>9. CASE Recheck(a)
    <2>1. /\ InCall(a)
          /\ UNCHANGED <<pdc, lastSeq, tracker, worker, removed, up, crashes, shown, acked>>
      BY <1>9 DEF Recheck, At, timers, world
    <2>3. \/ UNCHANGED <<cleared, bay>>
          \/ cleared' = call[a].cleared /\ bay' = call[a].bay
      BY <1>9 DEF Recheck
    <2>4. cleared' \in BOOLEAN /\ bay' \in Bays
      BY <2>1, <2>3, <1>i, <1>u
    <2>5. \/ Advance(a, NoData)
          \/ call' = [call EXCEPT ![a] = Idle]
          \/ call[a].op = "voiceFlag" /\ RaisesInstead(a)
      BY <1>9 DEF Recheck, RaisesInstead
    <2>2. call' \in [Actors -> Calls] /\ Carried' /\ CopiesAcknowledged'
      <3>1. CASE Advance(a, NoData)
        BY <2>1, <3>1, AdvanceBase, Values
      <3>2. CASE call' = [call EXCEPT ![a] = Idle]
        <4>2. call' \in [Actors -> Calls] /\ Carried' /\ call'[a] = Idle /\ \A b \in Actors \ {a} : call'[b] = call[b]
          BY <3>2, <1>0, ReturnIdle
        <4> QED
          BY <4>2, <2>1, <1>0, Values DEF CopiesAcknowledged, AckOps, RowOps
      <3>3. CASE call[a].op = "voiceFlag" /\ RaisesInstead(a)
        BY <2>1, <1>0, <3>3, RaisedInstead DEF CopiesAcknowledged, AckOps, RowOps
      <3> QED
        BY <2>5, <3>1, <3>2, <3>3
    <2> QED
      BY <2>1, <2>2, <2>4, <1>0, <1>u, <1>c DEF ConfirmedWasAcknowledged, RemovedSessionQuiet
  <1>10. CASE Stop(a)
    <2>1. /\ InCall(a) /\ Advance(a, NoData) /\ worker' = Cancelled(tracker) /\ tracker' = NoTimer
          /\ UNCHANGED <<pdc, cleared, bay, lastSeq, removed, up, crashes, shown, acked>>
      BY <1>10 DEF Stop, At, row, world
    <2>2. call' \in [Actors -> Calls] /\ Carried' /\ CopiesAcknowledged'
      BY <2>1, AdvanceBase, Values
    <2>3. worker' \in [Timers -> WorkerData]
      BY <2>1, <1>0, CancelledWorkers
    <2> QED
      BY <2>1, <2>2, <2>3, <1>0, <1>u, <1>c DEF ConfirmedWasAcknowledged
  <1>11. CASE Arm(a)
    <2>1. /\ InCall(a) /\ Advance(a, NoData)
          /\ UNCHANGED <<pdc, cleared, bay, lastSeq, removed, up, crashes, shown, acked>>
          /\ \/ ~removed /\ \E w \in Timers : StartWorker(w, a)
             \/ removed /\ UNCHANGED <<tracker, worker>>
      BY <1>11 DEF Arm, At, row, timers, world
    <2>2. call' \in [Actors -> Calls] /\ Carried' /\ CopiesAcknowledged'
      BY <2>1, AdvanceBase, Values
    <2>3. worker' \in [Timers -> WorkerData] /\ tracker' \in Timers \cup {NoTimer}
      BY <2>1, <1>0, <1>u, StartedWorker
    <2> QED
      BY <2>1, <2>2, <2>3, <1>0, <1>u, <1>c DEF ConfirmedWasAcknowledged, RemovedSessionQuiet
  <1>12. CASE Return(a)
    <2>1. /\ call' = [call EXCEPT ![a] = Idle]
          /\ UNCHANGED <<pdc, cleared, bay, lastSeq, tracker, removed, up, crashes, shown, acked>>
      BY <1>12 DEF Return, row, world
    <2>2. call' \in [Actors -> Calls] /\ Carried' /\ call'[a] = Idle /\ \A b \in Actors \ {a} : call'[b] = call[b]
      BY <2>1, <1>0, ReturnIdle
    <2>3. CopiesAcknowledged'
      BY <2>1, <2>2, <1>0, Values DEF CopiesAcknowledged, AckOps, RowOps
    <2>4. worker' \in [Timers -> WorkerData]
      BY <1>12, <1>0, ReturnedWorkers
    <2> QED
      BY <2>1, <2>2, <2>3, <2>4, <1>0, <1>u, <1>c DEF ConfirmedWasAcknowledged, RemovedSessionQuiet
  <1>13. CASE a = Poll /\ Restore
    <2>1. /\ InCall(a) /\ StepOf(a) = "restore"
          /\ UNCHANGED <<pdc, cleared, bay, lastSeq, tracker, worker, removed, up, crashes, shown, acked>>
      BY <1>13 DEF Restore, At, StepOf, row, timers, world
    <2>2. /\ call' \in [Actors -> Calls] /\ Carried'
          /\ \A b \in Actors \ {a} : call'[b] = call[b]
          /\ call'[a] = Idle \/ call'[a].op = "rearm"
      BY <1>13, <1>0, RestoredCall
    <2>4. call'[a].op \notin AckOps \cup RowOps
      BY <2>2, Values DEF AckOps, RowOps
    <2>3. CopiesAcknowledged'
      BY <2>1, <2>2, <2>4, <1>0 DEF CopiesAcknowledged
    <2> QED
      BY <2>1, <2>2, <2>3, <1>0, <1>u, <1>c DEF ConfirmedWasAcknowledged, RemovedSessionQuiet
  <1>14. CASE SaveReviewed(a) \/ SaveSynced(a)
    <2>1. /\ InCall(a) /\ Advance(a, NoData) /\ StepOf(a) \in {"sync", "review"}
          /\ UNCHANGED <<lastSeq, tracker, worker, removed, up, crashes, acked>>
          /\ pdc' = call[a].data \/ pdc' = NoData
      BY <1>14 DEF SaveReviewed, SaveSynced, At, StepOf, timers, world
    <2>2. call' \in [Actors -> Calls] /\ Carried' /\ CopiesAcknowledged'
      BY <2>1, AdvanceBase, Values
    <2>3. call[a].op \in RowOps
      BY <2>1, <1>i DEF Facts, StepOf, RowOps
    <2>4. pdc' \in PdcData /\ (pdc'.state = "CONFIRMED" /\ pdc'.seq # NoSeq => pdc'.seq \in acked)
      BY <2>1, <2>3, <1>0, <1>i, Values DEF CopiesAcknowledged
    <2>5. cleared' \in BOOLEAN /\ bay' \in Bays /\ shown' \in BOOLEAN
      <3>1. CASE SaveReviewed(a)
        BY <3>1, <2>1, <1>i, <1>u DEF SaveReviewed, world
      <3>2. CASE SaveSynced(a)
        <4>1. cleared' \in BOOLEAN
          BY <3>2 DEF SaveSynced
        <4>2. shown' \in BOOLEAN
          BY <3>2 DEF SaveSynced
        <4>3. bay' \in Bays
          BY <3>2, <2>1, <1>i, <1>u DEF SaveSynced
        <4> QED
          BY <4>1, <4>2, <4>3
      <3> QED
        BY <1>14, <3>1, <3>2
    <2> QED
      BY <2>1, <2>2, <2>4, <2>5, <1>0, <1>u, <1>c DEF RemovedSessionQuiet
  <1> QED
    BY <1>1, <1>2, <1>3, <1>4, <1>5, <1>6, <1>7, <1>8, <1>9, <1>10, <1>11, <1>12, <1>13, <1>14 DEF StepCall

\* An expiry keeps the base invariant: it writes NO RESPONSE or nothing.
LEMMA WorkerBase ==
    ASSUME Base, NEW w \in Timers, StepWorker(w) \/ Elapse(w)
    PROVE  Base'
  <1>0. TypeOK /\ ConfirmedWasAcknowledged /\ RemovedSessionQuiet /\ pdc \in PdcData
        /\ cleared \in BOOLEAN /\ worker \in [Timers -> WorkerData]
        /\ bay \in Bays /\ "NOT_CLEARED" \in Bays /\ shown \in BOOLEAN
    BY DEF Base, TypeOK, WorkerData, Bays
  <1>c. ASSUME UNCHANGED <<lastSeq, call, removed, up, crashes, acked>>, shown' \in BOOLEAN,
               pdc' \in PdcData, pdc' = pdc \/ pdc'.state # "CONFIRMED",
               cleared' \in BOOLEAN, bay' \in Bays,
               worker' \in [Timers -> WorkerData], tracker' = tracker \/ tracker' = NoTimer
        PROVE  Base'
    BY <1>c, <1>0
    DEF Base, TypeOK, WorkerData, Carried, CopiesAcknowledged, ConfirmedWasAcknowledged,
        RemovedSessionQuiet, InCall
  <1>1. ASSUME UNCHANGED <<row, lastSeq, call, world, acked>>, tracker' = tracker \/ tracker' = NoTimer,
               Exit(w) \/ \E pc \in WorkerPC : Goto(w, pc, NoData) \/ Goto(w, pc, pdc)
        PROVE  Base'
    <2>1. worker' \in [Timers -> WorkerData]
      BY <1>0, <1>1, ExitWorker, GotoWorker, Values
    <2> QED
      BY <1>0, <1>1, <1>c, <2>1 DEF TypeOK, row, world
  <1>2. CASE LookUp(w) \/ Interrupted(w) \/ Elapse(w) \/ Forget(w)
    BY <1>1, <1>2 DEF LookUp, Interrupted, Elapse, Forget, WorkerPC
  <1>3. CASE Reload(w)
    <2>1. Goto(w, "read", NoData) \/ Goto(w, "end", NoData)
      BY <1>3 DEF Reload
    <2> QED
      BY <1>1, <1>3, <2>1 DEF Reload, WorkerPC
  <1>4. CASE ReadExpired(w)
    <2>1. Goto(w, "mark", pdc) \/ Goto(w, "end", pdc)
      BY <1>4 DEF ReadExpired
    <2> QED
      BY <1>1, <1>4, <2>1 DEF ReadExpired, WorkerPC
  <1>5. CASE MarkNoResponse(w)
    <2>1. /\ UNCHANGED <<cleared, bay, lastSeq, call, tracker, removed, up, crashes, acked>>
          /\ \/ pdc' = [worker[w].data EXCEPT !.state = "NO_RESPONSE"] /\ Goto(w, "unclear", NoData)
             \/ pdc' = pdc /\ Goto(w, "end", NoData)
      BY <1>5 DEF MarkNoResponse
    <2>4. shown' = FALSE \/ shown' = shown
      BY <1>5 DEF MarkNoResponse
    <2>5. shown' \in BOOLEAN
      BY <2>4, <1>0
    <2>2. worker' \in [Timers -> WorkerData]
      BY <2>1, <1>0, GotoWorker, Values DEF WorkerPC
    <2>3. pdc' \in PdcData /\ (pdc' = pdc \/ pdc'.state # "CONFIRMED")
      BY <2>1, <1>0 DEF WorkerData, PdcData, States, Withdrawn
    <2> QED
      BY <2>1, <2>2, <2>3, <2>5, <1>0, <1>c DEF TypeOK
  <1>6. CASE UnclearExpired(w)
    <2>1. /\ UNCHANGED <<pdc, lastSeq, call, tracker, removed, up, crashes, shown, acked>>
          /\ Goto(w, "end", NoData)
          /\ bay' = "NOT_CLEARED" \/ bay' = bay
      BY <1>6 DEF UnclearExpired, world
    <2>2. cleared' = FALSE \/ cleared' = cleared
      BY <1>6 DEF UnclearExpired
    <2>3. cleared' \in BOOLEAN
      BY <2>2, <1>0
    <2>4. worker' \in [Timers -> WorkerData]
      BY <2>1, <1>0, GotoWorker, Values DEF WorkerPC
    <2> QED
      BY <2>1, <2>3, <2>4, <1>0, <1>c DEF TypeOK
  <1> QED
    BY <1>2, <1>3, <1>4, <1>5, <1>6 DEF StepWorker

\* The base invariant, for any interleaving.
LEMMA BaseStep == Base /\ [Next]_vars => Base'
  <1> SUFFICES ASSUME Base, [Next]_vars PROVE Base'
    OBVIOUS
  <1>0. TypeOK /\ Carried /\ CopiesAcknowledged /\ ConfirmedWasAcknowledged /\ RemovedSessionQuiet
    BY DEF Base
  <1>1. CASE EnterCall
    BY <1>0, <1>1, Entries, EntryBase
  <1>2. ASSUME NEW a \in Actors, StepCall(a) PROVE Base'
    BY <1>2, StepBase
  <1>3. ASSUME NEW r \in Actors, Fail(r) PROVE Base'
    <2>1. /\ InCall(r) /\ Abort(r)
          /\ UNCHANGED <<pdc, cleared, bay, lastSeq, tracker, worker, removed, up, crashes, shown, acked>>
      BY <1>3 DEF Fail, row, timers, world
    <2>2. call' \in [Actors -> Calls] /\ Carried' /\ CopiesAcknowledged'
      BY <2>1, AbortBase
    <2> QED
      BY <2>1, <2>2, <1>0 DEF Base, TypeOK, ConfirmedWasAcknowledged, RemovedSessionQuiet
  <1>4. ASSUME NEW w \in Timers, StepWorker(w) \/ Elapse(w) PROVE Base'
    BY <1>4, WorkerBase
  <1>5. CASE RemoveSession
    <2>1. /\ removed' = TRUE /\ worker' = Cancelled(tracker) /\ tracker' = NoTimer
          /\ UNCHANGED <<pdc, cleared, bay, lastSeq, call, up, crashes, shown, acked>>
      BY <1>5 DEF RemoveSession, row
    <2>2. worker' \in [Timers -> WorkerData]
      BY <2>1, <1>0, CancelledWorkers
    <2>3. removed' \in BOOLEAN
      BY <1>5 DEF RemoveSession
    <2>4. TypeOK'
      BY <2>1, <2>2, <2>3, <1>0 DEF TypeOK, WorkerData
    <2> QED
      BY <2>1, <2>4, <1>0
      DEF Base, Carried, CopiesAcknowledged, ConfirmedWasAcknowledged, RemovedSessionQuiet, InCall
  <1>6. CASE Crash
    <2>1. /\ call' = [a \in Actors |-> Idle] /\ tracker' = NoTimer
          /\ worker' = [w \in Timers |-> NoWorker] /\ crashes < MaxCrash /\ crashes' = crashes + 1
          /\ UNCHANGED <<pdc, cleared, bay, lastSeq, removed, shown, acked>>
      BY <1>6 DEF Crash, row
    <2>2. up' \in BOOLEAN
      BY <1>6 DEF Crash
    <2>3. call' \in [Actors -> Calls] /\ \A a \in Actors : call'[a] = Idle
      BY <2>1, Values
    <2>4. worker' \in [Timers -> WorkerData] /\ crashes' \in 0..MaxCrash
      BY <2>1, <1>0, Values, PDCAssumption DEF TypeOK
    <2>5. TypeOK'
      BY <2>1, <2>2, <2>3, <2>4, <1>0 DEF TypeOK, WorkerData
    <2>6. Carried' /\ CopiesAcknowledged'
      BY <2>3, Values DEF Carried, CopiesAcknowledged, InCall, IssueOps, AckOps, RowOps, WebOps, SubmitOps
    <2> QED
      BY <2>1, <2>5, <2>6, <1>0 DEF Base, ConfirmedWasAcknowledged, RemovedSessionQuiet
  <1>7. CASE Restart
    <2>1. /\ Enter(Poll, "rearm", NoSeq, "NONE")
          /\ UNCHANGED <<pdc, cleared, bay, lastSeq, tracker, worker, removed, crashes, shown, acked>>
      BY <1>7 DEF Restart, row, timers
    <2>2. up' \in BOOLEAN
      BY <1>7 DEF Restart
    <2>3. "rearm" \in Ops /\ "NONE" \in States /\ NoSeq \in Nat /\ "rearm" \notin IssueOps \cup WebOps
      BY OpsAre DEF States, NoSeq, IssueOps, WebOps, SubmitOps
    <2>4. /\ call' \in [Actors -> Calls] /\ Carried'
          /\ \A b \in Actors \ {Poll} : call'[b] = call[b]
          /\ call'[Poll].op = "rearm"
      BY <2>1, <2>3, <1>0, EnterNew, Values
    <2>5. CopiesAcknowledged'
      BY <2>1, <2>4, <1>0 DEF CopiesAcknowledged, AckOps, RowOps
    <2>6. TypeOK'
      BY <2>1, <2>2, <2>4, <1>0 DEF TypeOK
    <2> QED
      BY <2>1, <2>4, <2>5, <2>6, <1>0 DEF Base, ConfirmedWasAcknowledged, RemovedSessionQuiet
  <1>8. CASE UNCHANGED vars
    BY <1>8, <1>0
    DEF Base, TypeOK, Carried, CopiesAcknowledged, ConfirmedWasAcknowledged, RemovedSessionQuiet,
        InCall, vars, row, timers, world
  <1> QED
    BY <1>1, <1>2, <1>3, <1>4, <1>5, <1>6, <1>7, <1>8 DEF Next

\* It holds at the start.
LEMMA BaseInit == Init => Base
  <1> SUFFICES ASSUME Init PROVE Base
    OBVIOUS
  <1>1. call \in [Actors -> Calls] /\ \A a \in Actors : call[a] = Idle
    BY Values DEF Init
  <1>2. worker \in [Timers -> WorkerData]
    BY Values DEF Init
  <1>3. cleared \in BOOLEAN /\ removed \in BOOLEAN /\ up \in BOOLEAN /\ shown \in BOOLEAN
    BY DEF Init
  <1>4. TypeOK
    BY <1>1, <1>2, <1>3, Values, PDCAssumption DEF Init, TypeOK, WorkerData, Bays
  <1>5. Carried /\ CopiesAcknowledged
    BY <1>1, Values DEF Carried, CopiesAcknowledged, InCall, IssueOps, AckOps, RowOps, WebOps, SubmitOps
  <1> QED
    BY <1>4, <1>5, Values DEF Init, Base, ConfirmedWasAcknowledged, RemovedSessionQuiet

\* The base invariant of every reachable state, for any set of controllers and
\* browsers and any interleaving.
THEOREM PDCInvariant == Spec => []Base
  BY BaseInit, BaseStep, PTL DEF Spec

\* Every variable keeps its type.
THEOREM PDCTypeOK == Spec => []TypeOK
  BY PDCInvariant, PTL DEF Base

\* A strip is CONFIRMED only with a clearance whose own message number a pilot
\* acknowledged, however calls, expiries, crashes and answers interleave.
THEOREM PDCConfirmedWasAcknowledged == Spec => []ConfirmedWasAcknowledged
  BY PDCInvariant, PTL DEF Base

\* A removed session gets no timeout, neither from a call that passed its
\* checks before nor from the restore of a start.
THEOREM PDCRemovedSessionQuiet == Spec => []RemovedSessionQuiet
  BY PDCInvariant, PTL DEF Base

-----------------------------------------------------------------------------
(* Calls and expiries one after the other: outstanding clearances are timed *)

\* What a goroutine in a call may rely on while it runs alone.
LEMMA Here ==
    ASSUME Base, SerialNow, NEW a \in Actors, InCall(a)
    PROVE  /\ up /\ Expiring = {} /\ Knows(a)
           /\ \A b \in Actors : InCall(b) => b = a
           /\ Outstanding => pdc.seq # NoSeq
           /\ Outstanding => Timed \/ Untimed(a)
           /\ \A w \in Timers : worker[w].live => w = tracker
  <1>1. Expiring = {} /\ up /\ Knows(a) /\ \A b \in Actors : InCall(b) => b = a
    BY DEF SerialNow, Alone
  <1>2. \A w \in Timers : worker[w].pc \notin {"expired", "read", "mark"}
    BY <1>1 DEF Expiring
  <1> QED
    BY <1>1, <1>2 DEF SerialNow, Alone, TimerKept

\* What a statement has to show: the rest of the invariant follows from the
\* goroutine being alone.
LEMMA StatementSerial ==
    ASSUME Base, SerialNow, NEW a \in Actors, InCall(a),
           \A b \in Actors \ {a} : call'[b] = call[b],
           up' = up, Expiring' = {},
           \A w \in Timers : worker'[w].live => w = tracker',
           InCall(a)' => Knows(a)',
           Outstanding' => pdc'.seq # NoSeq,
           Outstanding' => Timed' \/ (InCall(a)' /\ Untimed(a)')
    PROVE  SerialNow'
  <1>1. up /\ \A b \in Actors : InCall(b) => b = a
    BY Here
  <1>2. \A b \in Actors : InCall(b)' => b = a
    BY <1>1 DEF InCall
  <1>3. Alone'
    BY <1>1, <1>2 DEF Alone
  <1>4. \A b \in Actors : InCall(b)' => Knows(b)'
    BY <1>2
  <1>5. \A w \in Timers : worker'[w].pc # "mark"
    BY DEF Expiring
  <1>6. TimerKept'
    BY <1>5 DEF TimerKept
  <1> QED
    BY <1>3, <1>4, <1>6 DEF SerialNow

\* Where the next statement is.
LEMMA AdvanceStep ==
    ASSUME Base, NEW a \in Actors, InCall(a), NEW d \in PdcData, Advance(a, d)
    PROVE  /\ \A b \in Actors \ {a} : call'[b] = call[b]
           /\ Facts(call[a].op, call[a].at)
           /\ \/ ~InCall(a)' /\ call[a].at = Len(Program[call[a].op])
              \/ /\ InCall(a)' /\ call[a].at # Len(Program[call[a].op])
                 /\ call'[a].op = call[a].op /\ call'[a].data = d
                 /\ call'[a].seq = call[a].seq /\ call'[a].state = call[a].state
                 /\ StepOf(a)' = Program[call[a].op][call[a].at + 1]
  <1>1. TypeOK /\ Carried
    BY DEF Base
  <1>2. Facts(call[a].op, call[a].at)
    BY <1>1, InProgram
  <1>3. /\ \A b \in Actors \ {a} : call'[b] = call[b]
        /\ \/ call'[a] = Idle /\ call[a].at = Len(Program[call[a].op])
           \/ /\ call[a].at # Len(Program[call[a].op])
              /\ call'[a].op = call[a].op /\ call'[a].at = call[a].at + 1 /\ call'[a].data = d
              /\ call'[a].seq = call[a].seq /\ call'[a].state = call[a].state
              /\ InCall(a)'
    BY <1>1, AdvanceCall
  <1> QED
    BY <1>2, <1>3, Values DEF StepOf, InCall

\* A statement that reads, or changes no more than flag and bay.
LEMMA QuietStatements ==
    ASSUME Base, SerialNow, NEW a \in Actors,
           \/ Read(a) \/ MoveIssued(a) \/ RaiseConfirmed(a)
           \/ RaiseByVoice(a) \/ Lower(a) \/ Unclear(a)
    PROVE  SerialNow'
  <1>1. PICK d \in PdcData :
           /\ InCall(a) /\ Advance(a, d) /\ UNCHANGED <<pdc, tracker, worker, removed, up>>
           /\ StepOf(a) \in {"read", "move", "flag", "raise", "lower", "unclear"}
           /\ StepOf(a) = "read" => d = pdc
           /\ StepOf(a) = "flag" => d = call[a].data
    <2>1. InCall(a)
      BY DEF Read, MoveIssued, RaiseConfirmed, RaiseByVoice, Lower, Unclear, At
    <2>2. pdc \in PdcData /\ call[a].data \in PdcData /\ NoData \in PdcData
      BY <2>1, InProgram, Values DEF Base, TypeOK
    <2> QED
      BY <2>1, <2>2
      DEF Read, MoveIssued, RaiseConfirmed, RaiseByVoice, Lower, Unclear, At, StepOf, row, timers, world
  <1>2. /\ up /\ Expiring = {} /\ Knows(a)
        /\ Outstanding => pdc.seq # NoSeq
        /\ Outstanding => Timed \/ Untimed(a)
        /\ \A w \in Timers : worker[w].live => w = tracker
    BY <1>1, Here
  <1>3. /\ \A b \in Actors \ {a} : call'[b] = call[b]
        /\ Facts(call[a].op, call[a].at)
        /\ \/ ~InCall(a)' /\ call[a].at = Len(Program[call[a].op])
           \/ /\ InCall(a)' /\ call[a].at # Len(Program[call[a].op])
              /\ call'[a].op = call[a].op /\ call'[a].data = d
              /\ call'[a].seq = call[a].seq
              /\ StepOf(a)' = Program[call[a].op][call[a].at + 1]
    BY <1>1, AdvanceStep
  <1>4. Expiring' = {}
    BY <1>1, <1>2 DEF Expiring
  <1>5. ASSUME InCall(a)' PROVE Knows(a)'
    BY <1>1, <1>2, <1>3, <1>5
    DEF Knows, Facts, StepOf, IssueOps, SubmitOps, AckOps, VoiceOps
  <1>6. ASSUME Outstanding' PROVE Timed' \/ (InCall(a)' /\ Untimed(a)')
    <2>1. Timed \/ Untimed(a)
      BY <1>1, <1>2, <1>6 DEF Outstanding
    <2>2. CASE Timed
      BY <1>1, <2>2 DEF Timed
    <2>3. CASE Untimed(a)
      BY <1>1, <1>2, <1>3, <2>3
      DEF Untimed, Facts, StepOf, IssueOps, SubmitOps, AckOps, VoiceOps
    <2> QED
      BY <2>1, <2>2, <2>3
  <1> QED
    BY <1>1, <1>2, <1>3, <1>4, <1>5, <1>6, StatementSerial DEF Outstanding

\* A statement that writes pdc_data: alone, it writes back the row it read.
LEMMA WritingStatements ==
    ASSUME Base, SerialNow, ~removed, NEW a \in Actors,
           Set(a) \/ Persist(a) \/ SaveWebRequest(a) \/ SaveConfirmed(a) \/ Wipe(a)
    PROVE  SerialNow'
  <1>1. /\ InCall(a) /\ Advance(a, NoData) /\ UNCHANGED <<tracker, worker, up>>
        /\ \/ StepOf(a) = "set" /\ pdc' = [call[a].data EXCEPT !.state = call[a].state]
           \/ StepOf(a) = "persist" /\ pdc' = [call[a].data EXCEPT !.state = "CLEARED", !.seq = call[a].seq]
           \/ StepOf(a) = "submit" /\ pdc' = [call[a].data EXCEPT !.seq = NoSeq, !.web = TRUE]
           \/ StepOf(a) = "confirm" /\ pdc' = [call[a].data EXCEPT !.state = "CONFIRMED"]
           \/ StepOf(a) = "wipe" /\ pdc' = NoData
    BY DEF Set, Persist, SaveWebRequest, SaveConfirmed, Wipe, At, StepOf, timers, world
  <1>2. /\ up /\ Expiring = {} /\ Knows(a)
        /\ \A w \in Timers : worker[w].live => w = tracker
    BY <1>1, Here
  <1>3. /\ \A b \in Actors \ {a} : call'[b] = call[b]
        /\ Facts(call[a].op, call[a].at)
        /\ \/ ~InCall(a)' /\ call[a].at = Len(Program[call[a].op])
           \/ /\ InCall(a)' /\ call[a].at # Len(Program[call[a].op])
              /\ call'[a].op = call[a].op
              /\ call'[a].seq = call[a].seq
              /\ StepOf(a)' = Program[call[a].op][call[a].at + 1]
    BY <1>1, AdvanceStep, Values
  <1>4. Expiring' = {}
    BY <1>1, <1>2 DEF Expiring
  <1>5. /\ call[a].state \notin {"CLEARED", "CONFIRMED"} /\ pdc \in PdcData
        /\ call[a].op \in IssueOps => call[a].seq # NoSeq
    BY DEF Base, Carried, TypeOK
  <1>6. /\ StepOf(a) # "wipe" => pdc'.web = (IF StepOf(a) = "submit" THEN TRUE ELSE pdc.web)
        /\ pdc'.state = "CLEARED" /\ ~pdc'.web =>
              StepOf(a) = "persist" /\ pdc'.seq = call[a].seq /\ pdc'.seq # NoSeq
        /\ StepOf(a) = "persist" => pdc'.state = "CLEARED" /\ pdc'.seq = call[a].seq
        /\ StepOf(a) = "confirm" => pdc'.state = "CONFIRMED"
    <2>1. CASE StepOf(a) = "set"
      BY <1>1, <1>2, <1>5, <2>1 DEF Knows, PdcData
    <2>2. CASE StepOf(a) = "persist"
      BY <1>1, <1>2, <1>3, <1>5, <2>2 DEF Knows, PdcData, Facts, StepOf
    <2>3. CASE StepOf(a) = "submit"
      BY <1>1, <1>2, <1>5, <2>3 DEF Knows, PdcData
    <2>4. CASE StepOf(a) = "confirm"
      BY <1>1, <1>2, <1>5, <2>4 DEF Knows, PdcData
    <2>5. CASE StepOf(a) = "wipe"
      BY <1>1, <2>5, Values
    <2> QED
      BY <1>1, <2>1, <2>2, <2>3, <2>4, <2>5
  <1>7. StepOf(a) \in {"set", "persist", "submit", "confirm", "wipe"}
    BY <1>1
  <1>8. ASSUME InCall(a)' PROVE Knows(a)'
    BY <1>1, <1>2, <1>3, <1>6, <1>7, <1>8
    DEF Knows, Facts, StepOf, IssueOps, SubmitOps, AckOps, VoiceOps
  <1>9. ASSUME Outstanding' PROVE pdc'.seq # NoSeq /\ InCall(a)' /\ Untimed(a)'
    <2>1. StepOf(a) = "persist" /\ pdc'.seq # NoSeq
      BY <1>6, <1>9 DEF Outstanding
    <2> QED
      BY <1>3, <2>1 DEF Untimed, Facts, StepOf
  <1> QED
    BY <1>1, <1>2, <1>3, <1>4, <1>8, <1>9, StatementSerial

\* ConfirmVoiceClearance looks at the state again.
LEMMA RecheckSerial ==
    ASSUME Base, SerialNow, NEW a \in Actors, Recheck(a)
    PROVE  SerialNow'
  <1>1. InCall(a) /\ StepOf(a) = "recheck" /\ UNCHANGED <<pdc, tracker, worker, up>>
    BY DEF Recheck, At, StepOf, timers, world
  <1>2. /\ up /\ Expiring = {} /\ Knows(a)
        /\ Outstanding => pdc.seq # NoSeq
        /\ Outstanding => Timed \/ Untimed(a)
        /\ \A w \in Timers : worker[w].live => w = tracker
    BY <1>1, Here
  <1>3. Expiring' = {}
    BY <1>1, <1>2 DEF Expiring
  <1>4. TypeOK /\ Carried /\ Facts(call[a].op, call[a].at)
    BY <1>1, InProgram DEF Base
  <1>5. call[a].op \in VoiceOps
    BY <1>1, <1>4 DEF Facts, StepOf
  <1>6. Outstanding' => Timed' /\ pdc'.seq # NoSeq
    BY <1>1, <1>2, <1>5 DEF Outstanding, Timed, Untimed, IssueOps, VoiceOps
  <1>7. CASE Advance(a, NoData)
    <2>2. /\ \A b \in Actors \ {a} : call'[b] = call[b]
          /\ \/ ~InCall(a)' /\ call[a].at = Len(Program[call[a].op])
             \/ /\ InCall(a)' /\ call[a].at # Len(Program[call[a].op])
                /\ call'[a].op = call[a].op
                /\ StepOf(a)' = Program[call[a].op][call[a].at + 1]
      BY <1>1, <1>7, AdvanceStep, Values
    <2>4. InCall(a)' => StepOf(a)' = "stop"
      BY <1>1, <1>4, <1>5, <2>2 DEF Facts, StepOf
    <2>5. ASSUME InCall(a)' PROVE Knows(a)'
      BY <1>5, <2>2, <2>4, <2>5 DEF Knows, IssueOps, SubmitOps, AckOps, VoiceOps
    <2> QED
      BY <1>1, <1>2, <1>3, <1>6, <2>2, <2>5, StatementSerial
  <1>8. CASE call[a].op = "voiceFlag" /\ RaisesInstead(a)
    <2>2. /\ \A b \in Actors \ {a} : call'[b] = call[b]
          /\ call'[a].op = "raise" /\ StepOf(a)' = "raise"
      BY <1>8, <1>4, RaisedInstead
    <2>3. Knows(a)'
      BY <2>2 DEF Knows, IssueOps, SubmitOps, AckOps
    <2> QED
      BY <1>1, <1>2, <1>3, <1>6, <2>2, <2>3, StatementSerial
  <1>9. CASE call' = [call EXCEPT ![a] = Idle]
    <2>2. ~InCall(a)' /\ \A b \in Actors \ {a} : call'[b] = call[b]
      BY <1>9, <1>4, ReturnIdle
    <2> QED
      BY <1>1, <1>2, <1>3, <1>6, <2>2, StatementSerial
  <1> QED
    BY <1>7, <1>8, <1>9 DEF Recheck, RaisesInstead

\* A whole row is written back, alone: the row as it is, or for a refiled
\* flight one without a clearance.
LEMMA RowSerial ==
    ASSUME Base, SerialNow, NEW a \in Actors, SaveReviewed(a) \/ SaveSynced(a)
    PROVE  SerialNow'
  <1>1. /\ InCall(a) /\ StepOf(a) \in {"sync", "review"} /\ Advance(a, NoData)
        /\ UNCHANGED <<tracker, worker, up>> /\ (pdc' = call[a].data \/ pdc' = NoData)
    BY DEF SaveReviewed, SaveSynced, At, StepOf, timers, world
  <1>2. /\ up /\ Expiring = {} /\ Knows(a)
        /\ Outstanding => pdc.seq # NoSeq
        /\ Outstanding => Timed \/ Untimed(a)
        /\ \A w \in Timers : worker[w].live => w = tracker
    BY <1>1, Here
  <1>3. /\ \A b \in Actors \ {a} : call'[b] = call[b]
        /\ Facts(call[a].op, call[a].at)
        /\ ~InCall(a)' \/ call[a].at # Len(Program[call[a].op])
    BY <1>1, AdvanceStep, Values
  <1>4. ~InCall(a)' /\ call[a].op \in RowOps
    BY <1>1, <1>3 DEF Facts, StepOf, RowOps
  <1>5. Expiring' = {}
    BY <1>1, <1>2 DEF Expiring
  <1>6. pdc' = pdc \/ pdc' = NoData
    BY <1>1, <1>2 DEF Knows
  <1>7. ASSUME Outstanding' PROVE Timed' /\ pdc'.seq # NoSeq
    <2>1. pdc' = pdc
      BY <1>6, <1>7, Values DEF Outstanding
    <2>2. Timed /\ pdc.seq # NoSeq
      BY <1>2, <1>4, <1>7, <2>1 DEF Outstanding, Untimed, IssueOps, VoiceOps, RowOps
    <2> QED
      BY <1>1, <2>1, <2>2 DEF Timed
  <1> QED
    BY <1>1, <1>2, <1>3, <1>4, <1>5, <1>7, StatementSerial

\* CancelTimeout: what loses its timeout here is withdrawn, wiped or timed anew.
LEMMA StopSerial ==
    ASSUME Base, SerialNow, NEW a \in Actors, Stop(a)
    PROVE  SerialNow'
  <1>1. /\ InCall(a) /\ StepOf(a) = "stop" /\ Advance(a, NoData) /\ UNCHANGED <<pdc, up>>
        /\ worker' = Cancelled(tracker) /\ tracker' = NoTimer
    BY DEF Stop, At, StepOf, row, world
  <1>2. /\ up /\ Expiring = {} /\ Knows(a)
        /\ Outstanding => pdc.seq # NoSeq
        /\ \A w \in Timers : worker[w].live => w = tracker
    BY <1>1, Here
  <1>3. /\ \A b \in Actors \ {a} : call'[b] = call[b]
        /\ Facts(call[a].op, call[a].at)
        /\ \/ ~InCall(a)' /\ call[a].at = Len(Program[call[a].op])
           \/ /\ InCall(a)' /\ call[a].at # Len(Program[call[a].op])
              /\ call'[a].op = call[a].op /\ call'[a].seq = call[a].seq
              /\ StepOf(a)' = Program[call[a].op][call[a].at + 1]
    BY <1>1, AdvanceStep, Values
  <1>4. \A w \in Timers : worker'[w].pc = worker[w].pc /\ (worker'[w].live => worker[w].live /\ w # tracker)
    BY <1>1, CancelledWorkers DEF Base
  <1>5. Expiring' = {} /\ \A w \in Timers : ~worker'[w].live
    BY <1>2, <1>4 DEF Expiring
  <1>6. ASSUME InCall(a)' PROVE Knows(a)'
    BY <1>1, <1>2, <1>3, <1>6
    DEF Knows, Facts, StepOf, IssueOps, SubmitOps, AckOps, VoiceOps
  <1>7. ASSUME Outstanding' PROVE InCall(a)' /\ Untimed(a)'
    <2>1. call[a].op \notin AckOps
      BY <1>1, <1>2, <1>7 DEF Knows, Outstanding
    <2> QED
      BY <1>1, <1>3, <2>1 DEF Untimed, Facts, StepOf
  <1> QED
    BY <1>1, <1>2, <1>3, <1>5, <1>6, <1>7, StatementSerial DEF Outstanding

\* startClearanceTimeoutAfter: the clearance in the row is timed from here.
LEMMA ArmSerial ==
    ASSUME Base, SerialNow, ~removed, NEW a \in Actors, Arm(a)
    PROVE  SerialNow'
  <1>1. InCall(a) /\ StepOf(a) = "arm" /\ Advance(a, NoData) /\ UNCHANGED <<pdc, up>>
    BY DEF Arm, At, StepOf, row, world
  <1>2. PICK w \in Timers : StartWorker(w, a)
    BY DEF Arm
  <1>3. /\ tracker' = w
        /\ \A v \in Timers \ {w} : worker'[v] = worker[v]
        /\ worker'[w].pc = "new" /\ worker'[w].live /\ worker'[w].by = a
        /\ worker'[w].seq = call[a].seq
    BY <1>1, <1>2, StartedWorker DEF Base
  <1>4. /\ up /\ Expiring = {} /\ Knows(a)
        /\ Outstanding => pdc.seq # NoSeq
        /\ \A v \in Timers : worker[v].live => v = tracker
    BY <1>1, Here
  <1>5. /\ \A b \in Actors \ {a} : call'[b] = call[b]
        /\ Facts(call[a].op, call[a].at)
        /\ \/ ~InCall(a)' /\ call[a].at = Len(Program[call[a].op])
           \/ /\ InCall(a)' /\ call[a].at # Len(Program[call[a].op])
              /\ call'[a].op = call[a].op /\ call'[a].seq = call[a].seq
              /\ StepOf(a)' = Program[call[a].op][call[a].at + 1]
    BY <1>1, AdvanceStep, Values
  <1>6. NoTimer \notin Timers
    BY PDCAssumption DEF NoTimer, Timers
  <1>7. tracker = NoTimer /\ call[a].op \in IssueOps \cup {"rearm"} /\ call[a].seq = pdc.seq
    BY <1>1, <1>4, <1>5 DEF Knows, Facts, StepOf
  <1>8. Expiring' = {} /\ \A v \in Timers : worker'[v].live => v = tracker'
    BY <1>3, <1>4, <1>6, <1>7 DEF Expiring
  <1>9. a \in Requests => pdc.web
    <2>1. a \in Requests => call[a].op \in SubmitOps
      BY <1>7 DEF Base, Carried, WebOps, IssueOps
    <2> QED
      BY <2>1, <1>1, <1>4 DEF Knows
  <1>10. Outstanding' => Timed'
    BY <1>1, <1>3, <1>6, <1>7, <1>9 DEF Timed, Outstanding
  <1>11. ASSUME InCall(a)' PROVE Knows(a)'
    BY <1>1, <1>4, <1>5, <1>7, <1>11
    DEF Knows, Facts, StepOf, IssueOps, SubmitOps, AckOps, VoiceOps
  <1> QED
    BY <1>1, <1>3, <1>4, <1>5, <1>8, <1>9, <1>10, <1>11, StatementSerial DEF Outstanding

\* A browser's request ends: it takes only timeouts of web clearances with it.
LEMMA ReturnSerial ==
    ASSUME Base, SerialNow, NEW a \in Actors, Return(a)
    PROVE  SerialNow'
  <1>1. /\ InCall(a) /\ StepOf(a) = "return" /\ call' = [call EXCEPT ![a] = Idle]
        /\ UNCHANGED <<pdc, tracker, up>>
    BY DEF Return, At, StepOf, row, world
  <1>2. /\ up /\ Expiring = {} /\ Knows(a)
        /\ Outstanding => pdc.seq # NoSeq
        /\ Outstanding => Timed \/ Untimed(a)
        /\ \A w \in Timers : worker[w].live => w = tracker
    BY <1>1, Here
  <1>3. TypeOK /\ Carried /\ tracker \in Timers \cup {NoTimer}
    BY DEF Base, TypeOK
  <1>4. ~InCall(a)' /\ \A b \in Actors \ {a} : call'[b] = call[b]
    BY <1>1, <1>3, ReturnIdle
  <1>5. \A w \in Timers : /\ worker'[w].pc = worker[w].pc /\ worker'[w].by = worker[w].by
                          /\ worker'[w].live => worker[w].live
                          /\ worker[w].by # a => worker'[w] = worker[w]
    BY <1>3, ReturnedWorkers
  <1>6. Expiring' = {}
    BY <1>2, <1>5 DEF Expiring
  <1>7. call[a].op \in WebOps /\ a \in Requests
    <2>1. Facts(call[a].op, call[a].at)
      BY <1>1, <1>3, InProgram
    <2>2. call[a].op \in WebOps
      BY <1>1, <2>1 DEF Facts, StepOf, WebOps
    <2> QED
      BY <2>2, <1>3 DEF Carried
  <1>8. ASSUME Outstanding' PROVE Timed'
    <2>1. Timed /\ ~pdc.web
      BY <1>1, <1>2, <1>7, <1>8 DEF Outstanding, Untimed, WebOps, SubmitOps, VoiceOps
    <2>2. worker[tracker].by # a
      BY <2>1, <1>7 DEF Timed
    <2> QED
      BY <2>1, <2>2, <1>1, <1>3, <1>5 DEF Timed
  <1> QED
    BY <1>1, <1>2, <1>4, <1>5, <1>6, <1>8, StatementSerial DEF Outstanding

\* A browser that hangs up leaves its handler at its return.
LEMMA FailSerial ==
    ASSUME Base, SerialNow, ~Outages, NEW r \in Actors, Fail(r)
    PROVE  SerialNow'
  <1>1. /\ r \in Requests /\ InCall(r) /\ Abort(r) /\ UNCHANGED <<pdc, tracker, worker, up>>
    BY DEF Fail, row, timers, world
  <1>2. /\ up /\ Expiring = {} /\ Knows(r)
        /\ Outstanding => pdc.seq # NoSeq
        /\ Outstanding => Timed \/ Untimed(r)
        /\ \A w \in Timers : worker[w].live => w = tracker
    BY <1>1, Here
  <1>3. TypeOK /\ Carried
    BY DEF Base
  <1>4. /\ \A b \in Actors \ {r} : call'[b] = call[b]
        /\ \/ call'[r] = Idle
           \/ /\ call'[r].op = call[r].op /\ StepOf(r)' = "return"
    BY <1>1, <1>3, AbortCall
  <1>5. call[r].op \in WebOps
    BY <1>1, <1>3 DEF Carried, InCall
  <1>6. ASSUME InCall(r)' PROVE Knows(r)'
    BY <1>4, <1>5, <1>6, Values DEF Knows, InCall, WebOps, SubmitOps, IssueOps, AckOps
  <1>7. ASSUME Outstanding' PROVE Timed'
    <2>1. Timed \/ Untimed(r)
      BY <1>1, <1>2, <1>7 DEF Outstanding
    <2>2. ~Untimed(r)
      BY <1>1, <1>2, <1>5, <1>7
      DEF Untimed, Knows, Outstanding, WebOps, SubmitOps, IssueOps, VoiceOps
    <2> QED
      BY <1>1, <2>1, <2>2 DEF Timed
  <1>8. Expiring' = {}
    BY <1>1, <1>2 DEF Expiring
  <1> QED
    BY <1>1, <1>2, <1>4, <1>6, <1>7, <1>8, StatementSerial DEF Outstanding

\* A start restores the timeout of an outstanding clearance.
LEMMA RestoreSerial ==
    ASSUME Base, SerialNow, Restore
    PROVE  SerialNow'
  <1>1. UNCHANGED <<pdc, tracker, worker, up>> /\ Poll \in Actors
    BY Values DEF Restore, row, timers, world
  <1>2. /\ InCall(Poll)
        /\ \A b \in Actors \ {Poll} : call'[b] = call[b]
        /\ \/ call'[Poll] = Idle /\ ~(pdc.state = "CLEARED" /\ pdc.seq # NoSeq)
           \/ /\ call'[Poll].op = "rearm" /\ StepOf(Poll)' = "stop" /\ call'[Poll].seq = pdc.seq
              /\ InCall(Poll)'
    BY RestoredCall DEF Base
  <1>3. /\ up /\ Expiring = {}
        /\ Outstanding => pdc.seq # NoSeq
        /\ \A w \in Timers : worker[w].live => w = tracker
    BY <1>1, <1>2, Here
  <1>4. Expiring' = {}
    BY <1>1, <1>3 DEF Expiring
  <1>5. CASE call'[Poll] = Idle /\ ~(pdc.state = "CLEARED" /\ pdc.seq # NoSeq)
    <2>1. ~InCall(Poll)' /\ ~Outstanding'
      BY <1>1, <1>3, <1>5, Values DEF InCall, Outstanding
    <2> QED
      BY <1>1, <1>2, <1>3, <1>4, <2>1, StatementSerial
  <1>6. CASE call'[Poll].op = "rearm" /\ StepOf(Poll)' = "stop" /\ call'[Poll].seq = pdc.seq /\ InCall(Poll)'
    <2>1. Knows(Poll)' /\ Untimed(Poll)'
      BY <1>1, <1>6 DEF Knows, Untimed, IssueOps, SubmitOps, AckOps
    <2> QED
      BY <1>1, <1>2, <1>3, <1>4, <1>6, <2>1, StatementSerial DEF Outstanding
  <1> QED
    BY <1>2, <1>5, <1>6

\* A call or a restart begins when nothing else runs.
LEMMA BeginSerial ==
    ASSUME Base, SerialNow, NEW a \in Actors, NEW op \in Ops,
           \A b \in Actors : ~InCall(b), Expiring = {},
           \A b \in Actors \ {a} : call'[b] = call[b],
           call'[a].op = op, call'[a].at = 1, call'[a].data = pdc,
           call'[a].cleared = cleared, call'[a].bay = bay,
           UNCHANGED <<pdc, cleared, bay, tracker, worker>>,
           up', up \/ op = "rearm"
    PROVE  SerialNow'
  <1>1. \A b \in Actors : InCall(b)' => b = a
    BY DEF InCall
  <1>2. Facts(op, 1) /\ StepOf(a)' = Program[op][1]
    <2>1. 1 \in 1..Len(Program[op])
      BY ProgramLengths
    <2> QED
      BY <2>1, ProgramFacts DEF StepOf
  <1>3. Expiring' = {}
    BY DEF Expiring
  <1>4. Alone'
    BY <1>1, <1>3 DEF SerialNow, Alone
  <1>5. Knows(a)'
    BY <1>2 DEF Knows, Facts, IssueOps, SubmitOps, AckOps, VoiceOps
  <1>6. \A w \in Timers : worker[w].pc \notin {"expired", "read", "mark"}
    BY DEF Expiring
  <1>7. InCall(a)'
    BY Values DEF InCall
  <1>8. TimerKept'
    <2>1. CASE up
      BY <2>1, <1>6 DEF SerialNow, TimerKept, Outstanding, Timed
    <2>2. CASE op = "rearm"
      <3>1. Untimed(a)'
        BY <2>2 DEF Untimed
      <3> QED
        BY <3>1, <1>6, <1>7 DEF SerialNow, TimerKept, Outstanding
    <2> QED
      BY <2>1, <2>2
  <1> QED
    BY <1>1, <1>4, <1>5, <1>8 DEF SerialNow

\* An expiry runs alone, for the tracked and only live timeout.
LEMMA ExpiryAlone ==
    ASSUME Base, SerialNow, NEW w \in Expiring
    PROVE  /\ worker[w].live /\ w = tracker /\ w \in Timers /\ up
           /\ \A a \in Actors : ~InCall(a)
           /\ \A v \in Expiring : v = w
           /\ worker[w].pc \notin {"expired", "read", "mark"} => ~Outstanding
  <1>1. worker[w].live /\ w = tracker /\ w \in Timers /\ up /\ \A a \in Actors : ~InCall(a)
    BY DEF SerialNow, Alone, Expiring
  <1>2. \A v \in Expiring : v = w
    BY <1>1 DEF SerialNow, Alone, Expiring
  <1>3. worker[w].pc \notin {"expired", "read", "mark"} => ~Outstanding
    <2>1. ~Timed
      BY <1>1 DEF Timed, Expiring
    <2> QED
      BY <1>1, <1>2, <2>1 DEF SerialNow, TimerKept, Expiring
  <1> QED
    BY <1>1, <1>2, <1>3

\* handleTimeout up to its wait, and its end by cancellation.
LEMMA WaitSerial ==
    ASSUME Base, SerialNow, NEW w \in Timers, LookUp(w) \/ Interrupted(w)
    PROVE  SerialNow'
  <1>1. /\ UNCHANGED <<pdc, cleared, bay, call, tracker, up>> /\ worker[w].pc \in {"new", "waiting"}
        /\ \/ Exit(w) /\ (tracker = NoTimer \/ ~worker[w].live)
           \/ Goto(w, "waiting", NoData)
    BY DEF LookUp, Interrupted, row, world
  <1>2. TypeOK /\ tracker \in Timers \cup {NoTimer} /\ NoTimer \notin Timers /\ "waiting" \in WorkerPC
    BY PDCAssumption DEF Base, TypeOK, NoTimer, Timers, WorkerPC
  <1>3. /\ \A v \in Timers \ {w} : worker'[v] = worker[v]
        /\ \/ worker'[w] = NoWorker /\ (tracker = NoTimer \/ ~worker[w].live)
           \/ /\ worker'[w].pc = "waiting" /\ worker'[w].live = worker[w].live
              /\ worker'[w].by = worker[w].by /\ worker'[w].seq = worker[w].seq
    BY <1>1, <1>2, ExitWorker, GotoWorker, Values
  <1>4. \A a \in Actors : InCall(a)' = InCall(a) /\ StepOf(a)' = StepOf(a)
    BY <1>1 DEF InCall, StepOf
  <1>5. Expiring' = Expiring
    BY <1>1, <1>3, Values DEF Expiring
  <1>6. NoWorker.pc = "none" /\ ~NoWorker.live /\ NoWorker.by = Poll /\ Poll \notin Requests
    BY Values DEF NoWorker
  <1>7. Alone'
    <2>1. up
      BY <1>1 DEF SerialNow, Alone
    <2>2. \A v \in Timers : worker'[v].live => v = tracker'
      BY <1>1, <1>3, <1>6 DEF SerialNow, Alone
    <2>3. \A v \in Expiring' : worker'[v].live
      BY <1>1, <1>3, <1>5 DEF SerialNow, Alone, Expiring
    <2> QED
      BY <1>1, <1>4, <1>5, <2>1, <2>2, <2>3 DEF SerialNow, Alone
  <1>8. ASSUME NEW a \in Actors, InCall(a)' PROVE Knows(a)'
    BY <1>1, <1>4, <1>8 DEF SerialNow, Knows
  <1>9. TimerKept'
    <2>1. Timed => Timed'
      BY <1>1, <1>2, <1>3 DEF Timed
    <2>2. \A a \in Actors : Untimed(a) => Untimed(a)'
      BY <1>1, <1>4 DEF Untimed
    <2>3. \A v \in Timers : worker[v].pc \in {"expired", "read", "mark"} => worker'[v].pc = worker[v].pc
      BY <1>1, <1>3
    <2>4. \A v \in Timers : worker'[v].pc = "mark" => worker'[v] = worker[v]
      BY <1>3, <1>6
    <2> QED
      BY <1>1, <1>4, <2>1, <2>2, <2>3, <2>4 DEF SerialNow, TimerKept, Outstanding
  <1> QED
    BY <1>7, <1>8, <1>9 DEF SerialNow

\* What an expiry has to show: it stays alone, live and tracked, or is over.
LEMMA ExpirySerial ==
    ASSUME Base, SerialNow, NEW w \in Timers, up, w = tracker,
           \A a \in Actors : ~InCall(a), \A v \in Timers \ {w} : v \notin Expiring,
           UNCHANGED <<call, up>>,
           \A v \in Timers \ {w} : worker'[v] = worker[v],
           \/ worker'[w] = NoWorker /\ tracker' = NoTimer
           \/ worker'[w].live /\ worker'[w].by = worker[w].by /\ tracker' = tracker,
           Outstanding' => pdc' = pdc /\ worker'[w].pc \in {"expired", "read", "mark"},
           worker'[w].pc = "mark" => worker'[w].data = pdc'
    PROVE  SerialNow'
  <1>1. \A a \in Actors : ~InCall(a)'
    BY DEF InCall
  <1>2. \A v \in Timers \ {w} : v \notin Expiring'
    BY DEF Expiring
  <1>3. NoWorker.pc = "none" /\ ~NoWorker.live /\ NoTimer \notin Timers
    BY Values, PDCAssumption DEF NoTimer, Timers
  <1>4. Alone'
    BY <1>1, <1>2, <1>3 DEF SerialNow, Alone, Expiring
  <1>5. TimerKept'
    BY <1>2, <1>3 DEF SerialNow, TimerKept, Outstanding, Expiring
  <1> QED
    BY <1>1, <1>4, <1>5 DEF SerialNow

\* The expiry itself, from the end of the delay to the removal of the tracker.
LEMMA ExpirySteps ==
    ASSUME Base, SerialNow, ~removed, ~Overlap, ~Outages, NEW w \in Timers,
           \/ Elapse(w) \/ Reload(w) \/ ReadExpired(w) \/ MarkNoResponse(w)
           \/ UnclearExpired(w) \/ Forget(w)
    PROVE  SerialNow'
  <1>0. TypeOK /\ pdc \in PdcData /\ NoData \in PdcData /\ UNCHANGED <<call, up>>
        /\ {"expired", "read", "mark", "unclear", "end"} \subseteq WorkerPC
    BY Values DEF Base, TypeOK, WorkerPC, Elapse, Reload, ReadExpired, MarkNoResponse, UnclearExpired, Forget, world
  <1>1. CASE Elapse(w)
    <2>1. Quiet /\ worker[w].live /\ w = tracker /\ Goto(w, "expired", NoData) /\ UNCHANGED <<pdc, tracker>>
      BY <1>1 DEF Elapse, Settled, SerialNow, Alone, row
    <2>2. /\ \A v \in Timers \ {w} : worker'[v] = worker[v]
          /\ worker'[w].pc = "expired" /\ worker'[w].live = worker[w].live /\ worker'[w].by = worker[w].by
      BY <1>0, <2>1, GotoWorker
    <2>3. up
      BY <1>1 DEF Elapse, SerialNow, Alone
    <2> QED
      BY <1>0, <2>1, <2>2, <2>3, ExpirySerial DEF Quiet
  <1>2. CASE worker[w].pc \in {"expired", "read", "mark", "unclear", "end"}
    <2>1. w \in Expiring
      BY <1>2 DEF Expiring
    <2>2. /\ worker[w].live /\ w = tracker /\ up
          /\ \A a \in Actors : ~InCall(a)
          /\ \A v \in Expiring : v = w
          /\ worker[w].pc \notin {"expired", "read", "mark"} => ~Outstanding
      BY <2>1, ExpiryAlone
    <2>0. Answers(w) = {TRUE}
      BY <2>2 DEF Answers
    <2>3. CASE Reload(w)
      <3> DEFINE pc == IF pdc.state = "CLEARED" THEN "read" ELSE "end"
      <3>1. Goto(w, pc, NoData) /\ UNCHANGED <<pdc, tracker>>
        BY <2>0, <2>3 DEF Reload, row
      <3>2. pc \in {"read", "end"} /\ (Outstanding => pc = "read")
        BY <2>2 DEF Outstanding
      <3> HIDE DEF pc
      <3>3. /\ \A v \in Timers \ {w} : worker'[v] = worker[v]
            /\ worker'[w].pc = pc /\ worker'[w].live = worker[w].live /\ worker'[w].by = worker[w].by
        BY <1>0, <3>1, <3>2, GotoWorker
      <3> QED
        BY <1>0, <2>2, <3>1, <3>2, <3>3, ExpirySerial DEF Outstanding
    <2>4. CASE ReadExpired(w)
      <3>1. Goto(w, "mark", pdc) /\ UNCHANGED <<pdc, tracker>>
        BY <2>0, <2>4 DEF ReadExpired, row
      <3>2. /\ \A v \in Timers \ {w} : worker'[v] = worker[v]
            /\ worker'[w].pc = "mark" /\ worker'[w].live = worker[w].live /\ worker'[w].by = worker[w].by
            /\ worker'[w].data = pdc
        BY <1>0, <3>1, GotoWorker
      <3> QED
        BY <1>0, <2>2, <3>1, <3>2, ExpirySerial
    <2>5. CASE MarkNoResponse(w)
      <3>1. /\ Goto(w, "unclear", NoData) /\ UNCHANGED tracker
            /\ pdc' = [worker[w].data EXCEPT !.state = "NO_RESPONSE"] /\ worker[w].data = pdc
        BY <2>0, <2>5 DEF MarkNoResponse, SerialNow, TimerKept
      <3>2. pdc'.web = pdc.web /\ pdc'.state = "NO_RESPONSE"
        BY <1>0, <3>1 DEF PdcData
      <3>3. /\ \A v \in Timers \ {w} : worker'[v] = worker[v]
            /\ worker'[w].pc = "unclear" /\ worker'[w].live = worker[w].live /\ worker'[w].by = worker[w].by
        BY <1>0, <3>1, GotoWorker
      <3> QED
        BY <1>0, <2>2, <3>1, <3>2, <3>3, ExpirySerial DEF Outstanding
    <2>6. CASE UnclearExpired(w)
      <3>1. Goto(w, "end", NoData) /\ UNCHANGED <<pdc, tracker>> /\ worker[w].pc = "unclear"
        BY <2>6 DEF UnclearExpired
      <3>2. /\ \A v \in Timers \ {w} : worker'[v] = worker[v]
            /\ worker'[w].pc = "end" /\ worker'[w].live = worker[w].live /\ worker'[w].by = worker[w].by
        BY <1>0, <3>1, GotoWorker
      <3> QED
        BY <1>0, <2>2, <3>1, <3>2, ExpirySerial DEF Outstanding
    <2>7. CASE Forget(w)
      <3>1. Exit(w) /\ tracker' = NoTimer /\ UNCHANGED pdc /\ worker[w].pc = "end"
        BY <2>7 DEF Forget, row
      <3>2. worker'[w] = NoWorker /\ \A v \in Timers \ {w} : worker'[v] = worker[v]
        BY <1>0, <3>1, ExitWorker
      <3> QED
        BY <1>0, <2>2, <3>1, <3>2, ExpirySerial, Values DEF Outstanding
    <2> QED
      BY <1>1, <2>3, <2>4, <2>5, <2>6, <2>7
  <1> QED
    BY <1>1, <1>2 DEF Reload, ReadExpired, MarkNoResponse, UnclearExpired, Forget

\* One call and one expiry at a time: every step keeps the serial invariant.
LEMMA SerialStep ==
    ASSUME ~Overlap, ~Outages, Base, Serial, [Next]_vars
    PROVE  Serial'
  <1> SUFFICES ASSUME ~removed' PROVE SerialNow'
    BY DEF Serial
  <1>0. ~removed /\ SerialNow
    <2>1. ~removed
      BY Entries
      DEF Base, Next, Entry, StepCall, StepWorker, Read, Set, Persist, SaveWebRequest, MoveIssued,
          RaiseConfirmed, SaveConfirmed, RaiseByVoice, Lower, Unclear, Recheck, Wipe, Stop, Arm, Return,
          Restore, Fail, SaveReviewed, SaveSynced, LookUp, Interrupted, Elapse, Reload, ReadExpired, MarkNoResponse,
          UnclearExpired, Forget, RemoveSession, Crash, Restart, vars, world
    <2> QED
      BY <2>1 DEF Serial
  <1>1. CASE EnterCall
    <2>1. PICK a \in Actors, op \in Ops, n \in Nat, st \in States : Entry(a, op, n, st)
      BY <1>1, Entries DEF Base
    <2>2. /\ \A b \in Actors : ~InCall(b) /\ Expiring = {} /\ up
          /\ UNCHANGED <<pdc, cleared, bay, tracker, worker, up>>
      BY <2>1 DEF Entry, MayEnter, Settled, Quiet, row, timers, world
    <2>3. /\ \A b \in Actors \ {a} : call'[b] = call[b]
          /\ call'[a].op = op /\ call'[a].at = 1 /\ call'[a].data = pdc
          /\ call'[a].cleared = cleared /\ call'[a].bay = bay
      BY <2>1, EnterNew DEF Base, Entry
    <2> QED
      BY <1>0, <2>2, <2>3, BeginSerial
  <1>2. ASSUME NEW a \in Actors, StepCall(a) PROVE SerialNow'
    BY <1>0, <1>2, QuietStatements, WritingStatements, RecheckSerial, StopSerial, ArmSerial,
       ReturnSerial, RestoreSerial, RowSerial DEF StepCall
  <1>3. ASSUME NEW r \in Actors, Fail(r) PROVE SerialNow'
    BY <1>0, <1>3, FailSerial
  <1>4. ASSUME NEW w \in Timers, StepWorker(w) \/ Elapse(w) PROVE SerialNow'
    BY <1>0, <1>4, WaitSerial, ExpirySteps DEF StepWorker
  <1>5. CASE RemoveSession
    BY <1>5 DEF RemoveSession
  <1>6. CASE Crash
    <2>1. /\ call' = [a \in Actors |-> Idle] /\ tracker' = NoTimer /\ ~up'
          /\ worker' = [w \in Timers |-> NoWorker] /\ pdc' = pdc
      BY <1>6 DEF Crash, row
    <2>2. \A a \in Actors : ~InCall(a)'
      BY <2>1, Values DEF InCall
    <2>3. \A w \in Timers : worker'[w].pc = "none" /\ ~worker'[w].live
      BY <2>1, Values
    <2>4. Expiring' = {}
      BY <2>3 DEF Expiring
    <2>5. Alone'
      BY <2>2, <2>3, <2>4 DEF Alone
    <2>6. TimerKept'
      BY <1>0, <2>1, <2>3 DEF SerialNow, TimerKept, Outstanding
    <2> QED
      BY <2>2, <2>5, <2>6 DEF SerialNow
  <1>7. CASE Restart
    <2>1. /\ Enter(Poll, "rearm", NoSeq, "NONE") /\ ~up /\ up'
          /\ UNCHANGED <<pdc, cleared, bay, tracker, worker>>
      BY <1>7 DEF Restart, row, timers
    <2>2. /\ "rearm" \in Ops /\ "NONE" \in States /\ NoSeq \in Nat /\ Poll \in Actors
          /\ "rearm" \notin IssueOps \cup WebOps /\ Poll \notin Requests
      BY OpsAre, Values DEF States, NoSeq, IssueOps, WebOps, SubmitOps
    <2>3. /\ \A b \in Actors \ {Poll} : call'[b] = call[b]
          /\ call'[Poll].op = "rearm" /\ call'[Poll].at = 1 /\ call'[Poll].data = pdc
          /\ call'[Poll].cleared = cleared /\ call'[Poll].bay = bay
      BY <2>1, <2>2, EnterNew DEF Base
    <2>4. (\A b \in Actors : ~InCall(b)) /\ Expiring = {}
      BY <1>0, <2>1 DEF SerialNow, Alone, Expiring
    <2> QED
      BY <1>0, <2>1, <2>2, <2>3, <2>4, BeginSerial
  <1>8. CASE UNCHANGED vars
    BY <1>0, <1>8
    DEF SerialNow, Alone, Knows, TimerKept, Outstanding, Timed, Untimed, Expiring, StepOf, InCall,
        vars, row, timers, world
  <1> QED
    BY <1>1, <1>2, <1>3, <1>4, <1>5, <1>6, <1>7, <1>8 DEF Next

\* Nothing is outstanding at the start.
LEMMA SerialInit == Init => Serial
  <1> SUFFICES ASSUME Init PROVE SerialNow
    BY DEF Serial
  <1>1. \A a \in Actors : ~InCall(a)
    BY Values DEF Init, InCall
  <1>2. tracker = NoTimer /\ \A w \in Timers : worker[w].pc = "none" /\ ~worker[w].live
    BY Values DEF Init
  <1>3. up /\ ~Outstanding /\ Expiring = {}
    BY <1>2, Values DEF Init, Outstanding, Expiring
  <1> QED
    BY <1>1, <1>2, <1>3 DEF SerialNow, Alone, TimerKept

\* Calls and expiries one after the other, and a database that answers: an
\* outstanding datalink clearance is in the timeout map with a live goroutine
\* that carries its number, after any sequence of requests, answers, failed
\* deliveries, hang-ups and restarts.
THEOREM PDCOutstandingTimed ==
    ASSUME ~Overlap, ~Outages
    PROVE  Spec => []OutstandingTimed
  <1>1. Base /\ Serial => OutstandingTimed
    <2> SUFFICES ASSUME Base, Serial, Quiet, up, ~removed, pdc.state = "CLEARED", ~pdc.web
                 PROVE  Timed
      BY DEF OutstandingTimed, Timed
    <2>1. SerialNow /\ Outstanding
      BY DEF Serial, Outstanding
    <2>2. \A w \in Timers : worker[w].pc \notin {"expired", "read", "mark"}
      BY DEF Quiet, Expiring
    <2> QED
      BY <2>1, <2>2 DEF SerialNow, TimerKept, Quiet
  <1>2. Base /\ Serial /\ [Next]_vars => Serial'
    BY SerialStep
  <1> QED
    BY <1>1, <1>2, SerialInit, PDCInvariant, PTL DEF Spec

-----------------------------------------------------------------------------
(* One after the other: a withdrawn clearance is taken back *)

\* What a goroutine in a call may rely on.
LEMMA HereLowered ==
    ASSUME Base, SerialNow, LoweredNow, NEW a \in Actors, InCall(a)
    PROVE  /\ Minds(a) /\ Knows(a) /\ Facts(call[a].op, call[a].at)
           /\ pdc.state \in Withdrawn => Down \/ shown \/ Lowering(a)
  <1>1. Expiring = {} /\ Knows(a) /\ \A b \in Actors : InCall(b) => b = a
    BY Here
  <1>2. \A w \in Timers : worker[w].pc # "unclear"
    BY <1>1 DEF Expiring
  <1>3. Facts(call[a].op, call[a].at)
    BY InProgram DEF Base
  <1> QED
    BY <1>1, <1>2, <1>3 DEF LoweredNow

\* What a statement has to show.
LEMMA StatementLowered ==
    ASSUME Base, SerialNow, NEW a \in Actors, InCall(a),
           \A b \in Actors \ {a} : call'[b] = call[b],
           InCall(a)' => Minds(a)',
           pdc'.state \in Withdrawn => Down' \/ shown' \/ (InCall(a)' /\ Lowering(a)')
    PROVE  LoweredNow'
  <1>1. \A b \in Actors : InCall(b) => b = a
    BY Here
  <1>2. \A b \in Actors : InCall(b)' => b = a
    BY <1>1 DEF InCall
  <1> QED
    BY <1>2 DEF LoweredNow

\* A statement that leaves pdc_data alone: the flag of a withdrawn clearance
\* goes up only on the way to a statement that ends the withdrawal.
LEMMA KeepingLowered ==
    ASSUME Base, SerialNow, LoweredNow, ~Leaves, NEW a \in Actors,
           \/ Read(a) \/ MoveIssued(a) \/ RaiseConfirmed(a) \/ RaiseByVoice(a)
           \/ Lower(a) \/ Unclear(a) \/ Stop(a) \/ Arm(a)
    PROVE  LoweredNow'
  <1>0. InCall(a)
    BY DEF Read, MoveIssued, RaiseConfirmed, RaiseByVoice, Lower, Unclear, Stop, Arm, At
  <1>1. PICK d \in PdcData : Advance(a, d) /\ UNCHANGED <<pdc, shown>>
    <2>1. pdc \in PdcData /\ call[a].data \in PdcData /\ NoData \in PdcData
      BY <1>0, InProgram, Values DEF Base, TypeOK
    <2> QED
      BY <2>1 DEF Read, MoveIssued, RaiseConfirmed, RaiseByVoice, Lower, Unclear, Stop, Arm, row, world
  <1>2. \/ StepOf(a) \in {"read", "stop", "arm"} /\ UNCHANGED <<cleared, bay>>
        \/ StepOf(a) \in {"move", "flag", "raise"}
        \/ StepOf(a) = "lower" /\ ~cleared' /\ bay' = bay
        \/ StepOf(a) = "unclear" /\ Down'
    BY DEF Read, MoveIssued, RaiseConfirmed, RaiseByVoice, Lower, Unclear, Stop, Arm, At, StepOf, row,
           Authority, Down
  <1>3. /\ Minds(a) /\ Knows(a)
        /\ pdc.state \in Withdrawn => Down \/ shown \/ Lowering(a)
    BY <1>0, HereLowered
  <1>4. /\ \A b \in Actors \ {a} : call'[b] = call[b]
        /\ Facts(call[a].op, call[a].at)
        /\ \/ ~InCall(a)' /\ call[a].at = Len(Program[call[a].op])
           \/ /\ InCall(a)' /\ call[a].at # Len(Program[call[a].op])
              /\ call'[a].op = call[a].op /\ call'[a].state = call[a].state
              /\ StepOf(a)' = Program[call[a].op][call[a].at + 1]
    BY <1>0, <1>1, AdvanceStep
  <1>5. ASSUME InCall(a)' PROVE Minds(a)'
    <2>1. StepOf(a)' # "raise"
      BY <1>2, <1>4, <1>5 DEF Facts, StepOf
    <2> QED
      BY <1>1, <1>3, <1>4, <1>5, <2>1 DEF Minds
  <1>6. ASSUME pdc'.state \in Withdrawn PROVE Down' \/ shown' \/ (InCall(a)' /\ Lowering(a)')
    <2>0. pdc.state \in Withdrawn /\ shown' = shown /\ (Down \/ shown \/ Lowering(a))
      BY <1>1, <1>3, <1>6
    <2>1. CASE StepOf(a) \in {"read", "stop", "arm"} /\ UNCHANGED <<cleared, bay>>
      BY <1>4, <2>0, <2>1 DEF Lowering, Down, Facts, StepOf, AckOps, VoiceOps
    <2>2. CASE StepOf(a) = "move"
      BY <1>3, <1>4, <2>0, <2>2 DEF Knows, Facts, StepOf, Withdrawn
    <2>3. CASE StepOf(a) = "flag"
      BY <1>4, <2>3 DEF Lowering, Facts, StepOf
    <2>4. CASE StepOf(a) = "raise"
      BY <1>3, <1>4, <2>0, <2>4 DEF Minds, Lowering, Facts, StepOf, VoiceOps
    <2>5. CASE StepOf(a) = "lower" /\ ~cleared' /\ bay' = bay
      BY <1>4, <2>0, <2>5 DEF Lowering, Down, Facts, StepOf, AckOps
    <2> QED
      BY <1>2, <2>1, <2>2, <2>3, <2>4, <2>5
  <1> QED
    BY <1>0, <1>4, <1>5, <1>6, StatementLowered

\* A statement that writes pdc_data: only a withdrawal leaves a withdrawn row,
\* and its next statement takes the strip back.
LEMMA WritingLowered ==
    ASSUME Base, SerialNow, LoweredNow, ~removed, NEW a \in Actors,
           Set(a) \/ Persist(a) \/ SaveWebRequest(a) \/ SaveConfirmed(a) \/ Wipe(a)
    PROVE  LoweredNow'
  <1>1. /\ InCall(a) /\ Advance(a, NoData) /\ UNCHANGED <<cleared, bay>>
        /\ \/ StepOf(a) = "set" /\ pdc' = [call[a].data EXCEPT !.state = call[a].state]
           \/ StepOf(a) = "persist" /\ pdc' = [call[a].data EXCEPT !.state = "CLEARED", !.seq = call[a].seq]
           \/ StepOf(a) = "submit" /\ pdc' = [call[a].data EXCEPT !.seq = NoSeq, !.web = TRUE]
           \/ StepOf(a) = "confirm" /\ pdc' = [call[a].data EXCEPT !.state = "CONFIRMED"]
           \/ StepOf(a) = "wipe" /\ pdc' = NoData
    BY DEF Set, Persist, SaveWebRequest, SaveConfirmed, Wipe, At, StepOf
  <1>7. StepOf(a) = "submit" => shown' = shown
    BY DEF Set, Persist, SaveWebRequest, SaveConfirmed, Wipe, At, StepOf, world
  <1>2. /\ Minds(a) /\ Knows(a) /\ call[a].data \in PdcData
        /\ pdc.state \in Withdrawn => Down \/ shown \/ Lowering(a)
    BY <1>1, HereLowered, InProgram DEF Base
  <1>3. /\ \A b \in Actors \ {a} : call'[b] = call[b]
        /\ Facts(call[a].op, call[a].at)
        /\ \/ ~InCall(a)' /\ call[a].at = Len(Program[call[a].op])
           \/ /\ InCall(a)' /\ call[a].at # Len(Program[call[a].op])
              /\ call'[a].op = call[a].op /\ call'[a].state = call[a].state
              /\ StepOf(a)' = Program[call[a].op][call[a].at + 1]
    BY <1>1, AdvanceStep, Values
  <1>4. /\ StepOf(a) = "set" => pdc'.state = call[a].state
        /\ StepOf(a) = "submit" => pdc'.state = pdc.state
        /\ StepOf(a) \in {"persist", "confirm", "wipe"} => pdc'.state \notin Withdrawn
        /\ StepOf(a) \in {"set", "persist", "submit", "confirm", "wipe"}
    <2>1. CASE StepOf(a) = "set"
      BY <1>1, <1>2, <2>1 DEF PdcData
    <2>2. CASE StepOf(a) = "persist"
      BY <1>1, <1>2, <2>2 DEF PdcData, Withdrawn
    <2>3. CASE StepOf(a) = "submit"
      BY <1>1, <1>2, <2>3 DEF PdcData, Knows
    <2>4. CASE StepOf(a) = "confirm"
      BY <1>1, <1>2, <2>4 DEF PdcData, Withdrawn
    <2>5. CASE StepOf(a) = "wipe"
      BY <1>1, <2>5, Values DEF Withdrawn
    <2> QED
      BY <1>1, <2>1, <2>2, <2>3, <2>4, <2>5
  <1>5. ASSUME InCall(a)' PROVE Minds(a)'
    BY <1>2, <1>3, <1>4, <1>5 DEF Minds, Facts, StepOf, AckOps, SubmitOps
  <1>6. ASSUME pdc'.state \in Withdrawn PROVE Down' \/ shown' \/ (InCall(a)' /\ Lowering(a)')
    <2>1. CASE StepOf(a) = "set"
      BY <1>2, <1>3, <1>4, <1>6, <2>1 DEF Minds, Lowering, Facts, StepOf
    <2>2. CASE StepOf(a) = "submit"
      BY <1>1, <1>2, <1>3, <1>4, <1>6, <1>7, <2>2 DEF Lowering, Down, Facts, StepOf, SubmitOps, AckOps
    <2> QED
      BY <1>4, <1>6, <2>1, <2>2
  <1> QED
    BY <1>1, <1>3, <1>5, <1>6, StatementLowered

\* Statements that only move the call on, and the end of a call.
LEMMA MovingLowered ==
    ASSUME Base, SerialNow, LoweredNow, ~Leaves, NEW a \in Actors,
           Recheck(a) \/ Return(a) \/ (a \in Requests /\ Fail(a)) \/ (a = Poll /\ Restore)
    PROVE  LoweredNow'
  <1>1. InCall(a) /\ UNCHANGED <<pdc, cleared, bay, shown>>
    BY DEF Recheck, Authority, Return, Fail, Restore, At, row, world
  <1>2. /\ Minds(a) /\ Knows(a) /\ Facts(call[a].op, call[a].at)
        /\ pdc.state \in Withdrawn => Down \/ shown \/ Lowering(a)
    BY <1>1, HereLowered
  <1>3. TypeOK /\ Carried /\ NoData \in PdcData /\ "NONE" \notin Withdrawn
    BY Values DEF Base, Withdrawn
  <1>4. CASE Recheck(a) /\ pdc.state # "NONE"
    <2>1. Advance(a, NoData) /\ StepOf(a) = "recheck"
      BY <1>4 DEF Recheck, Authority, At, StepOf
    <2>2. /\ \A b \in Actors \ {a} : call'[b] = call[b]
          /\ \/ ~InCall(a)' /\ call[a].at = Len(Program[call[a].op])
             \/ /\ InCall(a)' /\ call[a].at # Len(Program[call[a].op])
                /\ call'[a].op = call[a].op /\ call'[a].state = call[a].state
                /\ StepOf(a)' = Program[call[a].op][call[a].at + 1]
      BY <1>1, <1>3, <2>1, AdvanceStep
    <2>3. call[a].op \in VoiceOps /\ InCall(a)' /\ StepOf(a)' = "stop"
      BY <1>2, <2>1, <2>2 DEF Facts, StepOf
    <2>4. Minds(a)'
      BY <1>1, <1>2, <2>2, <2>3 DEF Minds
    <2>5. pdc'.state \in Withdrawn => Down' \/ shown' \/ Lowering(a)'
      BY <1>1, <1>2, <2>1, <2>2, <2>3 DEF Lowering, Down, AckOps
    <2> QED
      BY <1>1, <2>2, <2>3, <2>4, <2>5, StatementLowered
  <1>5. CASE Recheck(a) /\ pdc.state = "NONE" /\ call[a].op = "voiceFlag"
    <2>1. RaisesInstead(a)
      BY <1>5 DEF Recheck, Authority, RaisesInstead
    <2>2. /\ \A b \in Actors \ {a} : call'[b] = call[b]
          /\ call'[a].op = "raise"
      BY <1>3, <1>5, <2>1, RaisedInstead
    <2>3. call'[a].state = call[a].state
      <3> DEFINE next == [call[a] EXCEPT !.op = "raise", !.at = 1]
      <3>1. call \in [Actors -> Calls] /\ call' = [call EXCEPT ![a] = next]
        BY <1>3, <2>1 DEF TypeOK, RaisesInstead
      <3>2. next.state = call[a].state
        BY <3>1 DEF Calls
      <3> HIDE DEF next
      <3> QED
        BY <3>1, <3>2
    <2>4. Minds(a)'
      BY <1>1, <1>2, <1>3, <1>5, <2>2, <2>3 DEF Minds
    <2> QED
      BY <1>1, <1>3, <1>5, <2>2, <2>4, StatementLowered
  <1>6. CASE Recheck(a) /\ pdc.state = "NONE" /\ call[a].op # "voiceFlag"
    <2>1. call' = [call EXCEPT ![a] = Idle]
      BY <1>6 DEF Recheck, Authority
    <2>2. ~InCall(a)' /\ \A b \in Actors \ {a} : call'[b] = call[b]
      BY <1>3, <2>1, ReturnIdle
    <2> QED
      BY <1>1, <1>3, <1>6, <2>2, StatementLowered
  <1>7. CASE Return(a)
    <2>1. call' = [call EXCEPT ![a] = Idle] /\ StepOf(a) = "return"
      BY <1>7 DEF Return, At, StepOf
    <2>2. ~InCall(a)' /\ \A b \in Actors \ {a} : call'[b] = call[b]
      BY <1>3, <2>1, ReturnIdle
    <2>3. pdc'.state \in Withdrawn => Down' \/ shown'
      BY <1>1, <1>2, <2>1 DEF Lowering, Down
    <2> QED
      BY <1>1, <2>2, <2>3, StatementLowered
  <1>8. CASE a \in Requests /\ Fail(a)
    <2>1. Abort(a) /\ call[a].op \in WebOps
      BY <1>1, <1>3, <1>8 DEF Fail, Carried, InCall
    <2>2. /\ \A b \in Actors \ {a} : call'[b] = call[b]
          /\ call'[a] = Idle \/ (call'[a].op = call[a].op /\ StepOf(a)' = "return")
      BY <1>1, <1>3, <2>1, AbortCall
    <2>3. call'[a] = Idle \/ call'[a].state = call[a].state
      <3> DEFINE next == [call[a] EXCEPT !.at = Len(Program[call[a].op])]
      <3>1. call \in [Actors -> Calls] /\ call' = [call EXCEPT ![a] = next]
        BY <1>3, <1>8, <2>1 DEF TypeOK, Abort
      <3>2. next.state = call[a].state
        BY <3>1 DEF Calls
      <3> HIDE DEF next
      <3> QED
        BY <3>1, <3>2
    <2>4. ASSUME InCall(a)' PROVE Minds(a)'
      <3>1. call'[a].op = call[a].op /\ StepOf(a)' = "return" /\ call'[a].state = call[a].state
        BY <2>2, <2>3, <2>4, Values DEF InCall
      <3> QED
        BY <1>1, <1>2, <3>1 DEF Minds
    <2>5. pdc'.state \in Withdrawn => Down' \/ shown'
      BY <1>1, <1>2, <2>1 DEF Lowering, Down, Minds, WebOps, SubmitOps, AckOps
    <2> QED
      BY <1>1, <2>2, <2>4, <2>5, StatementLowered
  <1>9. CASE a = Poll /\ Restore
    <2>1. /\ call[a].op = "rearm"
          /\ \A b \in Actors \ {a} : call'[b] = call[b]
          /\ call'[a] = Idle \/ (call'[a].op = "rearm" /\ StepOf(a)' = "stop")
      BY <1>3, <1>9, RestoredCall
    <2>2. call'[a] = Idle \/ call'[a].state = call[a].state
      <3> DEFINE next == [call[Poll] EXCEPT !.at = 2, !.seq = pdc.seq]
      <3>1. call \in [Actors -> Calls] /\ (call' = [call EXCEPT ![a] = next] \/ call' = [call EXCEPT ![a] = Idle])
        BY <1>3, <1>9 DEF TypeOK, Restore
      <3>2. next.state = call[a].state
        BY <1>9, <3>1 DEF Calls
      <3> HIDE DEF next
      <3> QED
        BY <3>1, <3>2
    <2>3. ASSUME InCall(a)' PROVE Minds(a)'
      <3>1. call'[a].op = "rearm" /\ StepOf(a)' = "stop" /\ call'[a].state = call[a].state
        BY <2>1, <2>2, <2>3, Values DEF InCall
      <3> QED
        BY <1>1, <1>2, <2>1, <3>1 DEF Minds
    <2>4. pdc'.state \in Withdrawn => Down' \/ shown'
      BY <1>1, <1>2, <2>1 DEF Lowering, Down, AckOps
    <2> QED
      BY <1>1, <2>1, <2>3, <2>4, StatementLowered
  <1> QED
    BY <1>4, <1>5, <1>6, <1>7, <1>8, <1>9

\* A whole row is written back: a withdrawn flight is left as it is, or shown
\* cleared by EuroScope.
LEMMA RowLowered ==
    ASSUME Base, SerialNow, LoweredNow, NEW a \in Actors, SaveReviewed(a) \/ SaveSynced(a)
    PROVE  LoweredNow'
  <1>1. InCall(a) /\ StepOf(a) \in {"sync", "review"} /\ Advance(a, NoData)
    BY DEF SaveReviewed, SaveSynced, At, StepOf
  <1>2. /\ Knows(a) /\ Facts(call[a].op, call[a].at)
        /\ pdc.state \in Withdrawn => Down \/ shown \/ Lowering(a)
    BY <1>1, HereLowered
  <1>3. /\ \A b \in Actors \ {a} : call'[b] = call[b]
        /\ ~InCall(a)' \/ call[a].at # Len(Program[call[a].op])
    BY <1>1, AdvanceStep, Values
  <1>4. ~InCall(a)' /\ ~Lowering(a)
    BY <1>1, <1>2, <1>3 DEF Facts, StepOf, Lowering
  <1>5. call[a].data = pdc /\ call[a].cleared = cleared /\ call[a].bay = bay
    BY <1>1, <1>2 DEF Knows
  <1>6. ASSUME pdc'.state \in Withdrawn PROVE Down' \/ shown'
    <2>1. CASE SaveReviewed(a)
      BY <1>2, <1>4, <1>5, <1>6, <2>1 DEF SaveReviewed, Down, world
    <2>2. CASE SaveSynced(a)
      <3>1. PICK flag \in BOOLEAN, refiled \in BOOLEAN : \E b \in (IF flag THEN {"CLEARED"} ELSE Bays) :
               /\ pdc' = IF refiled THEN NoData ELSE call[a].data
               /\ cleared' = (flag \/ (~refiled /\ KeepsFlag(call[a])))
               /\ bay' = IF ~flag /\ ~refiled /\ b = "NOT_CLEARED" /\ KeepsBay(call[a]) THEN call[a].bay ELSE b
               /\ shown' = (flag \/ b # "NOT_CLEARED")
        BY <2>2 DEF SaveSynced
      <3>2. ~refiled /\ pdc.state \in Withdrawn
        BY <1>5, <1>6, <3>1, Values DEF Withdrawn
      <3>3. ~KeepsFlag(call[a]) /\ ~KeepsBay(call[a])
        BY <1>5, <3>2 DEF KeepsFlag, KeepsBay, Withdrawn
      <3> QED
        BY <3>1, <3>2, <3>3 DEF Down
    <2> QED
      BY <2>1, <2>2
  <1> QED
    BY <1>1, <1>3, <1>4, <1>6, StatementLowered

\* A timeout goroutine: the expiry withdraws the row and then takes the strip
\* back, under the live context it runs in.
LEMMA ExpiryLowered ==
    ASSUME Base, SerialNow, LoweredNow, ~removed, ~Leaves, ~Outages, NEW w \in Timers,
           StepWorker(w) \/ Elapse(w)
    PROVE  LoweredNow'
  <1>0. call' = call /\ TypeOK /\ NoData \in PdcData /\ pdc \in PdcData
    BY Values
    DEF Base, TypeOK, StepWorker, LookUp, Interrupted, Elapse, Reload, ReadExpired, MarkNoResponse,
        UnclearExpired, Forget
  <1>1. \A a \in Actors : InCall(a) /\ Lowering(a) => InCall(a)' /\ Lowering(a)'
    BY <1>0 DEF InCall, Lowering, StepOf
  <1>2. CASE /\ UNCHANGED <<pdc, cleared, bay, shown>> /\ worker[w].pc # "unclear"
             /\ \A v \in Timers \ {w} : worker'[v] = worker[v]
    <2>1. \A a \in Actors : Minds(a) => Minds(a)'
      BY <1>0, <1>2 DEF Minds, StepOf
    <2>2. ASSUME pdc'.state \in Withdrawn
          PROVE  \/ Down' \/ shown'
                 \/ \E a \in Actors : InCall(a)' /\ Lowering(a)'
                 \/ \E v \in Timers : worker'[v].pc = "unclear"
      <3>1. \/ Down \/ shown
            \/ \E a \in Actors : InCall(a) /\ Lowering(a)
            \/ \E v \in Timers \ {w} : worker[v].pc = "unclear"
        BY <1>2, <2>2 DEF LoweredNow
      <3>2. Down => Down'
        BY <1>2 DEF Down
      <3> QED
        BY <1>1, <1>2, <3>1, <3>2
    <2>3. \A a \in Actors : InCall(a)' => Minds(a)'
      BY <1>0, <2>1 DEF LoweredNow, InCall
    <2> QED
      BY <2>2, <2>3 DEF LoweredNow
  <1>3. CASE LookUp(w) \/ Interrupted(w) \/ Elapse(w) \/ Forget(w)
    <2>1. Exit(w) \/ Goto(w, "waiting", NoData) \/ Goto(w, "expired", NoData)
      BY <1>3 DEF LookUp, Interrupted, Elapse, Forget
    <2>2. \A v \in Timers \ {w} : worker'[v] = worker[v]
      BY <1>0, <2>1, ExitWorker, GotoWorker DEF WorkerPC
    <2> QED
      BY <1>2, <1>3, <2>2 DEF LookUp, Interrupted, Elapse, Forget, row, world
  <1>4. CASE Reload(w) \/ ReadExpired(w)
    <2>1. \/ Goto(w, "read", NoData) \/ Goto(w, "end", NoData)
          \/ Goto(w, "mark", pdc) \/ Goto(w, "end", pdc)
      BY <1>4 DEF Reload, ReadExpired
    <2>2. \A v \in Timers \ {w} : worker'[v] = worker[v]
      BY <1>0, <2>1, GotoWorker DEF WorkerPC
    <2> QED
      BY <1>2, <1>4, <2>2 DEF Reload, ReadExpired, row, world
  <1>5. ASSUME w \in Expiring
        PROVE  Answers(w) = {TRUE} /\ \A a \in Actors : ~InCall(a)
    BY <1>5, ExpiryAlone DEF Answers
  <1>6. CASE MarkNoResponse(w)
    <2>1. w \in Expiring
      BY <1>6 DEF MarkNoResponse, Expiring
    <2>0. Answers(w) = {TRUE}
      BY <1>5, <2>1
    <2>2. Goto(w, "unclear", NoData)
      BY <1>6, <2>0 DEF MarkNoResponse
    <2>3. worker'[w].pc = "unclear"
      BY <1>0, <2>2, GotoWorker DEF WorkerPC
    <2>4. \A a \in Actors : ~InCall(a)'
      BY <1>0, <1>5, <2>1 DEF InCall
    <2> QED
      BY <2>3, <2>4 DEF LoweredNow
  <1>7. CASE UnclearExpired(w)
    <2>1. w \in Expiring
      BY <1>7 DEF UnclearExpired, Expiring
    <2>2. Down'
      BY <1>5, <1>7, <2>1 DEF UnclearExpired, Authority, Down
    <2>3. \A a \in Actors : ~InCall(a)'
      BY <1>0, <1>5, <2>1 DEF InCall
    <2> QED
      BY <2>2, <2>3 DEF LoweredNow
  <1> QED
    BY <1>3, <1>4, <1>6, <1>7 DEF StepWorker

\* Every step keeps it.
LEMMA LoweredStep ==
    ASSUME ~Overlap, ~Leaves, ~Outages, Base, Serial, Lowered, [Next]_vars
    PROVE  Lowered'
  <1> SUFFICES ASSUME ~removed', crashes' = 0 PROVE LoweredNow'
    BY DEF Lowered
  <1>0. ~removed /\ crashes = 0 /\ ~Crash
    <2>1. ~removed
      BY Entries
      DEF Base, Next, Entry, StepCall, StepWorker, Read, Set, Persist, SaveWebRequest, MoveIssued,
          RaiseConfirmed, SaveConfirmed, RaiseByVoice, Lower, Unclear, Recheck, Wipe, Stop, Arm, Return,
          Restore, Fail, SaveReviewed, SaveSynced, LookUp, Interrupted, Elapse, Reload, ReadExpired, MarkNoResponse,
          UnclearExpired, Forget, RemoveSession, Crash, Restart, vars, world
    <2>2. ~Crash
      BY DEF Crash, Base, TypeOK
    <2>3. crashes = 0
      BY Entries, <2>2
      DEF Base, Next, Entry, StepCall, StepWorker, Read, Set, Persist, SaveWebRequest, MoveIssued,
          RaiseConfirmed, SaveConfirmed, RaiseByVoice, Lower, Unclear, Recheck, Wipe, Stop, Arm, Return,
          Restore, Fail, SaveReviewed, SaveSynced, LookUp, Interrupted, Elapse, Reload, ReadExpired, MarkNoResponse,
          UnclearExpired, Forget, RemoveSession, Restart, vars, world
    <2> QED
      BY <2>1, <2>2, <2>3
  <1>00. SerialNow /\ LoweredNow
    BY <1>0 DEF Serial, Lowered
  \* A call or a restart begins when nothing else runs.
  <1>b. ASSUME NEW a \in Actors, NEW op \in Ops, NEW st \in States,
               \A b \in Actors : ~InCall(b), Expiring = {},
               \A b \in Actors \ {a} : call'[b] = call[b],
               call'[a].op = op, call'[a].at = 1, call'[a].state = st,
               UNCHANGED <<pdc, cleared, bay, shown, worker>>,
               st \in Withdrawn <=> op = "withdraw",
               op \in {"raise", "webAcknowledge"} => pdc.state \notin Withdrawn
        PROVE  LoweredNow'
    <2>1. 1 \in 1..Len(Program[op])
      BY ProgramLengths
    <2>2. Facts(op, 1) /\ StepOf(a)' = Program[op][1]
      BY <1>b, <2>1, ProgramFacts DEF StepOf
    <2>3. Minds(a)'
      BY <1>b, <2>2 DEF Minds, Facts
    <2>4. pdc.state \in Withdrawn => Down \/ shown
      BY <1>00, <1>b DEF LoweredNow, Expiring
    <2>5. \A b \in Actors : InCall(b)' => b = a
      BY <1>b DEF InCall
    <2> QED
      BY <1>b, <2>3, <2>4, <2>5 DEF LoweredNow, Down
  <1>1. CASE EnterCall
    <2>1. PICK a \in Actors, op \in Ops, n \in Nat, st \in States : Entry(a, op, n, st)
      BY <1>1, Entries DEF Base
    <2>2. /\ \A b \in Actors : ~InCall(b) /\ Expiring = {}
          /\ UNCHANGED <<pdc, cleared, bay, shown, worker>>
          /\ st \in Withdrawn <=> op = "withdraw"
          /\ op \in {"raise", "webAcknowledge"} => pdc.state \notin Withdrawn
      BY <2>1 DEF Entry, MayEnter, Settled, Quiet, row, timers, world
    <2>3. /\ \A b \in Actors \ {a} : call'[b] = call[b]
          /\ call'[a].op = op /\ call'[a].at = 1 /\ call'[a].state = st
      BY <2>1, EnterNew DEF Base, Entry
    <2> QED
      BY <1>b, <2>2, <2>3
  <1>2. ASSUME NEW a \in Actors, StepCall(a) PROVE LoweredNow'
    BY <1>0, <1>00, <1>2, KeepingLowered, WritingLowered, MovingLowered, RowLowered DEF StepCall
  <1>3. ASSUME NEW r \in Actors, Fail(r) PROVE LoweredNow'
    <2>1. r \in Requests
      BY <1>3 DEF Fail
    <2> QED
      BY <1>00, <1>3, <2>1, MovingLowered
  <1>4. ASSUME NEW w \in Timers, StepWorker(w) \/ Elapse(w) PROVE LoweredNow'
    BY <1>0, <1>00, <1>4, ExpiryLowered
  <1>5. CASE RemoveSession
    BY <1>5 DEF RemoveSession
  <1>7. CASE Restart
    <2>1. Enter(Poll, "rearm", NoSeq, "NONE") /\ ~up /\ UNCHANGED <<pdc, cleared, bay, shown, worker>>
      BY <1>7 DEF Restart, row, timers
    <2>2. /\ "rearm" \in Ops /\ "NONE" \in States /\ NoSeq \in Nat /\ Poll \in Actors
          /\ "rearm" \notin IssueOps \cup WebOps /\ Poll \notin Requests /\ "NONE" \notin Withdrawn
      BY OpsAre, Values DEF States, NoSeq, IssueOps, WebOps, SubmitOps, Withdrawn
    <2>3. /\ \A b \in Actors \ {Poll} : call'[b] = call[b]
          /\ call'[Poll].op = "rearm" /\ call'[Poll].at = 1 /\ call'[Poll].state = "NONE"
      BY <2>1, <2>2, EnterNew DEF Base
    <2>4. (\A b \in Actors : ~InCall(b)) /\ Expiring = {}
      BY <1>00, <2>1 DEF SerialNow, Alone, Expiring
    <2> QED
      BY <1>b, <2>1, <2>2, <2>3, <2>4
  <1>8. CASE UNCHANGED vars
    BY <1>00, <1>8
    DEF LoweredNow, Down, Minds, Lowering, StepOf, InCall, vars, row, timers, world
  <1> QED
    BY <1>0, <1>1, <1>2, <1>3, <1>4, <1>5, <1>7, <1>8 DEF Next

\* Calls and expiries one after the other, controllers that stay until their
\* command is through, and a database that answers: once the call or the
\* expiry that withdrew a clearance is over, the strip is not cleared and back
\* in its bay, until EuroScope's own strip shows it cleared.
THEOREM PDCWithdrawnNotCleared ==
    ASSUME ~Overlap, ~Leaves, ~Outages
    PROVE  Spec => []WithdrawnNotCleared
  <1>1. Base /\ Lowered => WithdrawnNotCleared
    BY DEF Lowered, LoweredNow, Down, WithdrawnNotCleared, Quiet, Expiring
  <1>2. Base /\ Serial /\ Lowered /\ [Next]_vars => Serial' /\ Lowered'
    BY SerialStep, LoweredStep
  <1>3. Init => Lowered
    <2> SUFFICES ASSUME Init PROVE LoweredNow
      BY DEF Lowered
    <2>1. \A a \in Actors : ~InCall(a)
      BY Values DEF Init, InCall
    <2> QED
      BY <2>1, Values DEF Init, LoweredNow, Withdrawn
  <1> QED
    BY <1>1, <1>2, <1>3, SerialInit, PDCInvariant, PTL DEF Spec

=============================================================================
