------------------------ MODULE FirewallStageProofs ------------------------
(* What the panel shows of a staged firewall change is what the agent did, *)
(* and no candidate that was never confirmed stays on the host, for any    *)
(* set of operations, any number of administrators and faults.             *)
(*                                                                         *)
(* The panel writes a verdict from an answer it received earlier, and the  *)
(* agent writes an answer at the end of a call whose steps other calls     *)
(* cannot interrupt but deadlines, crashes and lost answers can.  VInv     *)
(* adds to the verdicts that an answer which waits for the panel is still  *)
(* true, and where in its protocol the stage of the agent's call is; what  *)
(* makes both last is that a settled stage keeps its status.  UInv adds    *)
(* what excuses a candidate on the host while its stage is not settled,    *)
(* and that a rollback has restored the host by the time it is recorded.   *)
EXTENDS FirewallStage, FiniteSetTheorems, TLAPS

Recorded(o) == Unsettled(o) \/ Settled(o)

Shapes ==
    /\ row = [o \in Op |-> row[o]]
    /\ call = [c \in Call |-> call[c]]
    /\ stage = [o \in Op |-> stage[o]]
    /\ \A o \in Op : stage[o] = [status |-> stage[o].status, prev |-> stage[o].prev] /\ Status(o) \in StageStatus
    /\ agent = [pc |-> agent.pc, kind |-> agent.kind, op |-> agent.op, due |-> agent.due]

AnswersAreTrue ==
    \A o \in Op :
        /\ call[<<"stage", o>>] = "ok" => Recorded(o)
        /\ call[<<"confirm", o>>] = "ok" => Status(o) = "confirmed"
        /\ call[<<"revert", o>>] = "ok" => Status(o) = "rolled_back"

Staging == {"mkdir", "record"}
Applying == {"check", "install", "activate", "health", "undo_file", "undo_live"}
RollingBack == {"restore_file", "restore_live", "complete"}

InProtocol ==
    /\ agent.kind \in {"stage", "revert", "recover"}
    /\ agent.pc \in Staging \cup Applying => agent.kind = "stage"
    /\ \A o \in Op : agent.op = o =>
          /\ agent.pc \in Staging => Status(o) \in {"none", "partial"}
          /\ agent.pc \in Applying => Status(o) = "pending_confirmation"
          /\ agent.pc \in RollingBack => Status(o) = "rollback_pending"

VInv == Shapes /\ AnswersAreTrue /\ InProtocol /\ VerdictsAreTrue

\* What no step does to a stage: it loses its record or its settled status.
Lasting ==
    \A o \in Op :
        /\ Recorded(o) => Recorded(o)'
        /\ Status(o) = "confirmed" => Status(o)' = "confirmed"
        /\ Status(o) = "rolled_back" => Status(o)' = "rolled_back"

-----------------------------------------------------------------------------

\* The panel starts with no operation and no call.
LEMMA InitIsTrue == FInit => VInv
<1>. SUFFICES ASSUME FInit PROVE VInv
  BY Zenon
<1>1. \A o \in Op : Status(o) = "none" /\ row[o] = "absent" /\ \A k \in Kind : call[<<k, o>>] = "idle"
  BY Zenon DEF FInit, Missing, Status, Call
<1>2. Shapes
  BY Zenon DEF FInit, Shapes, Missing, Status, StageStatus, Idle
<1>3. agent.kind = "recover" /\ agent.pc = "idle"
  BY Zenon DEF FInit, Idle
<1>. QED
  BY Zenon, <1>1, <1>2, <1>3 DEF VInv, AnswersAreTrue, InProtocol, VerdictsAreTrue, Kind, Staging, Applying, RollingBack

\* A verdict stays true while stages last.
LEMMA VerdictsLast ==
    ASSUME VInv, Lasting, UNCHANGED row
    PROVE  VerdictsAreTrue'
BY Zenon DEF VInv, VerdictsAreTrue, Lasting, Recorded

\* So does an answer that nobody has read yet.
LEMMA AnswersLast ==
    ASSUME VInv, Lasting, UNCHANGED call
    PROVE  AnswersAreTrue'
<1>1. \A o \in Op : \A k \in Kind : call'[<<k, o>>] = call[<<k, o>>]
  BY Zenon
<1>. QED
  BY Zenon, <1>1 DEF VInv, AnswersAreTrue, Lasting, Kind

\* An answer that is true when it is given keeps all answers true.
LEMMA AnswerIsTrue ==
    ASSUME VInv, Lasting, NEW k \in Kind, NEW o, NEW result \in {"ok", "error"}, Answer(k, o, result),
           result = "ok" /\ o \in Op =>
              /\ k = "stage" => Recorded(o)'
              /\ k = "confirm" => Status(o)' = "confirmed"
              /\ k = "revert" => Status(o)' = "rolled_back"
    PROVE  /\ AnswersAreTrue'
           /\ call' = [c \in Call |-> call'[c]]
<1>1. call' = call \/ call' = [call EXCEPT ![<<k, o>>] = result]
  BY Zenon DEF Answer
<1>2. call' = [c \in Call |-> call'[c]]
  BY Zenon, <1>1 DEF VInv, Shapes
<1>3. ASSUME NEW p \in Op, NEW l \in Kind, call'[<<l, p>>] = "ok"
      PROVE  call[<<l, p>>] = "ok" \/ (l = k /\ p = o /\ result = "ok")
  BY Zenon, <1>1, <1>3 DEF VInv, Shapes, Call
<1>4. ASSUME NEW p \in Op
      PROVE  /\ call'[<<"stage", p>>] = "ok" => Recorded(p)'
             /\ call'[<<"confirm", p>>] = "ok" => Status(p)' = "confirmed"
             /\ call'[<<"revert", p>>] = "ok" => Status(p)' = "rolled_back"
  BY Zenon, <1>3 DEF VInv, AnswersAreTrue, Lasting, Kind
<1>. QED
  BY Zenon, <1>2, <1>4 DEF AnswersAreTrue

\* So does the end of the agent's call, which leaves the agent at a stage whose
\* rollback has not begun.
LEMMA ReturnIsTrue ==
    ASSUME VInv, Lasting, NEW result \in {"ok", "error"}, Return(result),
           \A o \in Op : result = "ok" /\ o = agent.op =>
              /\ agent.kind = "stage" => Recorded(o)'
              /\ agent.kind = "revert" => Status(o)' = "rolled_back"
    PROVE  /\ AnswersAreTrue'
           /\ call' = [c \in Call |-> call'[c]]
           /\ InProtocol'
           /\ agent' = [pc |-> agent'.pc, kind |-> agent'.kind, op |-> agent'.op, due |-> agent'.due]
<1>1. CASE agent.kind # "recover"
  <2>1. Answer(agent.kind, agent.op, result) /\ agent.kind \in {"stage", "revert"}
    BY Zenon, <1>1 DEF Return, VInv, InProtocol
  <2>2. agent' = Idle
    BY Zenon, <2>1 DEF Answer
  <2>3. PICK k, o : k = agent.kind /\ o = agent.op
    BY Zenon
  <2>4. Answer(k, o, result) /\ k \in {"stage", "revert"}
    BY Zenon, <2>1, <2>3
  <2>5. /\ AnswersAreTrue'
        /\ call' = [c \in Call |-> call'[c]]
    BY Zenon, <2>3, <2>4, AnswerIsTrue DEF Kind
  <2>6. /\ agent'.pc = "idle" /\ agent'.kind = "recover"
        /\ agent' = [pc |-> agent'.pc, kind |-> agent'.kind, op |-> agent'.op, due |-> agent'.due]
    BY Zenon, <2>2 DEF Idle
  <2>. QED
    BY Zenon, <2>5, <2>6 DEF InProtocol, Staging, Applying, RollingBack
<1>2. CASE agent.kind = "recover"
  <2>1. call' = call
    BY Zenon, <1>2 DEF Return, transport
  <2>2. AnswersAreTrue' /\ call' = [c \in Call |-> call'[c]]
    BY Zenon, <2>1, AnswersLast DEF VInv, Shapes
  <2>3. /\ agent'.pc \in {"idle", "begin"} /\ agent'.kind = "recover"
        /\ agent' = [pc |-> agent'.pc, kind |-> agent'.kind, op |-> agent'.op, due |-> agent'.due]
    <3>1. CASE agent.due = {}
      BY <1>2, <3>1 DEF Return, Idle
    <3>2. CASE agent.due # {}
      BY <1>2, <3>2 DEF Return, RollBackNext
    <3>. QED
      BY Zenon, <3>1, <3>2
  <2>. QED
    BY Zenon, <2>2, <2>3 DEF InProtocol, Staging, Applying, RollingBack
<1>. QED
  BY Zenon, <1>1, <1>2
-----------------------------------------------------------------------------

\* The steps below change the stage of one operation at most.
LEMMA StageShape ==
    ASSUME VInv, NEW p, NEW status \in StageStatus, stage' = [stage EXCEPT ![p].status = status]
    PROVE  /\ stage' = [o \in Op |-> stage'[o]]
           /\ \A o \in Op : /\ stage'[o] = [status |-> stage'[o].status, prev |-> stage'[o].prev]
                            /\ Status(o)' = IF o = p THEN status ELSE Status(o)
                            /\ Status(o)' \in StageStatus
<1>1. stage' = [o \in Op |-> stage'[o]]
  BY Zenon DEF VInv, Shapes
<1>2. ASSUME NEW o \in Op
      PROVE  /\ stage'[o] = [status |-> stage'[o].status, prev |-> stage'[o].prev]
             /\ stage'[o].status = IF o = p THEN status ELSE stage[o].status
             /\ stage'[o].status \in StageStatus
  <2>0. stage[o] = [status |-> stage[o].status, prev |-> stage[o].prev] /\ stage[o].status \in StageStatus
    BY Zenon DEF VInv, Shapes, Status
  <2>1. CASE o = p
    <3>1. stage'[o] = [stage[o] EXCEPT !.status = status]
      BY Zenon, <2>1 DEF VInv, Shapes
    <3>. QED
      BY Zenon, <2>0, <2>1, <3>1
  <2>2. CASE o # p
    <3>1. stage'[o] = stage[o]
      BY Zenon, <2>2 DEF VInv, Shapes
    <3>. QED
      BY <2>0, <2>2, <3>1
  <2>. QED
    BY Zenon, <2>1, <2>2
<1>. QED
  BY Zenon, <1>1, <1>2 DEF Status

\* The panel's side: rows are written from answers, and nothing moves at the agent.
LEMMA PanelIsTrue ==
    ASSUME VInv, NEW o \in Op, PanelStep(o)
    PROVE  VInv'
<1>1. UNCHANGED <<stage, agent>>
  BY Zenon DEF PanelStep, Queue, BeginWork, EndWork, Send, Receive, store
<1>2. \A p \in Op : Status(p)' = Status(p) /\ (Recorded(p)' <=> Recorded(p))
  BY Zenon, <1>1 DEF Status, Recorded, Unsettled, Settled
<1>3. InProtocol'
  BY Zenon, <1>1, <1>2 DEF VInv, InProtocol
<1>4. /\ call' = [c \in Call |-> call'[c]]
      /\ \A p \in Op : \A k \in Kind : call'[<<k, p>>] = "ok" => call[<<k, p>>] = "ok"
  BY DEF PanelStep, Queue, BeginWork, EndWork, Send, Receive, VInv, Shapes, transport, Call, Kind
<1>5. AnswersAreTrue'
  BY Zenon, <1>2, <1>4 DEF VInv, AnswersAreTrue, Kind
<1>6. /\ row' = [p \in Op |-> row'[p]]
      /\ \A p \in Op : \/ row'[p] = row[p] \/ row'[p] \in {"pending", "running", "failed"}
                       \/ row'[p] = "awaiting_confirmation" /\ call[<<"stage", p>>] = "ok"
                       \/ row'[p] = "succeeded" /\ call[<<"confirm", p>>] = "ok"
                       \/ row'[p] = "rolled_back" /\ call[<<"revert", p>>] = "ok"
  <2>1. CASE Queue(o) \/ BeginWork(o)
    BY Zenon, <2>1 DEF Queue, BeginWork, Guarded, VInv, Shapes
  <2>2. CASE EndWork(o)
    BY Zenon, <2>2 DEF EndWork, Guarded, VInv, Shapes
  <2>3. CASE \E k \in Kind : Send(k, o)
    BY Zenon, <2>3 DEF Send, panel, VInv, Shapes
  <2>4. CASE \E k \in Kind : Receive(k, o)
    <3>1. PICK k \in {"confirm", "revert"} : Receive(k, o)
      BY Zenon, <2>4 DEF Receive
    <3>2. row' = [row EXCEPT ![o] = IF row[o] \in Terminal THEN row[o] ELSE Outcome(k, o)]
      BY Zenon, <3>1 DEF Receive, Guarded
    <3>3. \/ Outcome(k, o) = "failed"
          \/ k = "confirm" /\ call[<<"confirm", o>>] = "ok" /\ Outcome(k, o) = "succeeded"
          \/ k = "revert" /\ call[<<"revert", o>>] = "ok" /\ Outcome(k, o) = "rolled_back"
      <4>1. CASE call[<<k, o>>] = "error"
        BY Zenon, <4>1 DEF Outcome
      <4>2. CASE call[<<k, o>>] = "ok" /\ k = "confirm"
        BY Zenon, <4>2 DEF Outcome
      <4>3. CASE call[<<k, o>>] = "ok" /\ k = "revert"
        BY Zenon, <4>3 DEF Outcome
      <4>. QED
        BY Zenon, <3>1, <4>1, <4>2, <4>3 DEF Receive
    <3>. QED
      BY Zenon, <3>2, <3>3 DEF VInv, Shapes
  <2>. QED
    BY Zenon, <2>1, <2>2, <2>3, <2>4 DEF PanelStep
<1>7. VerdictsAreTrue'
  BY Zenon, <1>2, <1>6 DEF VInv, VerdictsAreTrue, AnswersAreTrue, Recorded
<1>8. Shapes'
  BY Zenon, <1>1, <1>2, <1>4, <1>6 DEF VInv, Shapes
<1>. QED
  BY Zenon, <1>3, <1>5, <1>7, <1>8 DEF VInv

\* Lost answers, crashes and the clock: no answer appears, no stage changes.
LEMMA FaultIsTrue ==
    ASSUME VInv, (\E c \in Call : LoseAnswer(c)) \/ PanelCrash \/ AgentCrash \/ Expire \/ UNCHANGED vars
    PROVE  VInv'
<1>1. UNCHANGED <<row, stage>>
  BY Zenon DEF LoseAnswer, PanelCrash, AgentCrash, Expire, panel, store, vars
<1>2. Lasting
  BY Zenon, <1>1 DEF Lasting, Recorded, Unsettled, Settled, Status
<1>3. agent' = agent \/ agent' = Idle
  BY Zenon DEF LoseAnswer, PanelCrash, AgentCrash, Expire, vars
<1>4. /\ InProtocol'
      /\ agent' = [pc |-> agent'.pc, kind |-> agent'.kind, op |-> agent'.op, due |-> agent'.due]
  BY <1>1, <1>3 DEF VInv, Shapes, InProtocol, Idle, Staging, Applying, RollingBack, Status
<1>5. /\ call' = [c \in Call |-> call'[c]]
      /\ \A c \in Call : call'[c] = "ok" => call[c] = "ok"
  BY Zenon DEF LoseAnswer, PanelCrash, AgentCrash, Expire, transport, vars, VInv, Shapes
<1>6. \A o \in Op : \A k \in Kind : call'[<<k, o>>] = "ok" => call[<<k, o>>] = "ok"
  BY Zenon, <1>5 DEF Call
<1>7. AnswersAreTrue'
  BY Zenon, <1>2, <1>6 DEF VInv, AnswersAreTrue, Lasting, Kind
<1>. QED
  BY Zenon, <1>1, <1>2, <1>4, <1>5, <1>7, VerdictsLast DEF VInv, Shapes, Status
-----------------------------------------------------------------------------

AgentShape(a) == a = [pc |-> a.pc, kind |-> a.kind, op |-> a.op, due |-> a.due]

StageShapes ==
    /\ stage = [o \in Op |-> stage[o]]
    /\ \A o \in Op : stage[o] = [status |-> stage[o].status, prev |-> stage[o].prev] /\ Status(o) \in StageStatus

\* A step that leaves the stages alone leaves them as they are.
LEMMA SameStages ==
    ASSUME VInv, UNCHANGED stage
    PROVE  Lasting /\ StageShapes' /\ \A o \in Op : Status(o)' = Status(o)
BY Zenon DEF VInv, Shapes, StageShapes, Lasting, Recorded, Unsettled, Settled, Status

\* The end of the agent's call, once its last word is known to be true.
LEMMA ReturnStep ==
    ASSUME VInv, Lasting, StageShapes', UNCHANGED row, NEW result \in {"ok", "error"}, Return(result),
           \A o \in Op : result = "ok" /\ o = agent.op =>
              /\ agent.kind = "stage" => Recorded(o)'
              /\ agent.kind = "revert" => Status(o)' = "rolled_back"
    PROVE  VInv'
<1>1. VerdictsAreTrue'
  BY Zenon, VerdictsLast
<1>2. /\ AnswersAreTrue' /\ InProtocol' /\ call' = [c \in Call |-> call'[c]]
      /\ AgentShape(agent')
  BY Zenon, ReturnIsTrue DEF AgentShape
<1>. QED
  BY Zenon, <1>1, <1>2 DEF VInv, Shapes, StageShapes, AgentShape

\* A step that only moves on in the protocol.
LEMMA GotoStep ==
    ASSUME VInv, Lasting, StageShapes', UNCHANGED <<row, call>>, NEW pc, Goto(pc),
           pc \in Staging \cup Applying => agent.kind = "stage",
           \A o \in Op : agent.op = o =>
              /\ pc \in Staging => Status(o)' \in {"none", "partial"}
              /\ pc \in Applying => Status(o)' = "pending_confirmation"
              /\ pc \in RollingBack => Status(o)' = "rollback_pending"
    PROVE  VInv'
<1>1. VerdictsAreTrue' /\ AnswersAreTrue'
  BY Zenon, VerdictsLast, AnswersLast
<1>2. agent'.pc = pc /\ agent'.kind = agent.kind /\ agent'.op = agent.op /\ AgentShape(agent')
  BY Zenon DEF VInv, Shapes, Goto, AgentShape
<1>3. InProtocol'
  BY Zenon, <1>2 DEF VInv, InProtocol
<1>. QED
  BY Zenon, <1>1, <1>2, <1>3 DEF VInv, Shapes, StageShapes, AgentShape

\* Applying a candidate never touches a record, and its only good answer is
\* given while the stage is pending.
LEMMA ApplyIsTrue ==
    ASSUME VInv, Check \/ Install \/ Activate \/ Health \/ Undo
    PROVE  VInv'
<1>1. UNCHANGED <<row, stage>>
  BY Zenon DEF Check, Install, Activate, Health, Undo, RestoreFile, RestoreLive, panel, store
<1>2. agent.pc \in Applying
  BY Zenon DEF Check, Install, Activate, Health, Undo, RestoreFile, RestoreLive, At, Applying
<1>3. Lasting /\ StageShapes' /\ \A o \in Op : Status(o)' = Status(o)
  BY Zenon, <1>1, SameStages
<1>4. agent.kind = "stage" /\ \A o \in Op : agent.op = o => Status(o) = "pending_confirmation"
  BY Zenon, <1>2 DEF VInv, InProtocol
<1>5. CASE Return("ok")
  BY Zenon, <1>1, <1>3, <1>4, <1>5, ReturnStep DEF Recorded, Unsettled
<1>6. CASE Return("error")
  BY Zenon, <1>1, <1>3, <1>6, ReturnStep
<1>7. CASE \E pc \in Applying \cup {"begin"} : Goto(pc) /\ UNCHANGED call
  <2>1. PICK pc \in Applying \cup {"begin"} : Goto(pc) /\ UNCHANGED call
    BY Zenon, <1>7
  <2>2. pc \notin Staging /\ pc \notin RollingBack
    BY Zenon DEF Applying, Staging, RollingBack
  <2>. QED
    BY Zenon, <1>1, <1>3, <1>4, <2>1, <2>2, GotoStep
<1>. QED
  BY Zenon, <1>5, <1>6, <1>7 DEF Check, Install, Activate, Health, Undo, RestoreFile, RestoreLive, transport, Applying

\* A stage may move as long as it is neither settled nor loses its record.
LEMMA MovedStage ==
    ASSUME VInv, NEW p, NEW status \in StageStatus,
           \/ stage' = [stage EXCEPT ![p].status = status]
           \/ \E prev : stage' = [stage EXCEPT ![p] = [status |-> status, prev |-> prev]],
           p \in Op => \/ Status(p) \in {"none", "partial"}
                       \/ Unsettled(p) /\ status \notin {"none", "partial"}
                       \/ status = Status(p)
    PROVE  /\ Lasting /\ StageShapes'
           /\ \A o \in Op : Status(o)' = IF o = p THEN status ELSE Status(o)
<1>1. StageShapes' /\ \A o \in Op : Status(o)' = IF o = p THEN status ELSE Status(o)
  <2>1. CASE stage' = [stage EXCEPT ![p].status = status]
    BY Zenon, <2>1, StageShape DEF StageShapes
  <2>2. CASE \E prev : stage' = [stage EXCEPT ![p] = [status |-> status, prev |-> prev]]
    BY <2>2 DEF VInv, Shapes, StageShapes, Status
  <2>. QED
    BY Zenon, <2>1, <2>2
<1>. QED
  BY Zenon, <1>1 DEF Lasting, Recorded, Unsettled, Settled, StageStatus

\* Directory and record appear, and a failed attempt removes what nobody knows of.
LEMMA StagingIsTrue ==
    ASSUME VInv, MakeDirectory \/ WriteRecord \/ StageFails
    PROVE  VInv'
<1>1. PICK p : p = agent.op
  BY Zenon
<1>2. /\ agent.kind = "stage" /\ UNCHANGED row
      /\ p \in Op => Status(p) \in {"none", "partial"}
  BY Zenon, <1>1 DEF MakeDirectory, WriteRecord, StageFails, At, VInv, InProtocol, Staging, panel
<1>3. CASE MakeDirectory
  <2>1. Lasting /\ StageShapes' /\ \A o \in Op : Status(o)' = IF o = p THEN "partial" ELSE Status(o)
    BY Zenon, <1>1, <1>2, <1>3, MovedStage DEF MakeDirectory, StageStatus
  <2>. QED
    BY Zenon, <1>1, <1>2, <1>3, <2>1, GotoStep DEF MakeDirectory, transport, Staging, Applying, RollingBack
<1>4. CASE WriteRecord
  <2>1. stage' = [stage EXCEPT ![p] = [status |-> "pending_confirmation", prev |-> file]]
    BY Zenon, <1>1, <1>4 DEF WriteRecord
  <2>2. Lasting /\ StageShapes' /\ \A o \in Op : Status(o)' = IF o = p THEN "pending_confirmation" ELSE Status(o)
    BY Zenon, <1>2, <2>1, MovedStage DEF StageStatus
  <2>. QED
    BY Zenon, <1>1, <1>2, <1>4, <2>2, GotoStep DEF WriteRecord, transport, Staging, Applying, RollingBack
<1>5. CASE StageFails
  <2>1. stage' = [stage EXCEPT ![p] = [status |-> "none", prev |-> "none"]]
    BY Zenon, <1>1, <1>5 DEF StageFails, Missing
  <2>2. Lasting /\ StageShapes'
    BY Zenon, <1>2, <2>1, MovedStage DEF StageStatus
  <2>. QED
    BY Zenon, <1>2, <1>5, <2>2, ReturnStep DEF StageFails
<1>. QED
  BY Zenon, <1>3, <1>4, <1>5

\* A rollback begins at a stage that is not settled and ends with its record.
LEMMA RollbackIsTrue ==
    ASSUME VInv, BeginRollback \/ RestorePrevious \/ CompleteRollback \/ RollbackFails
    PROVE  VInv'
<1>1. PICK p : p = agent.op
  BY Zenon
<1>2. CASE BeginRollback /\ Unsettled(agent.op)
  <2>1. Lasting /\ StageShapes' /\ \A o \in Op : Status(o)' = IF o = p THEN "rollback_pending" ELSE Status(o)
    BY <1>1, <1>2, MovedStage DEF BeginRollback, StageStatus
  <2>. QED
    BY Zenon, <1>1, <1>2, <2>1, GotoStep DEF BeginRollback, transport, panel, Staging, Applying, RollingBack
<1>3. CASE BeginRollback /\ ~Unsettled(agent.op)
  <2>1. UNCHANGED <<row, stage>>
    BY Zenon, <1>3 DEF BeginRollback, panel
  <2>2. Lasting /\ StageShapes' /\ \A o \in Op : Status(o)' = Status(o)
    BY Zenon, <2>1, SameStages
  <2>3. CASE Return("error")
    BY Zenon, <2>1, <2>2, <2>3, ReturnStep
  <2>4. CASE Return("ok") /\ agent.kind = "revert" /\ Status(agent.op) = "rolled_back"
    BY Zenon, <2>1, <2>2, <2>4, ReturnStep
  <2>. QED
    BY Zenon, <1>3, <2>3, <2>4 DEF BeginRollback
<1>4. CASE RestorePrevious \/ RollbackFails
  <2>1. UNCHANGED <<row, stage>>
    BY Zenon, <1>4 DEF RestorePrevious, RestoreFile, RestoreLive, RollbackFails, panel, store
  <2>2. Lasting /\ StageShapes' /\ \A o \in Op : Status(o)' = Status(o)
    BY Zenon, <2>1, SameStages
  <2>3. CASE Return("error")
    BY Zenon, <2>1, <2>2, <2>3, ReturnStep
  <2>4. CASE agent.pc \in RollingBack /\ UNCHANGED call /\ \E pc \in RollingBack : Goto(pc)
    <3>1. PICK pc \in RollingBack : Goto(pc)
      BY Zenon, <2>4
    <3>2. pc \notin Staging /\ pc \notin Applying
      BY Zenon DEF Staging, Applying, RollingBack
    <3>. QED
      BY Zenon, <2>1, <2>2, <2>4, <3>1, <3>2, GotoStep DEF VInv, InProtocol
  <2>. QED
    BY Zenon, <1>4, <2>3, <2>4 DEF RestorePrevious, RestoreFile, RestoreLive, RollbackFails, At, transport, RollingBack
<1>5. CASE CompleteRollback
  <2>1. p \in Op => Status(p) = "rollback_pending"
    BY Zenon, <1>1, <1>5 DEF CompleteRollback, At, VInv, InProtocol, RollingBack
  <2>2. Lasting /\ StageShapes' /\ \A o \in Op : Status(o)' = IF o = p THEN "rolled_back" ELSE Status(o)
    BY Zenon, <1>1, <1>5, <2>1, MovedStage DEF CompleteRollback, StageStatus, Unsettled
  <2>3. UNCHANGED row
    BY Zenon, <1>5 DEF CompleteRollback, panel
  <2>4. CASE agent.kind = "stage"
    BY Zenon, <1>5, <2>2, <2>3, <2>4, ReturnStep DEF CompleteRollback
  <2>5. CASE agent.kind # "stage"
    BY Zenon, <1>1, <1>5, <2>2, <2>3, <2>5, ReturnStep DEF CompleteRollback
  <2>. QED
    BY Zenon, <2>4, <2>5
<1>. QED
  BY Zenon, <1>2, <1>3, <1>4, <1>5

\* The agent takes a call, or its timer, while no other call is under way.
LEMMA ServeIsTrue ==
    ASSUME VInv, NEW o \in Op, Serve(o)
    PROVE  VInv'
<1>1. UNCHANGED row
  BY Zenon DEF Serve, ServeStage, ServeConfirm, ServeRevert, panel
<1>2. ASSUME Lasting, StageShapes', NEW k \in Kind, NEW result \in {"ok", "error"}, Answer(k, o, result),
             result = "ok" =>
                /\ k = "stage" => Recorded(o)'
                /\ k = "confirm" => Status(o)' = "confirmed"
                /\ k = "revert" => Status(o)' = "rolled_back"
      PROVE  VInv'
  <2>1. AnswersAreTrue' /\ VerdictsAreTrue' /\ call' = [c \in Call |-> call'[c]]
    BY Zenon, <1>1, <1>2, AnswerIsTrue, VerdictsLast
  <2>2. agent' = Idle
    BY Zenon, <1>2 DEF Answer
  <2>3. InProtocol' /\ AgentShape(agent')
    BY Zenon, <2>2 DEF Idle, InProtocol, AgentShape, Staging, Applying, RollingBack
  <2>. QED
    BY Zenon, <1>1, <1>2, <2>1, <2>3 DEF VInv, Shapes, StageShapes, AgentShape
<1>3. ASSUME UNCHANGED <<stage, call>>, AgentShape(agent'), agent'.kind \in {"stage", "revert"}, agent'.op = o,
             \/ agent'.pc = "begin"
             \/ agent'.pc = "mkdir" /\ agent'.kind = "stage" /\ Status(o) = "none"
      PROVE  VInv'
  <2>1. Lasting /\ StageShapes' /\ \A p \in Op : Status(p)' = Status(p)
    BY Zenon, <1>3, SameStages
  <2>2. AnswersAreTrue' /\ VerdictsAreTrue'
    BY Zenon, <1>1, <1>3, <2>1, AnswersLast, VerdictsLast
  <2>3. InProtocol'
    BY Zenon, <1>3, <2>1 DEF InProtocol, Staging, Applying, RollingBack
  <2>. QED
    BY Zenon, <1>1, <1>3, <2>1, <2>2, <2>3 DEF VInv, Shapes, StageShapes, AgentShape
<1>4. CASE ServeStage(o)
  <2>1. UNCHANGED stage
    BY Zenon, <1>4 DEF ServeStage, store
  <2>2. Lasting /\ StageShapes' /\ Status(o)' = Status(o)
    BY Zenon, <2>1, SameStages
  <2>3. CASE Status(o) = "none"
    <3>1. /\ UNCHANGED call /\ AgentShape(agent')
          /\ agent'.pc = "mkdir" /\ agent'.kind = "stage" /\ agent'.op = o
      BY Zenon, <1>4, <2>3 DEF ServeStage, transport, VInv, Shapes, AgentShape
    <3>. QED
      BY Zenon, <1>3, <2>1, <2>3, <3>1
  <2>4. CASE Status(o) = "partial"
    BY Zenon, <1>2, <1>4, <2>2, <2>4 DEF ServeStage, Kind
  <2>5. CASE Status(o) \notin {"none", "partial"}
    <3>1. Recorded(o)'
      BY Zenon, <2>2, <2>5 DEF StageShapes, StageStatus, Recorded, Unsettled, Settled
    <3>2. Answer("stage", o, "ok")
      BY Zenon, <1>4, <2>5 DEF ServeStage
    <3>. QED
      BY Zenon, <1>2, <2>2, <3>1, <3>2 DEF Kind
  <2>. QED
    BY Zenon, <2>3, <2>4, <2>5
<1>5. CASE ServeConfirm(o)
  <2>1. CASE Confirm(o) /\ (Status(o) = "confirmed" \/ (Status(o) = "pending_confirmation" /\ ~Expired(o)))
    <3>1. stage' = [stage EXCEPT ![o].status = "confirmed"] /\ Answer("confirm", o, "ok")
      BY Zenon, <2>1 DEF Confirm
    <3>2. Lasting /\ StageShapes' /\ Status(o)' = "confirmed"
      BY Zenon, <2>1, <3>1, MovedStage DEF StageStatus, Unsettled
    <3>. QED
      BY Zenon, <1>2, <3>1, <3>2 DEF Kind
  <2>2. CASE Confirm(o) /\ ~(Status(o) = "confirmed" \/ (Status(o) = "pending_confirmation" /\ ~Expired(o)))
    <3>1. stage' = [stage EXCEPT ![o].status = Status(o)] /\ Answer("confirm", o, "error")
      BY Zenon, <2>2 DEF Confirm, Status
    <3>2. Status(o) \in StageStatus
      BY Zenon DEF VInv, Shapes
    <3>3. Lasting /\ StageShapes'
      BY Zenon, <3>1, <3>2, MovedStage
    <3>. QED
      BY Zenon, <1>2, <3>1, <3>3 DEF Kind
  <2>3. CASE Answer("confirm", o, "error") /\ UNCHANGED stage
    BY Zenon, <1>2, <2>3, SameStages DEF Kind
  <2>. QED
    BY Zenon, <1>5, <2>1, <2>2, <2>3 DEF ServeConfirm
<1>6. CASE ServeRevert(o)
  <2>1. /\ UNCHANGED <<stage, call>> /\ AgentShape(agent')
        /\ agent'.pc = "begin" /\ agent'.kind = "revert" /\ agent'.op = o
    BY Zenon, <1>6 DEF ServeRevert, transport, store, VInv, Shapes, AgentShape
  <2>. QED
    BY Zenon, <1>3, <2>1
<1>. QED
  BY Zenon, <1>4, <1>5, <1>6 DEF Serve

\* The timer starts at the beginning of a rollback.
LEMMA RecoverIsTrue ==
    ASSUME VInv, Recover
    PROVE  VInv'
<1>1. /\ UNCHANGED <<row, call, stage>> /\ AgentShape(agent')
      /\ agent'.pc = "begin" /\ agent'.kind = "recover"
  BY DEF Recover, RollBackNext, panel, transport, store, AgentShape
<1>2. Lasting /\ StageShapes'
  BY Zenon, <1>1, SameStages
<1>3. InProtocol'
  BY Zenon, <1>1 DEF InProtocol, Staging, Applying, RollingBack
<1>. QED
  BY Zenon, <1>1, <1>2, <1>3, AnswersLast, VerdictsLast DEF VInv, Shapes, StageShapes, AgentShape

LEMMA TrueStep == VInv /\ [FNext]_vars => VInv'
<1>. SUFFICES ASSUME VInv, [FNext]_vars PROVE VInv'
  BY Zenon
<1>1. CASE \E o \in Op : PanelStep(o) \/ Serve(o)
  BY Zenon, <1>1, PanelIsTrue, ServeIsTrue
<1>2. CASE (\E c \in Call : LoseAnswer(c)) \/ PanelCrash \/ AgentCrash \/ Expire \/ UNCHANGED vars
  BY Zenon, <1>2, FaultIsTrue
<1>3. CASE Recover
  BY Zenon, <1>3, RecoverIsTrue
<1>4. CASE AgentStep
  BY Zenon, <1>4, StagingIsTrue, ApplyIsTrue, RollbackIsTrue DEF AgentStep
<1>. QED
  BY Zenon, <1>1, <1>2, <1>3, <1>4 DEF FNext

\* Every verdict of the panel is true of the agent's records at all times:
\* 'succeeded' means confirmed, 'rolled_back' means rolled back, and an operation
\* that awaits confirmation has a stage (finishSecurityOperation,
\* StageFirewallWorker and the agent's stage store).
THEOREM PanelTellsTheTruth == FSpec => []VerdictsAreTrue
<1>1. VInv => VerdictsAreTrue
  BY Zenon DEF VInv
<1>. QED
  BY InitIsTrue, TrueStep, <1>1, PTL DEF FSpec
-----------------------------------------------------------------------------
(* Types, and what became of the host.                                     *)

PanelOK ==
    /\ row \in [Op -> RowStatus]
    /\ job \in [Op -> {"none", "available", "running", "done"}]

CallsOK ==
    /\ call \in [Call -> {"idle", "sent", "ok", "error"}]
    /\ late \subseteq Call

\* A stage without a record has no previous file, and a record is listed once.
StoreOK ==
    /\ stage \in [Op -> Stage]
    /\ \A o \in Op : ~Recorded(o) => stage[o].prev = "none"
    /\ created \in Seq(Op) /\ expired \in 0..Len(created)
    /\ \A i \in 1..Len(created) : Recorded(created[i])
    /\ \A i, j \in 1..Len(created) : created[i] = created[j] => i = j

HostOK == file \in Config /\ policy \in Config /\ rules \subseteq Op \cup {"base"} /\ unlisted \in BOOLEAN

TInv == PanelOK /\ CallsOK /\ StoreOK /\ agent \in Agent /\ HostOK /\ faults \in 0..MaxFaults

\* The agent has no call to begin with.
LEMMA IdleTyped == Idle \in Agent
<1>1. (CHOOSE o \in Op : TRUE) \in Op
  BY Zenon, ConstantsAssumption
<1>2. {} \in SUBSET Op
  BY Zenon
<1> QED BY Zenon, <1>1, <1>2 DEF Idle, Agent, Pc

\* The model starts in a typed state.
LEMMA TypedInit == FInit => TInv
<1> SUFFICES ASSUME FInit PROVE TInv
  BY Zenon
<1>1. PanelOK /\ CallsOK
  BY Zenon DEF FInit, PanelOK, CallsOK, RowStatus
<1>2. stage \in [Op -> Stage] /\ \A o \in Op : stage[o].prev = "none"
  BY Zenon DEF FInit, Missing, Stage, StageStatus, Config
<1>3. created = <<>> /\ Len(created) = 0 /\ created \in Seq(Op) /\ expired = 0
  BY DEF FInit
<1>4. StoreOK
  BY <1>2, <1>3 DEF StoreOK
<1>5. HostOK /\ faults \in 0..MaxFaults
  <2>1. file \in Config /\ policy \in Config /\ rules \subseteq Op \cup {"base"} /\ faults \in 0..MaxFaults
    BY ConstantsAssumption DEF FInit, Config
  <2>2. unlisted \in BOOLEAN
    BY Zenon DEF FInit
  <2> QED BY Zenon, <2>1, <2>2 DEF HostOK
<1> QED BY Zenon, <1>1, <1>4, <1>5, IdleTyped DEF TInv, FInit

\* What the parts of the invariant are about.
LEMMA TypedFrame ==
    /\ PanelOK /\ UNCHANGED panel => PanelOK'
    /\ CallsOK /\ UNCHANGED transport => CallsOK'
    /\ StoreOK /\ UNCHANGED store => StoreOK'
    /\ HostOK /\ UNCHANGED host => HostOK'
    /\ faults \in 0..MaxFaults /\ UNCHANGED faults => faults' \in 0..MaxFaults
    /\ faults \in 0..MaxFaults /\ NoFault => faults' \in 0..MaxFaults
    /\ faults \in 0..MaxFaults /\ Fault => faults' \in 0..MaxFaults
<1>1. PanelOK /\ UNCHANGED panel => PanelOK'
  BY Zenon DEF PanelOK, panel
<1>2. CallsOK /\ UNCHANGED transport => CallsOK'
  BY Zenon DEF CallsOK, transport
<1>3. StoreOK /\ UNCHANGED store => StoreOK'
  BY Zenon DEF StoreOK, store, Recorded, Unsettled, Settled, Status
<1>4. HostOK /\ UNCHANGED host => HostOK'
  BY Zenon DEF HostOK, host
<1>5. /\ faults \in 0..MaxFaults /\ UNCHANGED faults => faults' \in 0..MaxFaults
      /\ faults \in 0..MaxFaults /\ NoFault => faults' \in 0..MaxFaults
      /\ faults \in 0..MaxFaults /\ Fault => faults' \in 0..MaxFaults
  BY ConstantsAssumption DEF Fault, NoFault
<1> QED BY Zenon, <1>1, <1>2, <1>3, <1>4, <1>5

\* An answer, the next stage that is due and a step of the protocol are typed.
LEMMA AnswerTyped ==
    ASSUME TInv, NEW k \in Kind, NEW o \in Op, NEW result \in {"ok", "error"}, Answer(k, o, result)
    PROVE  CallsOK' /\ agent' \in Agent
<1>1. agent' \in Agent
  BY Zenon, IdleTyped DEF Answer
<1>2. CASE <<k, o>> \in late
  <2>1. late' = late \ {<<k, o>>} /\ call' = call
    BY <1>2, Zenon DEF Answer
  <2> QED BY Zenon, <1>1, <2>1 DEF TInv, CallsOK
<1>3. CASE <<k, o>> \notin late
  <2>1. PICK c : c = <<k, o>>
    BY Zenon
  <2>2. call' = [call EXCEPT ![c] = result] /\ late' = late
    BY <1>3, <2>1, Zenon DEF Answer
  <2>3. call \in [Call -> {"idle", "sent", "ok", "error"}] /\ late \subseteq Call
    BY Zenon DEF TInv, CallsOK
  <2>4. call' \in [Call -> {"idle", "sent", "ok", "error"}]
    BY Zenon, <2>2, <2>3
  <2> QED BY Zenon, <1>1, <2>2, <2>3, <2>4 DEF CallsOK
<1> QED BY Zenon, <1>1, <1>2, <1>3

LEMMA NextTyped ==
    ASSUME NEW due \in SUBSET Op, RollBackNext(due)
    PROVE  agent' \in Agent
<1>1. PICK o \in Op : agent' = [pc |-> "begin", kind |-> "recover", op |-> o, due |-> due \ {o}]
  BY Zenon DEF RollBackNext
<1>2. due \ {o} \in SUBSET Op
  BY Zenon
<1> QED BY Zenon, <1>1, <1>2 DEF Agent, Pc

LEMMA ReturnTyped ==
    ASSUME TInv, NEW result \in {"ok", "error"}, Return(result)
    PROVE  CallsOK' /\ agent' \in Agent
<1>1. agent.op \in Op /\ agent.due \in SUBSET Op /\ agent.kind \in Kind \cup {"recover"}
  BY Zenon DEF TInv, Agent
<1>2. CASE agent.kind # "recover"
  <2>1. PICK k \in Kind, o \in Op : k = agent.kind /\ o = agent.op
    BY Zenon, <1>1, <1>2
  <2> QED BY Zenon, <1>2, <2>1, AnswerTyped DEF Return
<1>3. CASE agent.kind = "recover" /\ agent.due = {}
  BY <1>3, IdleTyped, TypedFrame, Zenon DEF Return, TInv
<1>4. CASE agent.kind = "recover" /\ agent.due # {}
  BY <1>1, <1>4, NextTyped, TypedFrame, Zenon DEF Return, TInv
<1> QED BY Zenon, <1>2, <1>3, <1>4

LEMMA GotoTyped ==
    ASSUME TInv, NEW pc \in Pc, Goto(pc)
    PROVE  agent' \in Agent /\ agent'.op = agent.op /\ agent'.pc = pc
BY Zenon DEF TInv, Goto, Agent

\* A record that is written or changed keeps the store typed.
LEMMA StageTyped ==
    ASSUME TInv, NEW p \in Op, NEW s \in Stage, stage' = [stage EXCEPT ![p] = s],
           s.status \in {"none", "partial"} => s.prev = "none" /\ ~Recorded(p)
    PROVE  /\ stage' \in [Op -> Stage] /\ stage'[p] = s
           /\ \A o \in Op \ {p} : stage'[o] = stage[o]
           /\ \A o \in Op : ~Recorded(o)' => stage'[o].prev = "none"
           /\ \A o \in Op : Recorded(o) => Recorded(o)'
<1>1. /\ stage' \in [Op -> Stage] /\ stage'[p] = s
      /\ \A o \in Op \ {p} : stage'[o] = stage[o]
  BY Zenon DEF TInv, StoreOK
<1>2. s.status \in StageStatus
  BY Zenon DEF Stage
<1>3. \A o \in Op : ~Recorded(o)' => stage'[o].prev = "none"
  BY Zenon, <1>1, <1>2 DEF TInv, StoreOK, Recorded, Unsettled, Settled, Status, StageStatus
<1>4. \A o \in Op : Recorded(o) => Recorded(o)'
  BY Zenon, <1>1, <1>2 DEF Recorded, Unsettled, Settled, Status, StageStatus
<1> QED BY Zenon, <1>1, <1>3, <1>4

LEMMA ListTyped ==
    ASSUME TInv, UNCHANGED <<created, expired>>, stage' \in [Op -> Stage],
           \A o \in Op : ~Recorded(o)' => stage'[o].prev = "none",
           \A o \in Op : Recorded(o) => Recorded(o)'
    PROVE  StoreOK'
<1>1. \A i \in 1..Len(created) : created[i] \in Op
  BY DEF TInv, StoreOK
<1> QED BY <1>1, Zenon DEF TInv, StoreOK

\* Only the status changes.
LEMMA StatusTyped ==
    ASSUME TInv, NEW p \in Op, NEW status \in StageStatus,
           stage' = [stage EXCEPT ![p].status = status], UNCHANGED <<created, expired>>,
           status \in {"none", "partial"} => ~Recorded(p)
    PROVE  /\ StoreOK'
           /\ \A o \in Op : stage'[o].prev = stage[o].prev
           /\ \A o \in Op : Status(o)' = IF o = p THEN status ELSE Status(o)
<1>1. PICK s : s = [stage[p] EXCEPT !.status = status]
  BY Zenon
<1>2. s \in Stage /\ s.status = status /\ s.prev = stage[p].prev
  BY Zenon, <1>1 DEF TInv, StoreOK, Stage
<1>3. stage' = [stage EXCEPT ![p] = s]
  BY Zenon, <1>1 DEF TInv, StoreOK
<1>4. s.status \in {"none", "partial"} => s.prev = "none" /\ ~Recorded(p)
  BY Zenon, <1>2 DEF TInv, StoreOK
<1>5. /\ stage' \in [Op -> Stage] /\ stage'[p] = s
      /\ \A o \in Op \ {p} : stage'[o] = stage[o]
      /\ \A o \in Op : ~Recorded(o)' => stage'[o].prev = "none"
      /\ \A o \in Op : Recorded(o) => Recorded(o)'
  BY Zenon, <1>2, <1>3, <1>4, StageTyped
<1>6. StoreOK'
  BY Zenon, <1>5, ListTyped
<1> QED BY <1>2, <1>5, <1>6 DEF Status
\* The panel's steps.
LEMMA PanelTyped ==
    ASSUME TInv, NEW o \in Op, PanelStep(o)
    PROVE  TInv' /\ UNCHANGED <<store, agent, host>>
<1>1. /\ row \in [Op -> RowStatus] /\ job \in [Op -> {"none", "available", "running", "done"}]
      /\ call \in [Call -> {"idle", "sent", "ok", "error"}] /\ late \subseteq Call
  BY Zenon DEF TInv, PanelOK, CallsOK
<1>2. ASSUME NEW c, NEW v \in {"idle", "sent", "ok", "error"}, call' = [call EXCEPT ![c] = v], UNCHANGED late
      PROVE  CallsOK'
  BY Zenon, <1>1, <1>2 DEF CallsOK
<1>3. ASSUME NEW s \in RowStatus, row' = [row EXCEPT ![o] = Guarded(o, s)]
      PROVE  row' \in [Op -> RowStatus]
  BY Zenon, <1>1, <1>3 DEF Guarded, Terminal, RowStatus
<1>4. ASSUME NEW s \in {"none", "available", "running", "done"}, job' = [job EXCEPT ![o] = s]
      PROVE  job' \in [Op -> {"none", "available", "running", "done"}]
  BY Zenon, <1>1, <1>4
<1>5. /\ UNCHANGED <<store, agent, host>> /\ UNCHANGED late /\ UNCHANGED faults
      /\ PanelOK' /\ CallsOK'
  <2>1. CASE Queue(o)
    <3>1. row' \in [Op -> RowStatus]
      BY Zenon, <1>1, <2>1 DEF Queue, RowStatus
    <3>2. job' \in [Op -> {"none", "available", "running", "done"}]
      BY Zenon, <1>4, <2>1 DEF Queue
    <3>3. CallsOK'
      BY <2>1, TypedFrame, Zenon DEF Queue, TInv
    <3> QED BY <2>1, <3>1, <3>2, <3>3, Zenon DEF Queue, PanelOK, transport
  <2>2. CASE BeginWork(o)
    <3>1. row' \in [Op -> RowStatus]
      BY Zenon, <1>3, <2>2 DEF BeginWork, RowStatus
    <3>2. job' \in [Op -> {"none", "available", "running", "done"}]
      BY Zenon, <1>4, <2>2 DEF BeginWork
    <3>3. UNCHANGED call \/ call' = [call EXCEPT ![<<"stage", o>>] = "sent"]
      BY <2>2, Zenon DEF BeginWork
    <3>4. UNCHANGED late /\ UNCHANGED <<store, agent, host, faults>>
      BY <2>2, Zenon DEF BeginWork
    <3>5. CallsOK'
      <4>1. CASE UNCHANGED call
        BY <1>1, <4>1, <3>4, Zenon DEF CallsOK
      <4>2. CASE call' = [call EXCEPT ![<<"stage", o>>] = "sent"]
        BY Zenon, <1>2, <4>2, <3>4
      <4> QED BY Zenon, <3>3, <4>1, <4>2
    <3> QED BY <3>1, <3>2, <3>4, <3>5, Zenon DEF PanelOK
  <2>3. CASE EndWork(o)
    <3>1. PICK s \in RowStatus : row' = [row EXCEPT ![o] = Guarded(o, s)]
      BY Zenon, <2>3 DEF EndWork, RowStatus
    <3>2. row' \in [Op -> RowStatus]
      BY Zenon, <1>3, <3>1
    <3>3. job' \in [Op -> {"none", "available", "running", "done"}]
      BY Zenon, <1>4, <2>3 DEF EndWork
    <3>4. CallsOK'
      BY Zenon, <1>2, <2>3 DEF EndWork
    <3> QED BY <2>3, <3>2, <3>3, <3>4, Zenon DEF EndWork, PanelOK
  <2>4. ASSUME NEW k \in Kind, Send(k, o)
        PROVE  UNCHANGED <<store, agent, host>> /\ UNCHANGED late /\ UNCHANGED faults /\ PanelOK' /\ CallsOK'
    <3>1. CallsOK'
      BY Zenon, <1>2, <2>4 DEF Send
    <3> QED BY <2>4, <3>1, TypedFrame, Zenon DEF Send, TInv
  <2>5. ASSUME NEW k \in Kind, Receive(k, o)
        PROVE  UNCHANGED <<store, agent, host>> /\ UNCHANGED late /\ UNCHANGED faults /\ PanelOK' /\ CallsOK'
    <3>1. CallsOK'
      BY Zenon, <1>2, <2>5 DEF Receive
    <3>2. Outcome(k, o) \in RowStatus
      BY Zenon DEF Outcome, RowStatus
    <3>3. row' \in [Op -> RowStatus]
      BY Zenon, <1>3, <2>5, <3>2 DEF Receive
    <3> QED BY <1>1, <2>5, <3>1, <3>3, Zenon DEF Receive, PanelOK
  <2> QED BY Zenon, <2>1, <2>2, <2>3, <2>4, <2>5 DEF PanelStep
<1> QED BY <1>5, TypedFrame, Zenon DEF TInv

\* Lost answers, crashes and the clock.
LEMMA WorldTyped ==
    ASSUME TInv, (\E c \in Call : LoseAnswer(c)) \/ PanelCrash \/ AgentCrash \/ Expire
    PROVE  TInv' /\ UNCHANGED <<stage, created, host>> /\ (agent' = Idle \/ agent' = agent)
<1>1. /\ row \in [Op -> RowStatus] /\ job \in [Op -> {"none", "available", "running", "done"}]
      /\ call \in [Call -> {"idle", "sent", "ok", "error"}] /\ late \subseteq Call
  BY Zenon DEF TInv, PanelOK, CallsOK
<1>2. ASSUME NEW c \in Call, LoseAnswer(c)
      PROVE  TInv' /\ UNCHANGED <<stage, created, host>> /\ agent' = agent
  <2>1. CallsOK'
    BY Zenon, <1>1, <1>2 DEF LoseAnswer, CallsOK
  <2> QED BY <1>2, <2>1, TypedFrame, Zenon DEF LoseAnswer, TInv, store
<1>3. CASE PanelCrash
  <2>1. CallsOK'
    BY Zenon, <1>1, <1>3 DEF PanelCrash, CallsOK
  <2>2. PanelOK'
    BY Zenon, <1>1, <1>3 DEF PanelCrash, PanelOK
  <2> QED BY <1>3, <2>1, <2>2, TypedFrame, Zenon DEF PanelCrash, TInv, store
<1>4. CASE AgentCrash
  <2>1. CallsOK'
    BY Zenon, <1>1, <1>4 DEF AgentCrash, CallsOK
  <2> QED BY <1>4, <2>1, IdleTyped, TypedFrame, Zenon DEF AgentCrash, TInv, store
<1>5. CASE Expire
  <2>1. expired' \in 0..Len(created)
    BY <1>5 DEF Expire, TInv, StoreOK
  <2>2. UNCHANGED <<stage, created>>
    BY <1>5, Zenon DEF Expire
  <2>3. StoreOK'
    BY <2>1, <2>2, Zenon DEF TInv, StoreOK, Recorded, Unsettled, Settled, Status
  <2> QED BY <1>5, <2>2, <2>3, TypedFrame, Zenon DEF Expire, TInv
<1> QED BY <1>2, <1>3, <1>4, <1>5, Zenon
-----------------------------------------------------------------------------
(* No candidate outlives its stage.                                        *)

Holding == {"pending_confirmation", "confirmed", "rollback_pending"}

\* What excuses a candidate in the file or in the kernel.
Held ==
    /\ file \in Op => Snapshotted(file) \/ Status(file) \in Holding
    /\ policy \in Op => Snapshotted(policy) \/ Status(policy) \in Holding \/ unlisted
    /\ \A c \in rules \cap Op : Snapshotted(c) \/ Status(c) \in Holding \/ unlisted \/ stage[c].prev # "none"

\* A rollback that is about to be recorded has restored the file and the table.
Restored ==
    /\ agent.pc \in {"restore_live", "complete"} => file = stage[agent.op].prev
    /\ agent.pc = "complete" =>
          /\ policy = stage[agent.op].prev \/ unlisted
          /\ stage[agent.op].prev = "none" => rules = {} \/ unlisted

UInv == TInv /\ Held /\ Restored

\* What a step that leaves the file and the table alone may do to the stages.
Keeping ==
    \A o \in Op :
        /\ stage[o].prev # "none" => stage'[o].prev = stage[o].prev
        /\ stage'[o].prev = "none" \/ stage'[o].prev = stage[o].prev \/ Status(o)' \in Holding
        /\ Status(o) \in Holding => Status(o)' \in Holding

LEMMA SnapshotsLast ==
    ASSUME Keeping, NEW c \in Op, Snapshotted(c)
    PROVE  Snapshotted(c)'
BY Zenon, ConstantsAssumption DEF Keeping, Snapshotted

LEMMA HeldLasts ==
    ASSUME Held, Keeping, UNCHANGED host
    PROVE  Held'
<1>1. file' = file /\ policy' = policy /\ rules' = rules /\ unlisted' = unlisted
  BY Zenon DEF host
<1>2. ASSUME NEW c \in Op
      PROVE  /\ Snapshotted(c) => \E o \in Op : stage'[o].prev = c
             /\ Status(c) \in Holding => stage'[c].status \in Holding
             /\ stage[c].prev # "none" => stage'[c].prev # "none"
  <2>1. Snapshotted(c) => \E o \in Op : stage'[o].prev = c
    BY Zenon, SnapshotsLast DEF Snapshotted
  <2>2. /\ Status(c) \in Holding => stage'[c].status \in Holding
        /\ stage[c].prev # "none" => stage'[c].prev # "none"
    BY Zenon DEF Keeping, Status
  <2> QED BY Zenon, <2>1, <2>2
<1> QED BY <1>1, <1>2, Zenon DEF Held, Snapshotted, Status

\* Stages that do not change keep everything.
LEMMA StoreKeeps ==
    ASSUME UNCHANGED stage
    PROVE  Keeping
BY Zenon DEF Keeping, Status

\* A call that ends does not leave the agent before the record of a rollback.
LEMMA ReturnEnds ==
    ASSUME NEW result, Return(result)
    PROVE  agent'.pc \in {"idle", "begin"}
<1>1. ASSUME RollBackNext(agent.due) PROVE agent'.pc = "begin"
  BY <1>1 DEF RollBackNext
<1>2. CASE agent' = Idle
  BY Zenon, <1>2 DEF Idle
<1> QED BY <1>1, <1>2, Zenon DEF Return, Answer

\* A step that changes neither the stages nor the host.
LEMMA AgentMoves ==
    ASSUME UInv, UNCHANGED <<panel, store, host>>, CallsOK', agent' \in Agent, faults' \in 0..MaxFaults,
           agent'.pc \notin {"restore_live", "complete"}
    PROVE  UInv'
<1>1. TInv'
  BY TypedFrame, Zenon DEF UInv, TInv
<1>2. Keeping
  BY Zenon, StoreKeeps DEF store
<1>3. Held'
  BY Zenon, <1>2, HeldLasts DEF UInv
<1> QED BY Zenon, <1>1, <1>3 DEF UInv, Restored
\* A step that changes one status.
LEMMA StatusMoves ==
    ASSUME UInv, NEW p \in Op, NEW status \in StageStatus, UNCHANGED <<created, expired, panel, host>>,
           stage' = [stage EXCEPT ![p].status = status],
           status \in {"none", "partial"} => ~Recorded(p), Status(p) \in Holding => status \in Holding,
           CallsOK', agent' \in Agent, faults' \in 0..MaxFaults,
           agent'.pc \notin {"restore_live", "complete"}
    PROVE  UInv'
<1>1. /\ StoreOK'
      /\ \A o \in Op : stage'[o].prev = stage[o].prev
      /\ \A o \in Op : Status(o)' = IF o = p THEN status ELSE Status(o)
  BY Zenon, StatusTyped DEF UInv
<1>2. TInv'
  BY <1>1, TypedFrame, Zenon DEF UInv, TInv
<1>3. Keeping
  BY Zenon, <1>1 DEF Keeping
<1>4. Held'
  BY Zenon, <1>3, HeldLasts DEF UInv
<1> QED BY Zenon, <1>2, <1>4 DEF UInv, Restored

\* The agent takes up a call or the stages that are due.
LEMMA ServeUndoes ==
    ASSUME UInv, NEW o \in Op, Serve(o)
    PROVE  UInv'
<1> USE DEF UInv
<1>1. agent \in Agent /\ faults \in 0..MaxFaults
  BY Zenon DEF TInv
<1>2. ASSUME NEW pc \in {"mkdir", "begin"}, NEW k \in Kind,
             agent' = [agent EXCEPT !.pc = pc, !.kind = k, !.op = o]
      PROVE  agent' \in Agent /\ agent'.pc \notin {"restore_live", "complete"}
  BY Zenon, <1>1, <1>2 DEF Agent, Pc
<1>3. ASSUME NEW k \in Kind, NEW result \in {"ok", "error"}, Answer(k, o, result)
      PROVE  CallsOK' /\ agent' \in Agent /\ agent'.pc \notin {"restore_live", "complete"}
  <2>1. agent'.pc = "idle"
    BY Zenon, <1>3 DEF Answer, Idle
  <2> QED BY Zenon, <1>3, <2>1, AnswerTyped
<1>4. CASE ServeStage(o)
  <2>1. UNCHANGED <<panel, store, host>> /\ faults' \in 0..MaxFaults
    BY <1>1, <1>4, Zenon DEF ServeStage
  <2>2. CASE Status(o) = "none"
    <3>1. agent' = [agent EXCEPT !.pc = "mkdir", !.kind = "stage", !.op = o] /\ UNCHANGED transport
      BY <1>4, <2>2, Zenon DEF ServeStage
    <3>2. CallsOK'
      BY <3>1, TypedFrame, Zenon DEF TInv
    <3>3. agent' \in Agent /\ agent'.pc \notin {"restore_live", "complete"}
      BY Zenon, <1>2, <3>1 DEF Kind
    <3> QED BY Zenon, <2>1, <3>2, <3>3, AgentMoves
  <2>3. CASE Status(o) # "none"
    <3>1. PICK result \in {"ok", "error"} : Answer("stage", o, result)
      BY <1>4, <2>3, Zenon DEF ServeStage
    <3>2. CallsOK' /\ agent' \in Agent /\ agent'.pc \notin {"restore_live", "complete"}
      BY Zenon, <1>3, <3>1 DEF Kind
    <3> QED BY Zenon, <2>1, <3>2, AgentMoves
  <2> QED BY Zenon, <2>2, <2>3
<1>5. CASE ServeConfirm(o)
  <2>1. UNCHANGED <<panel, created, expired, host>>
    BY <1>5, Zenon DEF ServeConfirm
  <2>2. CASE Confirm(o) /\ NoFault
    <3>1. PICK result \in {"ok", "error"} : Answer("confirm", o, result)
      BY <2>2, Zenon DEF Confirm
    <3>2. CallsOK' /\ agent' \in Agent /\ agent'.pc \notin {"restore_live", "complete"}
      BY Zenon, <1>3, <3>1 DEF Kind
    <3>3. PICK status \in StageStatus :
             /\ stage' = [stage EXCEPT ![o].status = status]
             /\ status = "confirmed" \/ status = Status(o)
      BY Zenon, <2>2 DEF Confirm, Status, TInv, StoreOK, Stage, StageStatus
    <3>4. status \in {"none", "partial"} => ~Recorded(o)
      BY Zenon, <3>3 DEF Recorded, Unsettled, Settled
    <3>5. Status(o) \in Holding => status \in Holding
      BY Zenon, <3>3 DEF Holding
    <3>6. faults' \in 0..MaxFaults
      BY <1>1, <2>2, TypedFrame, Zenon
    <3> QED BY Zenon, <2>1, <3>2, <3>3, <3>4, <3>5, <3>6, StatusMoves
  <2>3. CASE Answer("confirm", o, "error") /\ Fault /\ UNCHANGED stage
    <3>1. CallsOK' /\ agent' \in Agent /\ agent'.pc \notin {"restore_live", "complete"}
      BY Zenon, <1>3, <2>3 DEF Kind
    <3>2. faults' \in 0..MaxFaults /\ UNCHANGED <<panel, store, host>>
      BY <1>1, <2>1, <2>3, TypedFrame, Zenon DEF store
    <3> QED BY Zenon, <3>1, <3>2, AgentMoves
  <2> QED BY <1>5, <2>2, <2>3, Zenon DEF ServeConfirm
<1>6. CASE ServeRevert(o)
  <2>1. UNCHANGED <<panel, store, host>> /\ faults' \in 0..MaxFaults /\ UNCHANGED transport
    BY <1>1, <1>6, Zenon DEF ServeRevert
  <2>2. agent' \in Agent /\ agent'.pc \notin {"restore_live", "complete"}
    BY Zenon, <1>2, <1>6 DEF ServeRevert, Kind
  <2>3. CallsOK'
    BY <2>1, TypedFrame, Zenon DEF TInv
  <2> QED BY Zenon, <2>1, <2>2, <2>3, AgentMoves
<1> QED BY Zenon, <1>4, <1>5, <1>6 DEF Serve

LEMMA RecoverUndoes ==
    ASSUME UInv, Recover
    PROVE  UInv'
<1>1. PICK due \in SUBSET Op : RollBackNext(due)
  BY Zenon DEF Recover
<1>2. agent' \in Agent
  BY Zenon, <1>1, NextTyped
<1>3. agent'.pc = "begin"
  BY <1>1 DEF RollBackNext
<1>4. UNCHANGED <<panel, store, host>> /\ CallsOK' /\ faults' \in 0..MaxFaults
  BY TypedFrame, Zenon DEF Recover, UInv, TInv
<1> QED BY Zenon, <1>2, <1>3, <1>4, AgentMoves
\* What the steps of a call have in common.
LEMMA AtWork ==
    ASSUME UInv
    PROVE  /\ agent.op \in Op /\ faults \in 0..MaxFaults
           /\ \A result \in {"ok", "error"} : Return(result) =>
                 CallsOK' /\ agent' \in Agent /\ agent'.pc \notin {"restore_live", "complete"}
           /\ \A pc \in Pc : Goto(pc) /\ UNCHANGED transport =>
                 CallsOK' /\ agent' \in Agent /\ agent'.op = agent.op /\ agent'.pc = pc
           /\ Fault \/ NoFault => faults' \in 0..MaxFaults
<1>1. agent.op \in Op /\ faults \in 0..MaxFaults
  BY Zenon DEF UInv, TInv, Agent
<1>2. ASSUME NEW result \in {"ok", "error"}, Return(result)
      PROVE  CallsOK' /\ agent' \in Agent /\ agent'.pc \notin {"restore_live", "complete"}
  <2>1. agent'.pc \in {"idle", "begin"}
    BY Zenon, <1>2, ReturnEnds
  <2>2. CallsOK' /\ agent' \in Agent
    BY Zenon, <1>2, ReturnTyped DEF UInv
  <2> QED BY Zenon, <2>1, <2>2
<1>3. ASSUME NEW pc \in Pc, Goto(pc), UNCHANGED transport
      PROVE  CallsOK' /\ agent' \in Agent /\ agent'.op = agent.op /\ agent'.pc = pc
  BY <1>3, GotoTyped, TypedFrame, Zenon DEF UInv, TInv
<1>4. Fault \/ NoFault => faults' \in 0..MaxFaults
  BY <1>1, TypedFrame, Zenon
<1> QED BY <1>1, <1>2, <1>3, <1>4, Zenon

\* stageRendered.
LEMMA StagingUndoes ==
    ASSUME UInv, InProtocol, MakeDirectory \/ WriteRecord \/ StageFails
    PROVE  UInv'
<1>1. PICK o \in Op : o = agent.op
  BY Zenon, AtWork
<1>2. agent.pc \in {"mkdir", "record"} /\ Status(o) \in {"none", "partial"}
  BY Zenon, <1>1 DEF MakeDirectory, WriteRecord, StageFails, At, InProtocol, Staging
<1>3. ~Recorded(o) /\ Status(o) \notin Holding
  BY Zenon, <1>2 DEF Recorded, Unsettled, Settled, Holding
<1>4. stage[o].prev = "none"
  BY Zenon, <1>3 DEF UInv, TInv, StoreOK
<1>5. CASE MakeDirectory
  <2>1. CallsOK' /\ agent' \in Agent /\ agent'.pc = "record" /\ faults' \in 0..MaxFaults
    BY <1>5, AtWork, Zenon DEF MakeDirectory, Pc
  <2>2. stage' = [stage EXCEPT ![o].status = "partial"] /\ UNCHANGED <<created, expired, panel, host>>
    BY Zenon, <1>1, <1>5 DEF MakeDirectory
  <2> QED BY Zenon, <1>3, <2>1, <2>2, StatusMoves DEF StageStatus
<1>6. CASE WriteRecord
  <2>1. CallsOK' /\ agent' \in Agent /\ agent'.pc = "check" /\ faults' \in 0..MaxFaults
    BY <1>6, AtWork, Zenon DEF WriteRecord, Pc
  <2>2. PICK s : s = [status |-> "pending_confirmation", prev |-> file]
    BY Zenon
  <2>3. s \in Stage /\ s.status = "pending_confirmation"
    BY Zenon, <2>2 DEF Stage, StageStatus, UInv, TInv, HostOK
  <2>4. stage' = [stage EXCEPT ![o] = s] /\ created' = Append(created, o) /\ UNCHANGED <<expired, panel, host>>
    BY Zenon, <1>1, <1>6, <2>2 DEF WriteRecord
  <2>5. /\ stage' \in [Op -> Stage] /\ stage'[o] = s
        /\ \A p \in Op \ {o} : stage'[p] = stage[p]
        /\ \A p \in Op : ~Recorded(p)' => stage'[p].prev = "none"
        /\ \A p \in Op : Recorded(p) => Recorded(p)'
    BY Zenon, <2>3, <2>4, StageTyped DEF UInv
  <2>6. Recorded(o)'
    BY Zenon, <2>3, <2>5 DEF Recorded, Unsettled, Settled, Status
  <2>7. /\ created \in Seq(Op) /\ expired \in 0..Len(created)
        /\ \A i \in 1..Len(created) : created[i] \in Op
        /\ \A i \in 1..Len(created) : Recorded(created[i])
        /\ \A i, j \in 1..Len(created) : created[i] = created[j] => i = j
    BY DEF UInv, TInv, StoreOK
  <2>8. \A i \in 1..Len(created) : created[i] # o
    BY <1>3, <2>7, Zenon
  <2>9. /\ created' \in Seq(Op) /\ Len(created') = Len(created) + 1 /\ expired' \in 0..Len(created')
        /\ \A i \in 1..Len(created) : created'[i] = created[i]
        /\ created'[Len(created) + 1] = o
        /\ \A i \in 1..Len(created') : i \in 1..Len(created) \/ i = Len(created) + 1
    BY <2>4, <2>7
  <2>10. \A i \in 1..Len(created') : Recorded(created[i])'
    <3> TAKE i \in 1..Len(created')
    <3>1. PICK p : p = created'[i]
      BY Zenon
    <3>2. p \in Op /\ Recorded(p)'
      <4>1. CASE i = Len(created) + 1
        BY Zenon, <2>6, <2>9, <3>1, <4>1
      <4>2. CASE i \in 1..Len(created)
        <5>1. p = created[i]
          BY Zenon, <2>9, <3>1, <4>2
        <5>2. p \in Op /\ Recorded(p)
          BY <2>7, <4>2, <5>1, Zenon
        <5> QED BY Zenon, <2>5, <5>2
      <4> QED BY Zenon, <2>9, <4>1, <4>2
    <3> QED BY <3>1, <3>2, Zenon DEF Recorded, Unsettled, Settled, Status
  <2>11. \A i, j \in 1..Len(created') : created'[i] = created'[j] => i = j
    BY <2>7, <2>8, <2>9, Zenon
  <2>12. StoreOK'
    BY <2>5, <2>9, <2>10, <2>11, Zenon DEF StoreOK, Recorded, Unsettled, Settled, Status
  <2>13. TInv'
    BY <2>1, <2>4, <2>12, TypedFrame, Zenon DEF UInv, TInv
  <2>14. Keeping
    BY Zenon, <1>3, <1>4, <2>3, <2>5 DEF Keeping, Holding, Status
  <2>15. Held'
    BY Zenon, <2>4, <2>14, HeldLasts DEF UInv
  <2> QED BY Zenon, <2>1, <2>13, <2>15 DEF UInv, Restored
<1>7. CASE StageFails
  <2>1. CallsOK' /\ agent' \in Agent /\ agent'.pc \notin {"restore_live", "complete"} /\ faults' \in 0..MaxFaults
    BY <1>7, AtWork, Zenon DEF StageFails
  <2>2. stage' = [stage EXCEPT ![o] = Missing] /\ UNCHANGED <<created, expired, panel, host>>
    BY Zenon, <1>1, <1>7 DEF StageFails
  <2>3. Missing \in Stage /\ Missing.prev = "none" /\ Missing.status = "none"
    BY Zenon DEF Missing, Stage, StageStatus, Config
  <2>4. /\ stage' \in [Op -> Stage] /\ stage'[o] = Missing
        /\ \A p \in Op \ {o} : stage'[p] = stage[p]
        /\ \A p \in Op : ~Recorded(p)' => stage'[p].prev = "none"
        /\ \A p \in Op : Recorded(p) => Recorded(p)'
    BY Zenon, <1>3, <2>2, <2>3, StageTyped DEF UInv
  <2>5. StoreOK'
    BY Zenon, <2>2, <2>4, ListTyped DEF UInv
  <2>6. TInv'
    BY <2>1, <2>2, <2>5, TypedFrame, Zenon DEF UInv, TInv
  <2>7. Keeping
    BY Zenon, <1>3, <1>4, <2>3, <2>4 DEF Keeping, Holding, Status
  <2>8. Held'
    BY Zenon, <2>2, <2>7, HeldLasts DEF UInv
  <2> QED BY Zenon, <2>1, <2>6, <2>8 DEF UInv, Restored
<1> QED BY Zenon, <1>5, <1>6, <1>7

\* Taking the table for missing because nft list failed.
Overlook == unlisted' = TRUE /\ UNCHANGED <<policy, rules>>

\* Loading the candidate of stage o or what that stage found, deleting the table,
\* or leaving it alone.
Loads(o) ==
    /\ policy' \in {policy, o, stage[o].prev}
    /\ rules' \subseteq rules \cup ({o, stage[o].prev} \ {"none"})
    /\ unlisted' \in BOOLEAN
    /\ unlisted => unlisted' \/ (policy' = "none" /\ rules' = {})

\* What activating and restoring do to the table.
LEMMA TableMoves ==
    ASSUME HostOK, NEW o \in Op, o = agent.op, KeepTable \/ Load(agent.op) \/ RestoreTable \/ Overlook
    PROVE  Loads(o)
<1>1. o # "none" /\ unlisted \in BOOLEAN
  BY ConstantsAssumption, Zenon DEF HostOK
<1>2. CASE KeepTable
  BY <1>1, <1>2, Zenon DEF KeepTable, Loads
<1>3. CASE Load(agent.op)
  BY <1>1, <1>3, Zenon DEF Load, Loads
<1>4. CASE RestoreTable
  BY <1>1, <1>4, Zenon DEF RestoreTable, Previous, Load, Loads
<1>5. CASE Overlook
  BY <1>5, Zenon DEF Overlook, Loads
<1> QED BY Zenon, <1>2, <1>3, <1>4, <1>5

\* A step that changes the host: it installs the candidate of an armed stage,
\* or what that stage found.
LEMMA HostMoves ==
    ASSUME UInv, UNCHANGED <<panel, store>>, CallsOK', agent' \in Agent, faults' \in 0..MaxFaults,
           NEW o \in Op, Status(o) \in Holding,
           file' \in {file, o, stage[o].prev}, Loads(o)
    PROVE  TInv' /\ Held'
<1>1. stage[o].prev \in Config /\ o \in Config /\ HostOK /\ PanelOK /\ StoreOK
  BY Zenon DEF UInv, TInv, StoreOK, Stage, Config
<1>2. HostOK'
  <2>1. file' \in Config /\ policy' \in Config
    BY Zenon, <1>1 DEF HostOK, Loads
  <2>2. rules' \subseteq Op \cup {"base"}
    BY Zenon, <1>1 DEF HostOK, Loads, Config
  <2>3. unlisted' \in BOOLEAN
    BY Zenon DEF Loads
  <2> QED BY Zenon, <2>1, <2>2, <2>3 DEF HostOK
<1>3. TInv'
  BY <1>1, <1>2, TypedFrame, Zenon DEF TInv
<1>4. stage' = stage
  BY Zenon DEF store
<1>5. \A c \in Op : c = o \/ c = stage[o].prev => (\E p \in Op : stage[p].prev = c) \/ stage[c].status \in Holding
  BY Zenon DEF Status
<1>6. file' \in Op => (\E p \in Op : stage[p].prev = file') \/ stage[file'].status \in Holding
  BY Zenon, <1>5 DEF UInv, Held, Snapshotted, Status
<1>7. policy' \in Op => (\E p \in Op : stage[p].prev = policy') \/ stage[policy'].status \in Holding \/ unlisted'
  <2>1. CASE policy' = policy
    BY Zenon, <2>1, ConstantsAssumption DEF UInv, Held, Snapshotted, Status, Loads
  <2>2. CASE policy' \in {o, stage[o].prev}
    BY Zenon, <1>5, <2>2
  <2> QED BY Zenon, <2>1, <2>2 DEF Loads
<1>8. \A c \in rules' \cap Op : \/ \E p \in Op : stage[p].prev = c
                              \/ stage[c].status \in Holding
                              \/ unlisted' \/ stage[c].prev # "none"
  <2> TAKE c \in rules' \cap Op
  <2>1. CASE c \in rules
    BY Zenon, <2>1 DEF UInv, Held, Snapshotted, Status, Loads
  <2>2. CASE c \in {o, stage[o].prev}
    BY Zenon, <1>5, <2>2
  <2> QED BY Zenon, <2>1, <2>2 DEF Loads
<1>9. Held'
  BY <1>4, <1>6, <1>7, <1>8, Zenon DEF Held, Snapshotted, Status
<1> QED BY Zenon, <1>3, <1>9

\* ValidateAndApplyNftables up to its own undoing.
LEMMA ApplyUndoes ==
    ASSUME UInv, InProtocol, Check \/ Install \/ Activate \/ Health \/ Undo
    PROVE  UInv'
<1>1. PICK o \in Op : o = agent.op
  BY Zenon, AtWork
<1>2. agent.pc \in Applying
  BY Zenon DEF Check, Install, Activate, Health, Undo, RestoreFile, RestoreLive, At, Applying
<1>3. Status(o) \in Holding
  BY Zenon, <1>1, <1>2 DEF InProtocol, Holding
<1>4. CASE Check
  <2>1. CallsOK' /\ agent' \in Agent /\ agent'.pc \notin {"restore_live", "complete"}
    <3>1. CASE (Goto("install") \/ Goto("begin")) /\ UNCHANGED transport
      BY Zenon, <3>1, AtWork DEF Pc
    <3>2. CASE Return("error")
      BY Zenon, <3>2, AtWork
    <3> QED BY <1>4, <3>1, <3>2, Zenon DEF Check
  <2>2. UNCHANGED <<panel, store, host>> /\ faults' \in 0..MaxFaults
    BY <1>4, AtWork, Zenon DEF Check
  <2> QED BY Zenon, <2>1, <2>2, AgentMoves
<1>5. CASE Health
  <2>1. CallsOK' /\ agent' \in Agent /\ agent'.pc \notin {"restore_live", "complete"}
    <3>1. CASE Goto("undo_file") /\ UNCHANGED transport
      BY Zenon, <3>1, AtWork DEF Pc
    <3>2. CASE Return("ok")
      BY Zenon, <3>2, AtWork
    <3> QED BY <1>5, <3>1, <3>2, Zenon DEF Health
  <2>2. UNCHANGED <<panel, store, host>> /\ faults' \in 0..MaxFaults
    BY <1>5, AtWork, Zenon DEF Health
  <2> QED BY Zenon, <2>1, <2>2, AgentMoves
<1>6. CASE Install \/ Activate \/ Undo
  <2>1. /\ UNCHANGED <<panel, store>> /\ UNCHANGED transport
        /\ Fault \/ NoFault
        /\ \E pc \in {"activate", "begin", "health", "undo_file", "undo_live"} : Goto(pc)
    BY <1>6, Zenon DEF Install, Activate, Undo, RestoreFile, RestoreLive
  <2>2. PICK pc \in {"activate", "begin", "health", "undo_file", "undo_live"} : Goto(pc)
    BY Zenon, <2>1
  <2>3. CallsOK' /\ agent' \in Agent /\ agent'.pc = pc
    BY Zenon, <2>1, <2>2, AtWork DEF Pc
  <2>4. faults' \in 0..MaxFaults
    BY <2>1, AtWork, Zenon
  <2>5. /\ file' \in {file, o, stage[o].prev}
        /\ KeepTable \/ Load(agent.op) \/ RestoreTable \/ Overlook
    BY <1>1, <1>6, Zenon DEF Install, Activate, Undo, RestoreFile, RestoreLive, Previous, Overlook
  <2>6. Loads(o)
    BY Zenon, <1>1, <2>5, TableMoves DEF UInv, TInv
  <2>7. TInv' /\ Held'
    BY Zenon, <1>3, <2>1, <2>3, <2>4, <2>5, <2>6, HostMoves
  <2> QED BY Zenon, <2>3, <2>7 DEF UInv, Restored
<1> QED BY Zenon, <1>4, <1>5, <1>6

\* The rollback of the agent's stage.
LEMMA RollbackUndoes ==
    ASSUME UInv, InProtocol, BeginRollback \/ RestorePrevious \/ CompleteRollback \/ RollbackFails
    PROVE  UInv'
<1>1. PICK o \in Op : o = agent.op
  BY Zenon, AtWork
<1>2. CASE RollbackFails
  <2>1. CallsOK' /\ agent' \in Agent /\ agent'.pc \notin {"restore_live", "complete"} /\ faults' \in 0..MaxFaults
    BY <1>2, AtWork, Zenon DEF RollbackFails
  <2>2. UNCHANGED <<panel, store, host>>
    BY <1>2, Zenon DEF RollbackFails
  <2> QED BY Zenon, <2>1, <2>2, AgentMoves
<1>3. CASE BeginRollback /\ Unsettled(agent.op)
  <2>1. stage' = [stage EXCEPT ![o].status = "rollback_pending"] /\ UNCHANGED <<created, expired, panel, host>>
    BY <1>1, <1>3, Zenon DEF BeginRollback
  <2>2. CallsOK' /\ agent' \in Agent /\ agent'.pc = "restore_file" /\ faults' \in 0..MaxFaults
    BY <1>3, AtWork, Zenon DEF BeginRollback, Pc
  <2> QED BY Zenon, <2>1, <2>2, StatusMoves DEF StageStatus, Holding
<1>4. CASE BeginRollback /\ ~Unsettled(agent.op)
  <2>1. PICK result \in {"ok", "error"} : Return(result)
    BY <1>4, Zenon DEF BeginRollback
  <2>2. CallsOK' /\ agent' \in Agent /\ agent'.pc \notin {"restore_live", "complete"}
    BY Zenon, <2>1, AtWork
  <2>3. UNCHANGED <<panel, store, host>> /\ faults' \in 0..MaxFaults
    BY <1>4, AtWork, Zenon DEF BeginRollback, store
  <2> QED BY Zenon, <2>2, <2>3, AgentMoves
<1>5. CASE RestorePrevious
  <2>1. Status(o) \in Holding /\ agent.pc \in {"restore_file", "restore_live"}
    BY Zenon, <1>1, <1>5 DEF RestorePrevious, RestoreFile, RestoreLive, At, InProtocol, RollingBack, Holding
  <2>2. UNCHANGED <<panel, store>> /\ faults' \in 0..MaxFaults
    BY <1>5, AtWork, Zenon DEF RestorePrevious, RestoreFile, RestoreLive
  <2>3. file' \in {file, o, stage[o].prev} /\ Loads(o)
    <3>1. /\ file' \in {file, o, stage[o].prev}
          /\ KeepTable \/ Load(agent.op) \/ RestoreTable \/ Overlook
      BY <1>1, <1>5, Zenon DEF RestorePrevious, RestoreFile, RestoreLive, Previous, Overlook
    <3> QED BY Zenon, <1>1, <3>1, TableMoves DEF UInv, TInv
  <2>4. stage' = stage
    BY <2>2, Zenon DEF store
  <2>5. CASE Return("error")
    <3>1. CallsOK' /\ agent' \in Agent /\ agent'.pc \notin {"restore_live", "complete"}
      BY Zenon, <2>5, AtWork
    <3>2. TInv' /\ Held'
      BY Zenon, <2>1, <2>2, <2>3, <3>1, HostMoves
    <3> QED BY Zenon, <3>1, <3>2 DEF UInv, Restored
  <2>6. CASE file' = Previous /\ Goto("restore_live") /\ UNCHANGED transport
    <3>1. CallsOK' /\ agent' \in Agent /\ agent'.pc = "restore_live" /\ agent'.op = o
      BY Zenon, <1>1, <2>6, AtWork DEF Pc
    <3>2. TInv' /\ Held'
      BY Zenon, <2>1, <2>2, <2>3, <3>1, HostMoves
    <3>3. file' = stage[o].prev
      BY Zenon, <1>1, <2>6 DEF Previous
    <3>4. Restored'
      BY Zenon, <2>4, <3>1, <3>3 DEF Restored
    <3> QED BY Zenon, <3>2, <3>4 DEF UInv
  <2>7. CASE /\ agent.pc = "restore_live" /\ UNCHANGED file
             /\ policy' = Previous \/ unlisted'
             /\ Previous = "none" => rules' = {} \/ unlisted'
             /\ Goto("complete") /\ UNCHANGED transport
    <3>1. CallsOK' /\ agent' \in Agent /\ agent'.pc = "complete" /\ agent'.op = o
      BY Zenon, <1>1, <2>7, AtWork DEF Pc
    <3>2. TInv' /\ Held'
      BY Zenon, <2>1, <2>2, <2>3, <3>1, HostMoves
    <3>3. /\ file' = stage[o].prev /\ (policy' = stage[o].prev \/ unlisted')
          /\ stage[o].prev = "none" => rules' = {} \/ unlisted'
      BY Zenon, <1>1, <2>7 DEF Previous, UInv, Restored
    <3>4. Restored'
      BY Zenon, <2>4, <3>1, <3>3 DEF Restored
    <3> QED BY Zenon, <3>2, <3>4 DEF UInv
  <2>8. RestoreTable => policy' = Previous /\ (Previous = "none" => rules' = {})
    BY Zenon DEF RestoreTable, Load
  <2> QED BY <1>5, <2>5, <2>6, <2>7, <2>8, Zenon DEF RestorePrevious, RestoreFile, RestoreLive, At
<1>6. CASE CompleteRollback
  <2>1. PICK result \in {"ok", "error"} : Return(result)
    BY <1>6, Zenon DEF CompleteRollback
  <2>2. CallsOK' /\ agent' \in Agent /\ agent'.pc \notin {"restore_live", "complete"}
    BY Zenon, <2>1, AtWork
  <2>3. /\ stage' = [stage EXCEPT ![o].status = "rolled_back"] /\ UNCHANGED <<created, expired, panel, host>>
        /\ faults' \in 0..MaxFaults
    BY <1>1, <1>6, AtWork, Zenon DEF CompleteRollback
  <2>4. /\ StoreOK'
        /\ \A p \in Op : stage'[p].prev = stage[p].prev
        /\ \A p \in Op : Status(p)' = IF p = o THEN "rolled_back" ELSE Status(p)
    BY Zenon, <2>3, StatusTyped DEF UInv, StageStatus
  <2>5. TInv'
    BY <2>2, <2>3, <2>4, TypedFrame, Zenon DEF UInv, TInv
  <2>6. /\ file = stage[o].prev /\ (policy = stage[o].prev \/ unlisted)
        /\ stage[o].prev = "none" => rules = {} \/ unlisted
    BY Zenon, <1>1, <1>6 DEF CompleteRollback, At, UInv, Restored
  <2>7. file' = file /\ policy' = policy /\ rules' = rules /\ unlisted' = unlisted
    BY Zenon, <2>3 DEF host
  <2>8. /\ file \in Op => \E p \in Op : stage'[p].prev = file
        /\ policy \in Op => (\E p \in Op : stage'[p].prev = policy) \/ unlisted
    BY Zenon, <2>4, <2>6
  <2>9. \A c \in rules \cap Op : \/ \E p \in Op : stage'[p].prev = c
                               \/ stage'[c].status \in Holding
                               \/ unlisted \/ stage'[c].prev # "none"
    <3> TAKE c \in rules \cap Op
    <3>1. CASE c = o
      BY Zenon, <2>4, <2>6, <3>1
    <3>2. CASE c # o
      BY Zenon, <2>4, <3>2 DEF UInv, Held, Snapshotted, Status
    <3> QED BY Zenon, <3>1, <3>2
  <2>10. Held'
    BY <2>7, <2>8, <2>9, Zenon DEF Held, Snapshotted, Status
  <2> QED BY Zenon, <2>2, <2>5, <2>10 DEF UInv, Restored
<1> QED BY Zenon, <1>2, <1>3, <1>4, <1>5, <1>6

LEMMA UndoneInit == FInit => UInv
<1> SUFFICES ASSUME FInit PROVE UInv
  BY Zenon
<1>1. file \notin Op /\ policy \notin Op /\ rules \cap Op = {}
  BY Zenon, ConstantsAssumption DEF FInit
<1>2. agent.pc = "idle"
  BY Zenon DEF FInit, Idle
<1> QED BY Zenon, <1>1, <1>2, TypedInit DEF UInv, Held, Restored

LEMMA UndoneStep ==
    ASSUME UInv, InProtocol, [FNext]_vars
    PROVE  UInv'
<1>1. ASSUME NEW o \in Op, PanelStep(o) PROVE UInv'
  <2>1. TInv' /\ UNCHANGED <<store, agent, host>>
    BY Zenon, <1>1, PanelTyped DEF UInv
  <2>2. Held'
    BY Zenon, <2>1, StoreKeeps, HeldLasts DEF UInv, store
  <2> QED BY <2>1, <2>2, Zenon DEF UInv, Restored, store, host
<1>2. CASE (\E c \in Call : LoseAnswer(c)) \/ PanelCrash \/ AgentCrash \/ Expire
  <2>1. TInv' /\ UNCHANGED <<stage, created, host>> /\ (agent' = Idle \/ agent' = agent)
    BY Zenon, <1>2, WorldTyped DEF UInv
  <2>2. Held'
    BY Zenon, <2>1, StoreKeeps, HeldLasts DEF UInv
  <2>3. CASE agent' = Idle
    BY Zenon, <2>1, <2>2, <2>3 DEF UInv, Restored, Idle
  <2>4. CASE agent' = agent
    BY <2>1, <2>2, <2>4, Zenon DEF UInv, Restored, host
  <2> QED BY Zenon, <2>1, <2>3, <2>4
<1>3. CASE UNCHANGED vars
  <2>1. UNCHANGED <<panel, transport, store, host>> /\ UNCHANGED <<stage, agent, faults, file, policy, rules, unlisted>>
    BY <1>3, Zenon DEF vars, panel, transport, store, host
  <2>2. TInv'
    BY <2>1, TypedFrame, Zenon DEF UInv, TInv
  <2>3. Held'
    BY Zenon, <2>1, StoreKeeps, HeldLasts DEF UInv
  <2> QED BY <2>1, <2>2, <2>3, Zenon DEF UInv, Restored
<1>4. CASE AgentStep
  BY <1>4, StagingUndoes, ApplyUndoes, RollbackUndoes, Zenon DEF AgentStep
<1> QED BY <1>1, <1>2, <1>3, <1>4, ServeUndoes, RecoverUndoes, Zenon DEF FNext

\* When every stage is settled, neither the managed file nor the kernel holds a
\* candidate that was never confirmed, except one that a later stage found in
\* place, one in a table that a failing nft list hid, and rules over which restore
\* loaded an earlier file (stageRendered, ValidateAndApplyNftables, rollback and
\* RecoverDue).
THEOREM UnconfirmedIsAlwaysUndone == FSpec => []UnconfirmedIsUndone
<1>1. VInv /\ UInv /\ [FNext]_vars => UInv'
  BY Zenon, UndoneStep DEF VInv
<1>2. UInv => UnconfirmedIsUndone
  <2> SUFFICES ASSUME UInv, Quiet
               PROVE  /\ Approved(file) \/ Snapshotted(file)
                      /\ Approved(policy) \/ Snapshotted(policy) \/ unlisted
                      /\ \A c \in rules :
                            Approved(c) \/ Snapshotted(c) \/ unlisted \/ stage[c].prev # "none"
    BY Zenon DEF UnconfirmedIsUndone
  <2>1. \A o \in Op : Status(o) \in Holding => Status(o) = "confirmed"
    BY Zenon DEF Quiet, Settled, Holding
  <2> QED BY <2>1, Zenon DEF UInv, Held, Approved
<1> QED BY InitIsTrue, TrueStep, UndoneInit, <1>1, <1>2, PTL DEF FSpec

\* Whatever fails, the panel's rows, the calls, the agent's records and its host
\* keep their types, and there are no more records than operations.
THEOREM FirewallIsTyped == IsFiniteSet(Op) => (FSpec => []FTypeOK)
<1> SUFFICES ASSUME IsFiniteSet(Op) PROVE FSpec => []FTypeOK
  BY Zenon
<1>1. VInv /\ UInv /\ [FNext]_vars => UInv'
  BY Zenon, UndoneStep DEF VInv
<1>2. UInv => FTypeOK
  <2> SUFFICES ASSUME UInv PROVE FTypeOK
    BY Zenon
  <2>1. /\ created \in Seq(Op) /\ Len(created) \in Nat
        /\ \A i \in 1..Len(created) : created[i] \in Op
        /\ \A i, j \in 1..Len(created) : created[i] = created[j] => i = j
    BY DEF UInv, TInv, StoreOK
  <2>2. created \in Injection(1..Len(created), Op)
    <3>1. created \in [1..Len(created) -> Op] /\ DOMAIN created = 1..Len(created)
      BY <2>1
    <3> QED BY <2>1, <3>1, Zenon DEF Injection, IsInjective
  <2>3. Cardinality(1..Len(created)) <= Cardinality(Op)
    BY Zenon, <2>2, FS_Injection
  <2>4. Cardinality(1..Len(created)) = Len(created)
    <3>1. PICK n \in Nat : n = Len(created)
      BY Zenon, <2>1
    <3>2. Cardinality(1..n) = IF 1 > n THEN 0 ELSE n - 1 + 1
      <4>1. 1 \in Int /\ n \in Int
        OBVIOUS
      <4> QED BY ONLY <4>1, FS_Interval, Zenon
    <3>3. Cardinality(1..n) = n
      BY <3>2
    <3> QED BY Zenon, <3>1, <3>3
  <2>5. Len(created) <= Cardinality(Op)
    BY Zenon, <2>3, <2>4
  <2> QED BY <2>5, Zenon DEF UInv, TInv, PanelOK, CallsOK, StoreOK, HostOK, FTypeOK
<1> QED BY InitIsTrue, TrueStep, UndoneInit, <1>1, <1>2, PTL DEF FSpec
=============================================================================
