---------------------------- MODULE AgentRunsProofs ----------------------------
(***************************************************************************)
(* For every number of requests, sessions, operations and handlers: a source *)
(* is organized by one run at a time, and a run that succeeds answers with   *)
(* what its own session settled.  The second rests on the rows: the subject  *)
(* of an operation and that of a recorded item never change, a completed     *)
(* operation never changes at all, and a completion that has been checked    *)
(* names only items that exist.                                             *)
(***************************************************************************)
EXTENDS AgentRuns, FiniteSetTheorems, TLAPS

\* A row of the operations.  A cancellation raises the revision, which keeps it
\* from the later commits of those who do not know of it.
RowOK(w) ==
  /\ w.state \in {"absent", "queued", "running", "succeeded"}
  /\ w.state = "absent" => w.revision = 0 /\ ~w.cancelled
  /\ w.state = "queued" => w.revision = (IF w.cancelled THEN 2 ELSE 1)
  /\ w.state = "running" => w.revision = (IF w.cancelled THEN 3 ELSE 2)
  /\ w.state = "succeeded" => w.revision = 3
  /\ w.state # "absent" => w.subject \in Subjects

RowsInv == \A o \in Operations : RowOK(operation[o])

RunOK(row) ==
  /\ row.phase # "idle" => row.subject \in Subjects
  /\ row.phase = "checked" => row.subject \in Searches
  /\ row.outcome = "succeeded" => row.phase = "answered"

RunInv == \A r \in Requests : RunOK(run[r])

\* What is recorded belongs to an operation, and has its subject.
ItemInv ==
  \A i \in Items : item[i] # NoItem =>
    /\ item[i].op \in Operations
    /\ operation[item[i].op].state # "absent"
    /\ item[i].subject = operation[item[i].op].subject

\* Items that have the subject of an operation.
Match(o, results) == \A i \in results : item[i].subject = operation[o].subject

\* A request of a tool, as its handler.
CallOK(c) ==
  /\ c.waits => c.step # "free"
  /\ c.step # "free" => c.run \in Requests /\ run[c.run].phase # "idle"
  /\ c.step # "free" /\ c.tool # "start" => c.op \in Operations
  /\ c.step = "admitted" => c.tool = "start" /\ c.op \in Operations
  /\ c.step = "answered" /\ c.tool = "offer" => c.item \in Items
  /\ c.step = "checked" => c.op \in Operations /\ operation[c.op].state # "absent"
  /\ c.step = "checked" /\ c.tool = "complete" => Match(c.op, c.results)

CallInv == \A h \in Handlers : CallOK(call[h])

\* A completed operation has results of its own subject.
ResultsInv ==
  \A o \in Operations : operation[o].state = "succeeded" => Match(o, operation[o].results)

\* A source is marked when a run organizes it, and by no other.
MarkInv ==
  /\ \A s \in Sources : s \in inFlight <=> \E r \in Requests : Active(r) /\ run[r].subject = s
  /\ \A q, r \in Requests : Active(q) /\ Active(r) /\ Organizes(r)
                              /\ run[q].subject = run[r].subject => q = r

IInv ==
  /\ TypeOK /\ RowsInv /\ RunInv /\ ItemInv
  /\ CallInv /\ ResultsInv /\ MarkInv /\ AnswerIsSettled

-------------------------------------------------------------------------------
LEMMA Typed ==
  ASSUME IInv
  PROVE  /\ run \in [Requests -> Runs] /\ agent \in [Requests -> Agents]
         /\ call \in [Handlers -> Calls] /\ operation \in [Operations -> Rows]
         /\ inFlight \subseteq Subjects
         /\ \A r \in Requests : RunOK(run[r])
         /\ \A o \in Operations : RowOK(operation[o])
         /\ \A h \in Handlers : CallOK(call[h])
BY DEF IInv, TypeOK, RunInv, RowsInv, CallInv

LEMMA NoRunTyped == NoRun \in Runs
BY DEF NoRun, Runs

\* A session that has settled what its run answers with.
Settles(r, row) ==
  \E o \in Operations :
    /\ operation[o].session = r /\ operation[o].state = "succeeded"
    /\ operation[o].subject = row.subject /\ operation[o].results = row.results

\* What a step does to a run and the marks.
RunWritten(r, row) ==
  /\ row \in Runs /\ RunOK(row) /\ row.phase # "idle" /\ run[r].phase # "answered"
  /\ run[r].phase # "idle" => row.subject = run[r].subject
  /\ run' = [run EXCEPT ![r] = row]
  /\ row.outcome = "succeeded" => Settles(r, row) /\ UNCHANGED <<operation, item>>
  /\ \/ /\ run[r].phase = "idle" /\ row.phase \in {"answered", "checked"}
        /\ inFlight' = inFlight
     \/ /\ run[r].phase = "idle" /\ row.phase = "mounting"
        /\ row.subject \in Sources \ inFlight /\ inFlight' = inFlight \cup {row.subject}
     \/ /\ run[r].phase = "checked" /\ row.phase = "mounting"
        /\ inFlight' = inFlight \cup {row.subject}
     \/ Active(r) /\ row.phase \in {"turn", "finding"} /\ inFlight' = inFlight
     \/ Active(r) /\ row.phase = "answered" /\ inFlight' = inFlight \ {row.subject}

LEMMA Entered ==
  ASSUME IInv, NEW r \in Requests, NEW s \in Subjects,
         ReceiveOrganization(r, s) \/ ReceiveDiscovery(r, s)
  PROVE  \E row : RunWritten(r, row)
<1>1. run \in [Requests -> Runs] /\ run[r] \in Runs /\ RunOK(run[r]) /\ run[r].phase = "idle"
  BY Typed DEF ReceiveOrganization, ReceiveDiscovery
<1>2. PICK old \in Runs : old = run[r]
  BY <1>1
<1> DEFINE refused == [old EXCEPT !.subject = s, !.phase = "answered", !.outcome = "failed"]
           entered(phase) == [old EXCEPT !.subject = s, !.phase = phase]
<1>3. /\ refused \in Runs /\ refused.phase = "answered" /\ refused.outcome = "failed"
      /\ refused.subject = s
  BY DEF Runs
<1>4. ASSUME NEW phase \in {"checked", "mounting"}
      PROVE  /\ entered(phase) \in Runs /\ entered(phase).phase = phase
             /\ entered(phase).outcome # "succeeded" /\ entered(phase).subject = s
  BY <1>1, <1>2 DEF Runs, RunOK
<1>5. /\ Refuse(r, s) => run' = [run EXCEPT ![r] = refused]
      /\ \A phase : Enter(r, s, phase) => run' = [run EXCEPT ![r] = entered(phase)]
  BY <1>1, <1>2 DEF Refuse, Enter
<1> HIDE DEF refused, entered
<1>6. CASE Refuse(r, s) /\ inFlight' = inFlight
  <2>1. RunWritten(r, refused)
    BY <1>1, <1>3, <1>5, <1>6 DEF RunWritten, RunOK
  <2>2. QED
    BY <2>1
<1>7. CASE ReceiveOrganization(r, s) /\ ~(Refuse(r, s) /\ inFlight' = inFlight)
  <2>1. s \in Sources \ inFlight /\ inFlight' = inFlight \cup {s} /\ Enter(r, s, "mounting")
    BY <1>7 DEF ReceiveOrganization
  <2>2. RunWritten(r, entered("mounting"))
    BY <1>1, <1>4, <1>5, <2>1 DEF RunWritten, RunOK, Subjects
  <2>3. QED
    BY <2>2
<1>8. CASE ReceiveDiscovery(r, s) /\ ~(Refuse(r, s) /\ inFlight' = inFlight)
  <2>1. s \in Searches /\ inFlight' = inFlight /\ Enter(r, s, "checked")
    BY <1>8 DEF ReceiveDiscovery
  <2>2. RunWritten(r, entered("checked"))
    BY <1>1, <1>4, <1>5, <2>1 DEF RunWritten, RunOK, Subjects
  <2>3. QED
    BY <2>2
<1>9. QED
  BY <1>6, <1>7, <1>8

\* A run that goes on, or that begins to drive its session.
Continues(r, row) ==
  /\ row \in Runs /\ row.subject = run[r].subject /\ row.outcome = run[r].outcome
  /\ run' = [run EXCEPT ![r] = row]

LEMMA GoneOn ==
  ASSUME IInv, NEW r \in Requests, NEW row, Continues(r, row),
         \/ /\ Active(r) /\ row.phase \in {"turn", "finding"} /\ inFlight' = inFlight
         \/ /\ run[r].phase = "checked" /\ row.phase = "mounting"
            /\ inFlight' = inFlight \cup {run[r].subject}
  PROVE  RunWritten(r, row)
<1>1. run \in [Requests -> Runs] /\ run[r] \in Runs /\ RunOK(run[r])
      /\ run[r].phase \notin {"idle", "answered"}
  BY Typed DEF Active
<1>4. row.outcome # "succeeded" /\ RunOK(row)
  BY <1>1 DEF RunOK, Continues
<1>5. QED
  BY <1>1, <1>4 DEF RunWritten, Continues

LEMMA Answered ==
  ASSUME IInv, NEW r \in Requests, Active(r), NEW outcome \in {"failed", "succeeded"},
         NEW results \in SUBSET Items, Answer(r, outcome, results),
         outcome = "succeeded" =>
           /\ UNCHANGED <<operation, item>>
           /\ \E o \in Operations : SettledBy(r, o) /\ operation[o].results = results
  PROVE  \E row : RunWritten(r, row)
<1>1. run \in [Requests -> Runs] /\ run[r] \in Runs /\ RunOK(run[r])
      /\ run[r].phase \notin {"idle", "answered"}
  BY Typed DEF Active
<1>2. run[r].subject \in Subjects
  BY <1>1 DEF RunOK
<1>3. PICK s \in Subjects : s = run[r].subject
  BY <1>2
<1> DEFINE row == [NoRun EXCEPT !.phase = "answered", !.subject = s, !.outcome = outcome,
                                !.results = results]
<1>4. PICK new \in Runs : new = NoRun
  BY NoRunTyped
<1>5. row = [new EXCEPT !.phase = "answered", !.subject = s, !.outcome = outcome,
                        !.results = results]
  BY <1>4
<1>6. /\ row \in Runs /\ row.phase = "answered" /\ row.subject = s
      /\ row.outcome = outcome /\ row.results = results
  <2> HIDE DEF row
  <2>1. QED
    BY <1>5 DEF Runs
<1>7. run' = [run EXCEPT ![r] = row] /\ inFlight' = inFlight \ {s}
  BY <1>3 DEF Answer
<1> HIDE DEF row
<1>8. row.outcome = "succeeded" => Settles(r, row) /\ UNCHANGED <<operation, item>>
  BY <1>3, <1>6 DEF Settles, SettledBy
<1>9. RunWritten(r, row)
  BY <1>1, <1>3, <1>6, <1>7, <1>8 DEF RunWritten, RunOK
<1>10. QED
  BY <1>9

\* The steps of a runner that go on with the run.
LEMMA Drives ==
  ASSUME IInv, NEW r \in Requests,
         \/ MarkSearch(r) \/ RunTimesOut(r) \/ BrowserLeaves(r) \/ RecoveryTimesOut(r)
         \/ Active(r) /\ Open(r)
         \/ Active(r) /\ NextTurn(r, 2) /\ run[r].phase = "turn"
         \/ Active(r) /\ NextTurn(r, 3) /\ run[r].phase = "turn"
         \/ /\ Active(r) /\ run' = [run EXCEPT ![r].phase = "finding"]
            /\ inFlight' = inFlight
  PROVE  \E row : RunWritten(r, row)
<1>1. run \in [Requests -> Runs] /\ run[r] \in Runs
  BY Typed
<1>2. PICK old \in Runs : old = run[r]
  BY <1>1
<1>3. 1 \in 0..3 /\ 2 \in 0..3 /\ 3 \in 0..3
  OBVIOUS
<1>4. CASE MarkSearch(r)
  <2>1. /\ run' = [run EXCEPT ![r] = [old EXCEPT !.phase = "mounting"]]
        /\ run[r].phase = "checked" /\ inFlight' = inFlight \cup {run[r].subject}
    BY <1>1, <1>2, <1>4 DEF MarkSearch
  <2> DEFINE row == [old EXCEPT !.phase = "mounting"]
  <2>2. row \in Runs /\ row.phase = "mounting" /\ row.subject = old.subject
        /\ row.outcome = old.outcome
    BY <1>3 DEF Runs
  <2>3. Continues(r, row)
    BY <1>2, <2>1, <2>2 DEF Continues
  <2>4. QED
    BY <2>1, <2>2, <2>3, GoneOn
<1>5. CASE RunTimesOut(r)
  <2>1. /\ run' = [run EXCEPT ![r] = [old EXCEPT !.timedOut = TRUE, !.stop = TRUE]]
        /\ old.phase = "turn" /\ Active(r) /\ inFlight' = inFlight
    BY <1>1, <1>2, <1>5 DEF RunTimesOut, Active
  <2> DEFINE row == [old EXCEPT !.timedOut = TRUE, !.stop = TRUE]
  <2>2. row \in Runs /\ row.phase = "turn" /\ row.subject = old.subject
        /\ row.outcome = old.outcome
    BY <1>3, <2>1 DEF Runs
  <2>3. Continues(r, row)
    BY <1>2, <2>1, <2>2 DEF Continues
  <2>4. QED
    BY <2>1, <2>2, <2>3, GoneOn
<1>6. CASE BrowserLeaves(r)
  <2>1. /\ run' = [run EXCEPT ![r] = [old EXCEPT !.left = TRUE, !.stop = TRUE]]
        /\ old.phase = "turn" /\ Active(r) /\ inFlight' = inFlight
    BY <1>1, <1>2, <1>6 DEF BrowserLeaves, Active
  <2> DEFINE row == [old EXCEPT !.left = TRUE, !.stop = TRUE]
  <2>2. row \in Runs /\ row.phase = "turn" /\ row.subject = old.subject
        /\ row.outcome = old.outcome
    BY <1>3, <2>1 DEF Runs
  <2>3. Continues(r, row)
    BY <1>2, <2>1, <2>2 DEF Continues
  <2>4. QED
    BY <2>1, <2>2, <2>3, GoneOn
<1>7. CASE RecoveryTimesOut(r)
  <2>1. /\ run' = [run EXCEPT ![r] = [old EXCEPT !.stop = TRUE]]
        /\ old.phase = "turn" /\ Active(r) /\ inFlight' = inFlight
    BY <1>1, <1>2, <1>7 DEF RecoveryTimesOut, Active
  <2> DEFINE row == [old EXCEPT !.stop = TRUE]
  <2>2. row \in Runs /\ row.phase = "turn" /\ row.subject = old.subject
        /\ row.outcome = old.outcome
    BY <1>3, <2>1 DEF Runs
  <2>3. Continues(r, row)
    BY <1>2, <2>1, <2>2 DEF Continues
  <2>4. QED
    BY <2>1, <2>2, <2>3, GoneOn
<1>8. CASE Active(r) /\ Open(r)
  <2>1. /\ run' = [run EXCEPT ![r] = [old EXCEPT !.phase = "turn", !.attempt = 1]]
        /\ inFlight' = inFlight
    BY <1>1, <1>2, <1>8 DEF Open
  <2> DEFINE row == [old EXCEPT !.phase = "turn", !.attempt = 1]
  <2>2. row \in Runs /\ row.phase = "turn" /\ row.subject = old.subject
        /\ row.outcome = old.outcome
    BY <1>3 DEF Runs
  <2>3. Continues(r, row)
    BY <1>2, <2>1, <2>2 DEF Continues
  <2>4. QED
    BY <1>8, <2>1, <2>2, <2>3, GoneOn
<1>9. ASSUME NEW n \in {2, 3}, Active(r), NextTurn(r, n), run[r].phase = "turn"
      PROVE  \E row : RunWritten(r, row)
  <2>1. /\ run' = [run EXCEPT ![r] = [old EXCEPT !.attempt = n, !.stop = FALSE]]
        /\ old.phase = "turn" /\ inFlight' = inFlight
    BY <1>1, <1>2, <1>9 DEF NextTurn
  <2>n. n \in 0..3
    BY <1>9
  <2> DEFINE row == [old EXCEPT !.attempt = n, !.stop = FALSE]
  <2>2. row \in Runs /\ row.phase = "turn" /\ row.subject = old.subject
        /\ row.outcome = old.outcome
    BY <2>n, <2>1 DEF Runs
  <2>3. Continues(r, row)
    BY <1>2, <2>1, <2>2 DEF Continues
  <2>4. QED
    BY <1>9, <2>1, <2>2, <2>3, GoneOn
<1>10. CASE /\ Active(r) /\ run' = [run EXCEPT ![r].phase = "finding"]
            /\ inFlight' = inFlight
  <2>1. run' = [run EXCEPT ![r] = [old EXCEPT !.phase = "finding"]]
    BY <1>1, <1>2, <1>10
  <2> DEFINE row == [old EXCEPT !.phase = "finding"]
  <2>2. row \in Runs /\ row.phase = "finding" /\ row.subject = old.subject
        /\ row.outcome = old.outcome
    BY <1>3 DEF Runs
  <2>3. Continues(r, row)
    BY <1>2, <2>1, <2>2 DEF Continues
  <2>4. QED
    BY <1>10, <2>1, <2>2, <2>3, GoneOn
<1>11. QED
  BY <1>4, <1>5, <1>6, <1>7, <1>8, <1>9, <1>10

LEMMA RunMoves ==
  ASSUME IInv, [Next]_vars
  PROVE  UNCHANGED <<run, inFlight>> \/ \E r \in Requests : \E row : RunWritten(r, row)
<1>1. CASE UNCHANGED vars
  BY <1>1 DEF vars
<1>2. ASSUME NEW r \in Requests, NEW s \in Subjects,
             ReceiveOrganization(r, s) \/ ReceiveDiscovery(r, s)
      PROVE  \E row : RunWritten(r, row)
  BY <1>2, Entered
<1>f. ASSUME NEW r \in Requests, Active(r), Fail(r)
      PROVE  \E row : RunWritten(r, row)
  <2>1. Answer(r, "failed", {}) /\ {} \in SUBSET Items
    BY <1>f DEF Fail
  <2>2. QED
    BY <1>f, <2>1, Answered
<1>3. ASSUME NEW r \in Requests, Runner(r) \/ Timers(r) \/ BrowserLeaves(r)
      PROVE  \E row : RunWritten(r, row)
  <2>1. CASE MarkSearch(r) \/ BrowserLeaves(r) \/ Timers(r)
    BY <2>1, Drives DEF Timers
  <2>2. CASE MountDiscovery(r) \/ MountOrganization(r)
    <3>1. Active(r) /\ (Open(r) \/ Fail(r))
      BY <2>2 DEF MountDiscovery, MountOrganization, Active
    <3>2. QED
      BY <3>1, <1>f, Drives
  <2>3. CASE TurnEnds(r)
    <3>1. /\ Active(r) /\ run[r].phase = "turn"
          /\ \/ NextTurn(r, 2) \/ NextTurn(r, 3) \/ Fail(r)
             \/ run' = [run EXCEPT ![r].phase = "finding"] /\ inFlight' = inFlight
      BY <2>3 DEF TurnEnds, Active
    <3>2. QED
      BY <3>1, <1>f, Drives
  <2>4. CASE Find(r)
    <3>1. Active(r) /\ UNCHANGED <<operation, item>>
      BY <2>4 DEF Find, Active, tables
    <3>2. CASE \E o \in Operations : SettledBy(r, o) /\ Answer(r, "succeeded", operation[o].results)
      <4>1. PICK o \in Operations : SettledBy(r, o) /\ Answer(r, "succeeded", operation[o].results)
        BY <3>2
      <4>2. operation[o] \in Rows
        BY Typed
      <4>3. operation[o].results \in SUBSET Items
        BY <4>2 DEF Rows
      <4>4. PICK results \in SUBSET Items : results = operation[o].results
        BY <4>3
      <4>5. Answer(r, "succeeded", results)
        BY <4>1, <4>4 DEF Answer
      <4>6. QED
        BY <3>1, <4>1, <4>4, <4>5, Answered
    <3>3. QED
      BY <2>4, <3>1, <3>2, <1>f DEF Find
  <2>5. QED
    BY <1>3, <2>1, <2>2, <2>3, <2>4 DEF Runner
<1>4. ASSUME NEW r \in Requests, Tools(r)
      PROVE  UNCHANGED <<run, inFlight>>
  BY <1>4 DEF Tools, Search, StartDiscovery, RecordJob, CompleteDiscovery, StartOrganization,
              ProposeFact, CompleteOrganization, browser
<1>5. ASSUME NEW h \in Handlers, Deliver(h) \/ GiveUp(h) \/ NeverArrives(h) \/ Serve(h)
      PROVE  UNCHANGED <<run, inFlight>>
  BY <1>5 DEF Deliver, GiveUp, NeverArrives, Serve, AdmitOperation, StartOperation, CheckOffer,
              CommitOffer, CheckCompletion, CommitCompletion, browser
<1>6. ASSUME NEW o \in Operations, UserCancels(o)
      PROVE  UNCHANGED <<run, inFlight>>
  BY <1>6 DEF UserCancels, browser
<1>7. QED
  BY <1>1, <1>2, <1>3, <1>4, <1>5, <1>6 DEF Next

-------------------------------------------------------------------------------
\* What a step does to the tables: an operation that is not completed, or a new
\* item of an operation.
OperationWritten(o, row) ==
  /\ row \in Rows /\ RowOK(row) /\ row.state # "absent"
  /\ operation[o].state # "succeeded"
  /\ operation[o].state # "absent" => row.subject = operation[o].subject
  /\ operation' = [operation EXCEPT ![o] = row]
  /\ row.state = "succeeded" => \A i \in row.results : item[i].subject = row.subject
  /\ item' = item

ItemWritten(i, o) ==
  /\ item[i] = NoItem /\ operation[o].state # "absent"
  /\ item' = [item EXCEPT ![i] = [op |-> o, subject |-> operation[o].subject]]
  /\ operation' = operation

LEMMA NoRowTyped == NoRow \in Rows /\ NoRow.subject = Nobody /\ NoRow.cancelled = FALSE
BY DEF NoRow, Rows

LEMMA Revisions == 1 \in 0..4 /\ 2 \in 0..4 /\ 3 \in 0..4
OBVIOUS

LEMMA Admitted ==
  ASSUME IInv, NEW h \in Handlers, AdmitOperation(h)
  PROVE  \E o \in Operations : \E row : OperationWritten(o, row)
<1>1. call[h] \in Calls /\ CallOK(call[h]) /\ call[h].step = "sent"
  BY Typed DEF AdmitOperation
<1>2. call[h].run \in Requests /\ run[call[h].run].phase # "idle"
  BY <1>1 DEF CallOK
<1>3. run[call[h].run].subject \in Subjects
  BY <1>2, Typed DEF RunOK
<1>4. PICK q \in Requests, s \in Subjects : q = call[h].run /\ s = run[call[h].run].subject
  BY <1>2, <1>3
<1> DEFINE o == CHOOSE o \in Operations : operation[o].state = "absent"
<1>5. o \in Operations /\ operation[o].state = "absent"
  BY DEF AdmitOperation
<1>6. PICK none \in Rows : none = NoRow /\ none.cancelled = FALSE
  BY NoRowTyped
<1> DEFINE row == [none EXCEPT !.state = "queued", !.revision = 1, !.session = q, !.subject = s]
<1>7. operation' = [operation EXCEPT ![o] = row] /\ item' = item
  BY <1>4, <1>6 DEF AdmitOperation
<1>8. row \in Rows /\ row.state = "queued" /\ row.revision = 1 /\ row.subject = s
      /\ row.cancelled = FALSE
  BY <1>6, Revisions DEF Rows
<1> HIDE DEF o, row
<1>9. RowOK(row)
  BY <1>8 DEF RowOK
<1>10. OperationWritten(o, row)
  BY <1>5, <1>7, <1>8, <1>9 DEF OperationWritten
<1>11. QED
  BY <1>5, <1>10

LEMMA Started ==
  ASSUME IInv, NEW h \in Handlers, StartOperation(h)
  PROVE  UNCHANGED <<operation, item>> \/ \E o \in Operations : \E row : OperationWritten(o, row)
<1> DEFINE o == call[h].op
<1>1. SUFFICES ASSUME operation[o].revision = 1,
                      operation' = [operation EXCEPT ![o].state = "running",
                                                     ![o].revision = @ + 1],
                      item' = item
               PROVE  \E row : OperationWritten(o, row) /\ o \in Operations
  BY DEF StartOperation
<1>2. o \in Operations
  BY Typed DEF StartOperation, CallOK
<1>3. PICK old \in Rows : old = operation[o]
  BY <1>2, Typed
<1>4. RowOK(old) /\ old.revision = 1
  BY <1>1, <1>2, <1>3, Typed
<1>5. old.state = "queued" /\ ~old.cancelled /\ old.subject \in Subjects
  BY <1>4 DEF RowOK
<1> DEFINE row == [old EXCEPT !.state = "running", !.revision = 2]
<1>6. operation' = [operation EXCEPT ![o] = row]
  <2>1. operation' = [operation EXCEPT ![o] = [old EXCEPT !.state = "running",
                                                          !.revision = old.revision + 1]]
    BY <1>1, <1>2, <1>3, Typed
  <2>2. old.revision + 1 = 2
    BY <1>4
  <2>3. QED
    BY <2>1, <2>2
<1>7. row \in Rows /\ row.state = "running" /\ row.revision = 2 /\ row.subject = old.subject
      /\ row.cancelled = old.cancelled
  BY Revisions DEF Rows
<1> HIDE DEF row, o
<1>8. RowOK(row)
  BY <1>5, <1>7 DEF RowOK
<1>9. OperationWritten(o, row)
  BY <1>1, <1>3, <1>5, <1>6, <1>7, <1>8 DEF OperationWritten
<1>10. QED
  BY <1>2, <1>9

LEMMA Completed ==
  ASSUME IInv, NEW h \in Handlers, CommitCompletion(h)
  PROVE  UNCHANGED <<operation, item>> \/ \E o \in Operations : \E row : OperationWritten(o, row)
<1> DEFINE o == call[h].op
           results == call[h].results
<1>1. SUFFICES ASSUME operation[o].revision = StartRevision,
                      operation' = [operation EXCEPT ![o].state = "succeeded",
                                                     ![o].revision = @ + 1,
                                                     ![o].results = results],
                      item' = item
               PROVE  \E row : OperationWritten(o, row) /\ o \in Operations
  BY DEF CommitCompletion
<1>2. /\ o \in Operations /\ results \in SUBSET Items
      /\ operation[o].state # "absent" /\ Match(o, results)
  <2>1. call[h] \in Calls /\ CallOK(call[h])
    BY Typed
  <2>2. call[h].step = "checked" /\ call[h].tool = "complete"
    BY DEF CommitCompletion
  <2>3. QED
    BY <2>1, <2>2 DEF CallOK, Calls
<1>3. PICK old \in Rows : old = operation[o]
  BY <1>2, Typed
<1>r. PICK found \in SUBSET Items : found = results
  BY <1>2
<1>4. RowOK(old) /\ old.revision = 2
  BY <1>1, <1>2, <1>3, Typed DEF StartRevision
<1>5. old.state # "succeeded" /\ old.state # "absent" /\ old.subject \in Subjects
  BY <1>2, <1>3, <1>4 DEF RowOK
<1> DEFINE row == [old EXCEPT !.state = "succeeded", !.revision = 3, !.results = found]
<1>6. operation' = [operation EXCEPT ![o] = row]
  <2>1. operation' = [operation EXCEPT ![o] = [old EXCEPT !.state = "succeeded",
                                                          !.revision = old.revision + 1,
                                                          !.results = found]]
    BY <1>1, <1>2, <1>3, <1>r, Typed
  <2>2. old.revision + 1 = 3
    BY <1>4
  <2>3. QED
    BY <2>1, <2>2
<1>7. row \in Rows /\ row.state = "succeeded" /\ row.revision = 3 /\ row.subject = old.subject
      /\ row.results = found
  BY Revisions DEF Rows, Terminal
<1> HIDE DEF row, o, results
<1>8. RowOK(row)
  BY <1>5, <1>7 DEF RowOK
<1>9. \A i \in row.results : item[i].subject = row.subject
  BY <1>2, <1>3, <1>r, <1>7 DEF Match
<1>10. OperationWritten(o, row)
  BY <1>1, <1>3, <1>5, <1>6, <1>7, <1>8, <1>9 DEF OperationWritten
<1>11. QED
  BY <1>2, <1>10

LEMMA Cancelled ==
  ASSUME IInv, NEW o \in Operations, UserCancels(o)
  PROVE  \E row : OperationWritten(o, row)
<1>1. PICK old \in Rows : old = operation[o]
  BY Typed
<1>2. RowOK(old) /\ old.state \in {"queued", "running"} /\ ~old.cancelled
  BY <1>1, Typed DEF UserCancels
<1>3. /\ old.subject \in Subjects /\ old.revision \in {1, 2}
      /\ old.revision = IF old.state = "queued" THEN 1 ELSE 2
  BY <1>2 DEF RowOK
<1> DEFINE n == old.revision + 1
           row == [old EXCEPT !.cancelled = TRUE, !.revision = n]
<1>4. operation' = [operation EXCEPT ![o] = row] /\ item' = item
  BY <1>1, Typed DEF UserCancels
<1>5. n \in 0..4 /\ n = IF old.state = "queued" THEN 2 ELSE 3
  BY <1>2, <1>3
<1> HIDE DEF n
<1>6. row \in Rows /\ row.state = old.state /\ row.revision = n /\ row.subject = old.subject
      /\ row.cancelled = TRUE
  BY <1>5 DEF Rows
<1> HIDE DEF row
<1>7. RowOK(row)
  BY <1>2, <1>3, <1>5, <1>6 DEF RowOK
<1>8. OperationWritten(o, row)
  BY <1>1, <1>2, <1>4, <1>6, <1>7 DEF OperationWritten
<1>9. QED
  BY <1>8

LEMMA Offered ==
  ASSUME IInv, NEW h \in Handlers, CommitOffer(h)
  PROVE  UNCHANGED <<operation, item>> \/ \E i \in Items, o \in Operations : ItemWritten(i, o)
<1>1. call[h] \in Calls /\ CallOK(call[h]) /\ call[h].step = "checked"
  BY Typed DEF CommitOffer
<1>2. /\ call[h].op \in Operations /\ operation[call[h].op].state # "absent"
      /\ call[h].item \in Items \cup {Nobody}
  BY <1>1 DEF CallOK, Calls
<1>3. SUFFICES ASSUME NEW i \in IF call[h].item = Nobody THEN Items ELSE {call[h].item},
                      item[i] = NoItem,
                      item' = [item EXCEPT ![i] = [op |-> call[h].op,
                                                   subject |-> operation[call[h].op].subject]],
                      operation' = operation
               PROVE  ItemWritten(i, call[h].op) /\ i \in Items
  BY <1>2 DEF CommitOffer
<1>4. i \in Items
  BY <1>2, <1>3
<1>5. QED
  BY <1>2, <1>3, <1>4 DEF ItemWritten

LEMMA TablesMove ==
  ASSUME IInv, [Next]_vars
  PROVE  \/ UNCHANGED <<operation, item>>
         \/ \E o \in Operations : \E row : OperationWritten(o, row)
         \/ \E i \in Items, o \in Operations : ItemWritten(i, o)
<1>1. CASE UNCHANGED vars
  BY <1>1 DEF vars, tables
<1>2. ASSUME NEW r \in Requests,
             \/ \E s \in Subjects : ReceiveOrganization(r, s) \/ ReceiveDiscovery(r, s)
             \/ Runner(r) \/ Timers(r) \/ BrowserLeaves(r)
      PROVE  UNCHANGED <<operation, item>>
  BY <1>2 DEF ReceiveOrganization, ReceiveDiscovery, Runner, Timers, BrowserLeaves, MarkSearch,
              MountDiscovery, MountOrganization, TurnEnds, Find, RunTimesOut, RecoveryTimesOut,
              tables
<1>3. ASSUME NEW r \in Requests, Tools(r)
      PROVE  UNCHANGED <<operation, item>>
  BY <1>3 DEF Tools, Search, StartDiscovery, RecordJob, CompleteDiscovery, StartOrganization,
              ProposeFact, CompleteOrganization, tables
<1>4. ASSUME NEW h \in Handlers,
             \/ Deliver(h) \/ GiveUp(h) \/ NeverArrives(h) \/ CheckOffer(h) \/ CheckCompletion(h)
      PROVE  UNCHANGED <<operation, item>>
  BY <1>4 DEF Deliver, GiveUp, NeverArrives, CheckOffer, CheckCompletion, tables
<1>5. QED
  BY <1>1, <1>2, <1>3, <1>4, Admitted, Started, Completed, Cancelled, Offered DEF Next, Serve

\* What has been written stays.
LEMMA Stays ==
  ASSUME IInv, [Next]_vars
  PROVE  /\ run' \in [Requests -> Runs] /\ RunInv'
         /\ \A r \in Requests : run[r].phase # "idle" => run'[r].phase # "idle"
         /\ operation' \in [Operations -> Rows] /\ RowsInv'
         /\ \A o \in Operations :
              /\ operation[o].state # "absent" =>
                   operation'[o].state # "absent" /\ operation'[o].subject = operation[o].subject
              /\ operation[o].state = "succeeded" => operation'[o] = operation[o]
         /\ item' \in [Items -> [op : Operations \cup {NoOperation},
                                 subject : Subjects \cup {Nobody}]]
         /\ \A i \in Items : item[i] # NoItem => item'[i] = item[i]
<1>t. /\ run \in [Requests -> Runs] /\ \A r \in Requests : RunOK(run[r])
      /\ operation \in [Operations -> Rows] /\ \A o \in Operations : RowOK(operation[o])
      /\ item \in [Items -> [op : Operations \cup {NoOperation}, subject : Subjects \cup {Nobody}]]
  BY Typed DEF IInv, TypeOK
<1>1. /\ run' \in [Requests -> Runs] /\ \A r \in Requests : RunOK(run'[r])
      /\ \A r \in Requests : run[r].phase # "idle" => run'[r].phase # "idle"
  <2>1. CASE run' = run
    BY <1>t, <2>1
  <2>2. CASE \E r \in Requests : \E row : RunWritten(r, row)
    <3>0. PICK r \in Requests : \E row : RunWritten(r, row)
      BY <2>2
    <3>1. PICK row : RunWritten(r, row)
      BY <3>0
    <3>2. row \in Runs /\ RunOK(row) /\ row.phase # "idle" /\ run' = [run EXCEPT ![r] = row]
      BY <3>1 DEF RunWritten
    <3>3. QED
      BY <1>t, <3>2
  <2>3. QED
    BY <2>1, <2>2, RunMoves
<1>2. /\ operation' \in [Operations -> Rows] /\ \A o \in Operations : RowOK(operation'[o])
      /\ \A o \in Operations :
           /\ operation[o].state # "absent" =>
                operation'[o].state # "absent" /\ operation'[o].subject = operation[o].subject
           /\ operation[o].state = "succeeded" => operation'[o] = operation[o]
  <2>1. CASE operation' = operation
    BY <1>t, <2>1
  <2>2. CASE \E o \in Operations : \E row : OperationWritten(o, row)
    <3>0. PICK o \in Operations : \E row : OperationWritten(o, row)
      BY <2>2
    <3>1. PICK row : OperationWritten(o, row)
      BY <3>0
    <3>2. /\ row \in Rows /\ RowOK(row) /\ row.state # "absent"
          /\ operation[o].state # "succeeded"
          /\ operation[o].state # "absent" => row.subject = operation[o].subject
          /\ operation' = [operation EXCEPT ![o] = row]
      BY <3>1 DEF OperationWritten
    <3>3. QED
      BY <1>t, <3>2
  <2>3. QED
    BY <2>1, <2>2, TablesMove DEF ItemWritten
<1>3. /\ item' \in [Items -> [op : Operations \cup {NoOperation}, subject : Subjects \cup {Nobody}]]
      /\ \A i \in Items : item[i] # NoItem => item'[i] = item[i]
  <2>1. CASE item' = item
    BY <1>t, <2>1
  <2>2. CASE \E i \in Items, o \in Operations : ItemWritten(i, o)
    <3>1. PICK i \in Items, o \in Operations : ItemWritten(i, o)
      BY <2>2
    <3>2. operation[o].subject \in Subjects \cup {Nobody}
      <4>1. operation[o] \in Rows
        BY <1>t
      <4>2. QED
        BY <4>1 DEF Rows
    <3>3. QED
      BY <1>t, <3>1, <3>2 DEF ItemWritten
  <2>3. QED
    BY <2>1, <2>2, TablesMove DEF OperationWritten
<1>4. RunInv' /\ RowsInv'
  <2>1. ASSUME NEW r \in Requests PROVE RunOK(run[r])'
    BY <1>1 DEF RunOK
  <2>2. ASSUME NEW o \in Operations PROVE RowOK(operation[o])'
    BY <1>2 DEF RowOK
  <2>3. QED
    BY <2>1, <2>2 DEF RunInv, RowsInv
<1>5. QED
  BY <1>1, <1>2, <1>3, <1>4

-------------------------------------------------------------------------------
\* What a handler has checked stays so, whatever the others do.
LEMMA CallKept ==
  ASSUME IInv, [Next]_vars, NEW c \in Calls, CallOK(c)
  PROVE  CallOK(c)'
<1>1. c.step # "free" => c.run \in Requests /\ run'[c.run].phase # "idle"
  BY Stays DEF CallOK
<1>2. ASSUME c.step = "checked"
      PROVE  /\ c.op \in Operations /\ operation[c.op].state # "absent"
             /\ operation'[c.op].state # "absent"
             /\ operation'[c.op].subject = operation[c.op].subject
             /\ operation[c.op].subject \in Subjects
  <2>1. c.op \in Operations /\ operation[c.op].state # "absent"
    BY <1>2 DEF CallOK
  <2>2. RowOK(operation[c.op])
    BY <2>1, Typed
  <2>3. QED
    BY <2>1, <2>2, Stays DEF RowOK
<1>3. ASSUME c.step = "checked", c.tool = "complete", NEW i \in c.results
      PROVE  item'[i].subject = operation'[c.op].subject
  <2>1. Match(c.op, c.results) /\ c.results \subseteq Items
    BY <1>3 DEF CallOK, Calls
  <2>2. i \in Items /\ item[i].subject = operation[c.op].subject
    BY <1>3, <2>1 DEF Match
  <2>3. item[i] # NoItem
    BY <1>2, <1>3, <2>2, ConstantsAssumption DEF NoItem
  <2>4. QED
    BY <1>2, <1>3, <2>2, <2>3, Stays
<1>4. QED
  BY <1>1, <1>2, <1>3 DEF CallOK, Match

CallWritten(h, c) == c \in Calls /\ CallOK(c) /\ call' = [call EXCEPT ![h] = c]

LEMMA NoCallOK == NoCall \in Calls /\ CallOK(NoCall)
BY DEF NoCall, Calls, CallOK

LEMMA Sent ==
  ASSUME IInv, NEW r \in Requests, run[r].phase # "idle", NEW tool \in {"start", "offer", "complete"},
         NEW o \in Operations \cup {NoOperation}, tool # "start" => o \in Operations,
         NEW i \in Items \cup {Nobody}, NEW results \in SUBSET Items,
         Send(r, tool, o, i, results)
  PROVE  \E h \in Handlers : \E c : CallWritten(h, c)
<1> DEFINE h == CHOOSE h \in Handlers : call[h].step = "free"
           c == [step |-> "sent", tool |-> tool, run |-> r, waits |-> TRUE,
                 op |-> o, item |-> i, results |-> results]
<1>1. h \in Handlers /\ call' = [call EXCEPT ![h] = c]
  BY DEF Send
<1>2. c \in Calls
  BY DEF Calls
<1>3. c.step = "sent" /\ c.tool = tool /\ c.run = r /\ c.op = o
  OBVIOUS
<1> HIDE DEF h, c
<1>4. CallOK(c)
  BY <1>3 DEF CallOK
<1>5. QED
  BY <1>1, <1>2, <1>4 DEF CallWritten

\* A session's agent sends what it has been told.
LEMMA ToolsSend ==
  ASSUME IInv, NEW r \in Requests, Tools(r)
  PROVE  call' = call \/ \E h \in Handlers : \E c : CallWritten(h, c)
<1>1. run[r].phase # "idle"
  BY DEF Tools, Search, StartDiscovery, RecordJob, CompleteDiscovery, StartOrganization,
         ProposeFact, CompleteOrganization, Working
<1>2. agent[r].listed \subseteq Items /\ \A o \in Operations : agent[r].told[o] \subseteq Items
  <2>1. agent[r] \in Agents
    BY Typed
  <2>2. QED
    BY <2>1 DEF Agents
<1>0. Nobody \in Items \cup {Nobody} /\ {} \in SUBSET Items
  OBVIOUS
<1>3. CASE Search(r)
  BY <1>3 DEF Search
<1>4. CASE StartDiscovery(r) \/ StartOrganization(r)
  <2>1. Send(r, "start", NoOperation, Nobody, {})
    BY <1>4 DEF StartDiscovery, StartOrganization
  <2>2. QED
    BY <1>0, <1>1, <2>1, Sent
<1>5. CASE RecordJob(r)
  <2>1. PICK o \in Operations, i \in Items : Send(r, "offer", o, i, {})
    BY <1>2, <1>5 DEF RecordJob
  <2>2. QED
    BY <1>0, <1>1, <2>1, Sent
<1>6. CASE ProposeFact(r)
  <2>1. PICK o \in Operations : Send(r, "offer", o, Nobody, {})
    BY <1>6 DEF ProposeFact
  <2>2. QED
    BY <1>0, <1>1, <2>1, Sent
<1>7. CASE CompleteDiscovery(r)
  <2>1. PICK o \in Operations : Send(r, "complete", o, Nobody, agent[r].told[o])
    BY <1>7 DEF CompleteDiscovery
  <2>2. PICK results \in SUBSET Items : results = agent[r].told[o]
    BY <1>2
  <2>3. Send(r, "complete", o, Nobody, results)
    BY <2>1, <2>2 DEF Send
  <2>4. QED
    BY <1>0, <1>1, <2>3, Sent
<1>8. CASE CompleteOrganization(r)
  <2>1. PICK o \in Operations, facts \in SUBSET UNION {agent[r].told[p] : p \in Operations} :
             Send(r, "complete", o, Nobody, facts)
    BY <1>8 DEF CompleteOrganization
  <2>2. facts \in SUBSET Items
    BY <1>2
  <2>3. QED
    BY <1>0, <1>1, <2>1, <2>2, Sent
<1>9. QED
  BY <1>3, <1>4, <1>5, <1>6, <1>7, <1>8 DEF Tools

\* The answer of a handler.
LEMMA Replied ==
  ASSUME NEW h \in Handlers, NEW c \in Calls, CallOK(c), c.step # "free",
         NEW step \in {"answered", "refused"}, c.op \in Operations,
         step = "answered" /\ c.tool = "offer" => c.item \in Items,
         Reply(h, c, step)
  PROVE  \E d : CallWritten(h, d)
<1>1. CASE ~c.waits
  BY <1>1, NoCallOK DEF Reply, CallWritten
<1>2. CASE c.waits
  <2> DEFINE d == [c EXCEPT !.step = step]
  <2>1. call' = [call EXCEPT ![h] = d]
    BY <1>2 DEF Reply
  <2>2. d \in Calls /\ d.step = step /\ d.run = c.run /\ d.op = c.op /\ d.item = c.item
                    /\ d.tool = c.tool
    BY DEF Calls
  <2> HIDE DEF d
  <2>3. CallOK(d)
    BY <2>2 DEF CallOK
  <2>4. QED
    BY <2>1, <2>2, <2>3 DEF CallWritten
<1>3. QED
  BY <1>1, <1>2

LEMMA Serves ==
  ASSUME IInv, NEW h \in Handlers, Serve(h)
  PROVE  \E c : CallWritten(h, c)
<1>1. call[h] \in Calls /\ CallOK(call[h]) /\ call \in [Handlers -> Calls]
  BY Typed
<1>2. PICK c \in Calls : c = call[h] /\ CallOK(c)
  BY <1>1
<1> DEFINE checked == [c EXCEPT !.step = "checked"]
<1>k. /\ checked \in Calls /\ checked.step = "checked" /\ checked.run = c.run
      /\ checked.tool = c.tool /\ checked.op = c.op /\ checked.results = c.results
  BY DEF Calls
<1>3. CASE AdmitOperation(h)
  <2>1. c.step = "sent" /\ c.tool = "start"
    BY <1>2, <1>3 DEF AdmitOperation
  <2>2. PICK o \in Operations : call' = [call EXCEPT ![h].step = "admitted", ![h].op = o]
    BY <1>3 DEF AdmitOperation
  <2> DEFINE d == [c EXCEPT !.step = "admitted", !.op = o]
  <2>3. call' = [call EXCEPT ![h] = d]
    BY <1>1, <1>2, <2>2
  <2>4. d \in Calls /\ d.step = "admitted" /\ d.tool = "start" /\ d.run = c.run /\ d.op = o
    BY <2>1 DEF Calls
  <2> HIDE DEF d
  <2>5. CallOK(d)
    BY <1>2, <2>1, <2>4 DEF CallOK
  <2>6. QED
    BY <2>3, <2>4, <2>5 DEF CallWritten
<1>4. CASE StartOperation(h)
  <2>1. c.step = "admitted" /\ \E step \in {"answered", "refused"} : Reply(h, c, step)
    BY <1>2, <1>4 DEF StartOperation
  <2>2. c.tool = "start" /\ c.op \in Operations
    BY <1>2, <2>1 DEF CallOK
  <2>3. QED
    BY <1>2, <2>1, <2>2, Replied
<1>5. CASE CheckOffer(h)
  <2>1. c.step = "sent" /\ c.tool = "offer"
    BY <1>2, <1>5 DEF CheckOffer
  <2>2. c.op \in Operations /\ c.run \in Requests /\ run[c.run].phase # "idle"
    BY <1>2, <2>1 DEF CallOK
  <2>3. \/ Reply(h, c, "refused")
        \/ /\ operation[c.op].state = "running"
           /\ call' = [call EXCEPT ![h] = checked]
    BY <1>1, <1>2, <1>5 DEF CheckOffer, AcceptsLead, AcceptsFact
  <2> HIDE DEF checked
  <2>4. CASE /\ operation[c.op].state = "running"
             /\ call' = [call EXCEPT ![h] = checked]
    <3>1. CallOK(checked)
      BY <1>k, <2>1, <2>2, <2>4 DEF CallOK
    <3>2. QED
      BY <1>k, <2>4, <3>1 DEF CallWritten
  <2>5. QED
    BY <1>2, <2>1, <2>2, <2>3, <2>4, Replied
<1>6. CASE CommitOffer(h)
  <2>1. c.step = "checked" /\ c.tool = "offer" /\ c.item \in Items \cup {Nobody}
    BY <1>2, <1>6 DEF CommitOffer, Calls
  <2>2. c.op \in Operations /\ c.run \in Requests /\ run[c.run].phase # "idle"
    BY <1>2, <2>1 DEF CallOK
  <2>3. \/ \E i \in Items : Reply(h, [c EXCEPT !.item = i], "answered")
        \/ Reply(h, c, "refused")
    BY <1>2, <1>6, <2>1 DEF CommitOffer
  <2>4. ASSUME NEW i \in Items, Reply(h, [c EXCEPT !.item = i], "answered")
        PROVE  \E d : CallWritten(h, d)
    <3> DEFINE d == [c EXCEPT !.item = i]
    <3>1. d \in Calls /\ d.item = i /\ d.step = c.step /\ d.tool = c.tool /\ d.op = c.op
                      /\ d.run = c.run /\ Reply(h, d, "answered")
      BY <2>4 DEF Calls
    <3> HIDE DEF d
    <3>2. CallOK(d)
      BY <1>2, <2>1, <3>1 DEF CallOK
    <3>3. QED
      BY <2>1, <2>2, <3>1, <3>2, Replied
  <2>5. QED
    BY <1>2, <2>1, <2>2, <2>3, <2>4, Replied
<1>7. CASE CheckCompletion(h)
  <2>1. c.step = "sent" /\ c.tool = "complete" /\ c.results \subseteq Items
    BY <1>2, <1>7 DEF CheckCompletion, Calls
  <2>2. c.op \in Operations /\ c.run \in Requests /\ run[c.run].phase # "idle"
    BY <1>2, <2>1 DEF CallOK
  <2>3. \/ Reply(h, c, "refused")
        \/ /\ operation[c.op].revision = 2 /\ \A i \in c.results : Belongs(c.op, i)
           /\ call' = [call EXCEPT ![h] = checked]
    BY <1>1, <1>2, <1>7 DEF CheckCompletion, StartRevision
  <2> HIDE DEF checked
  <2>4. CASE /\ operation[c.op].revision = 2 /\ \A i \in c.results : Belongs(c.op, i)
             /\ call' = [call EXCEPT ![h] = checked]
    <3>1. operation[c.op].state # "absent"
      BY <2>2, <2>4, Typed DEF RowOK
    <3>2. ASSUME NEW i \in c.results
          PROVE  item[i].subject = operation[c.op].subject
      <4>1. CASE item[i].op = c.op
        <5>1. i \in Items /\ item[i] # NoItem
          BY <2>1, <2>2, <4>1, ConstantsAssumption DEF NoItem
        <5>2. QED
          BY <4>1, <5>1 DEF IInv, ItemInv
      <4>2. QED
        BY <2>4, <4>1 DEF Belongs
    <3>3. Match(c.op, c.results)
      BY <3>2 DEF Match
    <3>4. CallOK(checked)
      BY <1>k, <2>1, <2>2, <3>1, <3>3 DEF CallOK
    <3>5. QED
      BY <1>k, <2>4, <3>4 DEF CallWritten
  <2>5. QED
    BY <1>2, <2>1, <2>2, <2>3, <2>4, Replied
<1>8. CASE CommitCompletion(h)
  <2>1. /\ c.step = "checked" /\ c.tool = "complete"
        /\ \E step \in {"answered", "refused"} : Reply(h, c, step)
    BY <1>2, <1>8 DEF CommitCompletion
  <2>2. c.op \in Operations
    BY <1>2, <2>1 DEF CallOK
  <2>3. QED
    BY <1>2, <2>1, <2>2, Replied
<1>9. QED
  BY <1>3, <1>4, <1>5, <1>6, <1>7, <1>8 DEF Serve

LEMMA CallMoves ==
  ASSUME IInv, [Next]_vars
  PROVE  call' = call \/ \E h \in Handlers : \E c : CallWritten(h, c)
<1>1. CASE UNCHANGED vars
  BY <1>1 DEF vars
<1>2. ASSUME NEW r \in Requests,
             \/ \E s \in Subjects : ReceiveOrganization(r, s) \/ ReceiveDiscovery(r, s)
             \/ Runner(r) \/ Timers(r) \/ BrowserLeaves(r)
      PROVE  call' = call
  BY <1>2 DEF ReceiveOrganization, ReceiveDiscovery, Runner, Timers, BrowserLeaves, MarkSearch,
              MountDiscovery, MountOrganization, TurnEnds, Find, RunTimesOut, RecoveryTimesOut
<1>3. ASSUME NEW h \in Handlers, Deliver(h) \/ GiveUp(h) \/ NeverArrives(h)
      PROVE  \E c : CallWritten(h, c)
  <2>1. CASE call' = [call EXCEPT ![h] = NoCall]
    BY <2>1, NoCallOK DEF CallWritten
  <2>2. CASE call' = [call EXCEPT ![h] = [call[h] EXCEPT !.waits = FALSE]]
    <3>1. PICK c \in Calls : c = call[h] /\ CallOK(c)
      BY Typed
    <3> DEFINE d == [c EXCEPT !.waits = FALSE]
    <3>2. d \in Calls /\ d.waits = FALSE /\ d.step = c.step /\ d.tool = c.tool /\ d.run = c.run
                      /\ d.op = c.op /\ d.item = c.item /\ d.results = c.results
      BY DEF Calls
    <3>3. call' = [call EXCEPT ![h] = d]
      BY <2>2, <3>1
    <3> HIDE DEF d
    <3>4. CallOK(d)
      BY <3>1, <3>2 DEF CallOK
    <3>5. QED
      BY <3>2, <3>3, <3>4 DEF CallWritten
  <2>3. QED
    BY <1>3, <2>1, <2>2 DEF Deliver, GiveUp, NeverArrives
<1>4. ASSUME NEW o \in Operations, UserCancels(o)
      PROVE  call' = call
  BY <1>4 DEF UserCancels
<1>5. QED
  BY <1>1, <1>2, <1>3, <1>4, ToolsSend, Serves DEF Next

LEMMA CallStep ==
  ASSUME IInv, [Next]_vars
  PROVE  call' \in [Handlers -> Calls] /\ CallInv'
<1>1. call \in [Handlers -> Calls]
  BY Typed
<1>2. call' \in [Handlers -> Calls]
  BY <1>1, CallMoves DEF CallWritten
<1>3. ASSUME NEW h \in Handlers
      PROVE  CallOK(call[h])'
  <2>1. \E c \in Calls : CallOK(c) /\ call'[h] = c
    BY <1>1, CallMoves, Typed DEF CallWritten
  <2>2. PICK c \in Calls : CallOK(c) /\ call'[h] = c
    BY <2>1
  <2>3. CallOK(c)'
    BY <2>2, CallKept
  <2>4. QED
    BY <2>2, <2>3 DEF CallOK
<1>4. QED
  BY <1>2, <1>3 DEF CallInv

-------------------------------------------------------------------------------
\* The plugin's state has its type.
LEMMA LoggedTyped ==
  ASSUME NEW a \in Agents, NEW tool
  PROVE  Logged(a, tool) \in Agents
<1>1. /\ a.offers \in Nat /\ a.offers <= MaxOffers /\ MaxOffers \in Nat
  BY ConstantsAssumption DEF Agents
<1>2. a.offers < MaxOffers => a.offers + 1 \in 0..MaxOffers
  BY <1>1
<1>3. \A log \in Logs : [a EXCEPT !.log = log] \in Agents
  BY DEF Agents
<1>4. \A n \in 0..MaxOffers : [a EXCEPT !.offers = n] \in Agents
  BY DEF Agents
<1>5. "open" \in Logs /\ "closed" \in Logs /\ "spoilt" \in Logs
  BY DEF Logs
<1> DEFINE n == a.offers + 1
<1>6. n \in 0..MaxOffers => [a EXCEPT !.offers = n] \in Agents
  BY <1>4
<1>7. CASE tool = "start" /\ a.log = "none"
  BY <1>3, <1>5, <1>7 DEF Logged
<1>8. CASE tool = "search" /\ a.log = "open"
  BY <1>8 DEF Logged
<1>9. CASE tool = "offer" /\ a.log = "open" /\ a.offers < MaxOffers
  <2>1. Logged(a, tool) = [a EXCEPT !.offers = n]
    BY <1>9 DEF Logged
  <2>2. QED
    BY <1>2, <1>6, <1>9, <2>1
<1>10. CASE tool = "complete" /\ a.log = "open"
  BY <1>3, <1>5, <1>10 DEF Logged
<1>11. CASE /\ ~(tool = "start" /\ a.log = "none") /\ ~(tool = "search" /\ a.log = "open")
            /\ ~(tool = "offer" /\ a.log = "open" /\ a.offers < MaxOffers)
            /\ ~(tool = "complete" /\ a.log = "open")
  <2>1. Logged(a, tool) = [a EXCEPT !.log = "spoilt"]
    BY <1>11 DEF Logged
  <2>2. QED
    BY <1>3, <1>5, <2>1
<1>12. QED
  BY <1>7, <1>8, <1>9, <1>10, <1>11

LEMMA NewAgentTyped == NewAgent \in Agents
<1>1. 0 \in 0..MaxOffers
  BY ConstantsAssumption
<1>2. QED
  BY <1>1 DEF NewAgent, Agents, Logs

LEMMA PluginStep ==
  ASSUME IInv, [Next]_vars
  PROVE  agent' \in [Requests -> Agents] /\ owner' \in [Operations -> Requests \cup {Nobody}]
<1>t. /\ agent \in [Requests -> Agents] /\ owner \in [Operations -> Requests \cup {Nobody}]
  BY DEF IInv, TypeOK
<1> DEFINE Goal == /\ agent' \in [Requests -> Agents]
                   /\ owner' \in [Operations -> Requests \cup {Nobody}]
<1>0. ASSUME UNCHANGED plugin
      PROVE  Goal
  BY <1>0, <1>t DEF plugin
<1>1. CASE UNCHANGED vars
  BY <1>0, <1>1 DEF vars, plugin
<1>2. ASSUME NEW r \in Requests,
             \/ \E s \in Subjects : ReceiveOrganization(r, s) \/ ReceiveDiscovery(r, s)
             \/ Runner(r) \/ Timers(r) \/ BrowserLeaves(r)
      PROVE  Goal
  <2>1. \/ UNCHANGED plugin
        \/ owner' = owner /\ agent' = agent
        \/ owner' = owner /\ agent' = [agent EXCEPT ![r] = NewAgent]
    <3>1. CASE (\E s \in Subjects : ReceiveOrganization(r, s) \/ ReceiveDiscovery(r, s))
                 \/ Timers(r) \/ BrowserLeaves(r) \/ MarkSearch(r)
      BY <3>1 DEF ReceiveOrganization, ReceiveDiscovery, Timers, RunTimesOut, RecoveryTimesOut,
                  BrowserLeaves, MarkSearch
    <3>2. CASE MountDiscovery(r) \/ MountOrganization(r) \/ TurnEnds(r) \/ Find(r)
      BY <3>2 DEF MountDiscovery, MountOrganization, TurnEnds, Find, Open, NextTurn, Fail, Answer
    <3>3. QED
      BY <1>2, <3>1, <3>2 DEF Runner
  <2>2. QED
    BY <1>0, <1>t, <2>1, NewAgentTyped
<1>3. ASSUME NEW r \in Requests, Tools(r)
      PROVE  Goal
  <2>1. CASE Search(r)
    <3> DEFINE found == Logged(agent[r], "search")
    <3>1. PICK jobs \in SUBSET Items :
             agent' = [agent EXCEPT ![r] = [found EXCEPT !.listed = found.listed \cup jobs]]
      BY <2>1 DEF Search, Listings
    <3>2. found \in Agents
      BY <1>t, LoggedTyped
    <3> HIDE DEF found
    <3>3. [found EXCEPT !.listed = found.listed \cup jobs] \in Agents
      BY <3>2 DEF Agents
    <3>5. owner' = owner
      BY <2>1 DEF Search
    <3>6. QED
      BY <1>t, <3>1, <3>3, <3>5
  <2>2. CASE ~Search(r)
    BY <1>0, <1>3, <2>2 DEF Tools, StartDiscovery, RecordJob, CompleteDiscovery,
                            StartOrganization, ProposeFact, CompleteOrganization
  <2>3. QED
    BY <2>1, <2>2
<1>4. ASSUME NEW h \in Handlers, Deliver(h)
      PROVE  Goal
  <2>1. PICK c \in Calls : c = call[h] /\ CallOK(c)
    BY Typed
  <2>2. c.step \in {"answered", "refused"} /\ c.run \in Requests
    BY <1>4, <2>1 DEF Deliver, CallOK
  <2>3. CASE c.step = "refused"
    BY <1>0, <1>4, <2>1, <2>3 DEF Deliver
  <2>4. CASE c.step = "answered"
    <3>1. PICK a \in Agents : a = Logged(agent[c.run], c.tool)
      BY <1>t, <2>2, LoggedTyped
    <3>2. /\ agent' = [agent EXCEPT ![c.run] =
                 IF c.tool = "offer" THEN [a EXCEPT !.told[c.op] = @ \cup {c.item}] ELSE a]
          /\ owner' = CASE c.tool = "start" -> [owner EXCEPT ![c.op] = c.run]
                        [] c.tool = "complete" -> [owner EXCEPT ![c.op] = Nobody]
                        [] OTHER -> owner
      BY <1>4, <2>1, <2>4, <3>1 DEF Deliver
    <3>3. c.tool = "offer" => [a EXCEPT !.told[c.op] = @ \cup {c.item}] \in Agents
      <4>1. SUFFICES ASSUME c.tool = "offer"
                     PROVE  [a EXCEPT !.told[c.op] = @ \cup {c.item}] \in Agents
        OBVIOUS
      <4>2. c.op \in Operations /\ c.item \in Items
        BY <2>1, <2>4, <4>1 DEF CallOK
      <4>3. QED
        BY <4>2 DEF Agents
    <3>4. agent' \in [Requests -> Agents]
      BY <1>t, <2>2, <3>2, <3>3
    <3>5. owner' \in [Operations -> Requests \cup {Nobody}]
      BY <1>t, <2>2, <3>2
    <3>6. QED
      BY <3>4, <3>5
  <2>5. QED
    BY <2>2, <2>3, <2>4
<1>5. ASSUME NEW h \in Handlers, GiveUp(h)
      PROVE  Goal
  <2>1. PICK c \in Calls : c = call[h] /\ CallOK(c)
    BY Typed
  <2>2. c.run \in Requests
    BY <1>5, <2>1 DEF GiveUp, CallOK
  <2>3. owner' = owner /\ (agent' = agent \/ agent' = [agent EXCEPT ![c.run] = Logged(@, c.tool)])
    BY <1>5, <2>1 DEF GiveUp
  <2>4. Logged(agent[c.run], c.tool) \in Agents
    BY <1>t, <2>2, LoggedTyped
  <2>5. QED
    BY <1>t, <2>2, <2>3, <2>4
<1>6. ASSUME NEW h \in Handlers, NeverArrives(h) \/ Serve(h)
      PROVE  Goal
  BY <1>0, <1>6 DEF NeverArrives, Serve, AdmitOperation, StartOperation, CheckOffer,
                    CommitOffer, CheckCompletion, CommitCompletion
<1>7. ASSUME NEW o \in Operations, UserCancels(o)
      PROVE  Goal
  BY <1>0, <1>7 DEF UserCancels
<1>8. QED
  BY <1>1, <1>2, <1>3, <1>4, <1>5, <1>6, <1>7 DEF Next

LEMMA CountsStep ==
  ASSUME IInv, [Next]_vars
  PROVE  calls' \in 0..MaxCalls /\ disturbed' \in 0..MaxDisturbances
<1>t. calls \in 0..MaxCalls /\ disturbed \in 0..MaxDisturbances
  BY DEF IInv, TypeOK
<1>1. /\ calls' = calls \/ (calls < MaxCalls /\ calls' = calls + 1)
      /\ disturbed' = disturbed \/ (disturbed < MaxDisturbances /\ disturbed' = disturbed + 1)
  <2>1. CASE UNCHANGED vars
    BY <2>1 DEF vars, counts
  <2>2. ASSUME NEW r \in Requests,
               \/ \E s \in Subjects : ReceiveOrganization(r, s) \/ ReceiveDiscovery(r, s)
               \/ Runner(r) \/ Timers(r) \/ BrowserLeaves(r)
        PROVE  <1>1!1 /\ <1>1!2
    BY <2>2 DEF ReceiveOrganization, ReceiveDiscovery, Runner, Timers, BrowserLeaves, MarkSearch,
                MountDiscovery, MountOrganization, TurnEnds, Find, RunTimesOut, RecoveryTimesOut,
                counts, Disturb
  <2>3. ASSUME NEW r \in Requests, Tools(r)
        PROVE  <1>1!1 /\ <1>1!2
    BY <2>3 DEF Tools, Search, StartDiscovery, RecordJob, CompleteDiscovery, StartOrganization,
                ProposeFact, CompleteOrganization, counts, Send
  <2>4. ASSUME NEW h \in Handlers, Deliver(h) \/ GiveUp(h) \/ NeverArrives(h) \/ Serve(h)
        PROVE  <1>1!1 /\ <1>1!2
    BY <2>4 DEF Deliver, GiveUp, NeverArrives, Serve, AdmitOperation, StartOperation, CheckOffer,
                CommitOffer, CheckCompletion, CommitCompletion, counts, Disturb
  <2>5. ASSUME NEW o \in Operations, UserCancels(o)
        PROVE  <1>1!1 /\ <1>1!2
    BY <2>5 DEF UserCancels, Disturb
  <2>6. QED
    BY <2>1, <2>2, <2>3, <2>4, <2>5 DEF Next
<1>2. QED
  BY <1>t, <1>1, ConstantsAssumption

-------------------------------------------------------------------------------
LEMMA TypeStep ==
  ASSUME IInv, [Next]_vars
  PROVE  TypeOK'
<1>1. inFlight' \subseteq Subjects
  <2>1. CASE inFlight' = inFlight
    BY <2>1, Typed
  <2>2. CASE \E r \in Requests : \E row : RunWritten(r, row)
    <3>0. PICK r \in Requests : \E row : RunWritten(r, row)
      BY <2>2
    <3>1. PICK row : RunWritten(r, row)
      BY <3>0
    <3>2. row.subject \in Subjects
      BY <3>1 DEF RunWritten, RunOK
    <3>3. QED
      BY <3>1, <3>2, Typed DEF RunWritten
  <2>3. QED
    BY <2>1, <2>2, RunMoves
<1>2. QED
  BY <1>1, Stays, PluginStep, CallStep, CountsStep DEF TypeOK

\* An operation that has a subject: items with it exist, and stay.
LEMMA MatchStays ==
  ASSUME IInv, [Next]_vars, NEW s \in Subjects, NEW results \in SUBSET Items,
         \A i \in results : item[i].subject = s
  PROVE  \A i \in results : item'[i].subject = s
<1>1. ASSUME NEW i \in results
      PROVE  item'[i].subject = s
  <2>1. i \in Items /\ item[i].subject = s
    BY <1>1
  <2>2. item[i] # NoItem
    BY <2>1, ConstantsAssumption DEF NoItem
  <2>3. QED
    BY <2>1, <2>2, Stays
<1>2. QED
  BY <1>1

LEMMA ItemStep ==
  ASSUME IInv, [Next]_vars
  PROVE  ItemInv'
<1>1. ASSUME NEW i \in Items, item'[i] # NoItem
      PROVE  /\ item'[i].op \in Operations /\ operation'[item'[i].op].state # "absent"
             /\ item'[i].subject = operation'[item'[i].op].subject
  <2>1. CASE item[i] # NoItem
    <3>1. /\ item'[i] = item[i] /\ item[i].op \in Operations
          /\ operation[item[i].op].state # "absent"
          /\ item[i].subject = operation[item[i].op].subject
      BY <2>1, Stays DEF IInv, ItemInv
    <3>2. QED
      BY <3>1, Stays
  <2>2. CASE item[i] = NoItem
    <3>1. item'[i] # item[i]
      BY <1>1, <2>2
    <3>2. PICK j \in Items, o \in Operations : ItemWritten(j, o)
      BY <3>1, TablesMove DEF OperationWritten
    <3>3. item \in [Items -> [op : Operations \cup {NoOperation}, subject : Subjects \cup {Nobody}]]
      BY DEF IInv, TypeOK
    <3>4. j = i /\ item'[i] = [op |-> o, subject |-> operation[o].subject]
      BY <3>1, <3>2, <3>3 DEF ItemWritten
    <3>5. operation' = operation /\ operation[o].state # "absent"
      BY <3>2 DEF ItemWritten
    <3>6. QED
      BY <3>4, <3>5
  <2>3. QED
    BY <2>1, <2>2
<1>2. QED
  BY <1>1 DEF ItemInv, NoItem

LEMMA ResultsStep ==
  ASSUME IInv, [Next]_vars
  PROVE  ResultsInv'
<1>1. ASSUME NEW o \in Operations, operation'[o].state = "succeeded"
      PROVE  \A i \in operation'[o].results : item'[i].subject = operation'[o].subject
  <2>1. CASE operation'[o] = operation[o]
    <3>1. operation[o].subject \in Subjects /\ operation[o].results \in SUBSET Items
      <4>1. operation[o] \in Rows /\ RowOK(operation[o]) /\ operation[o].state = "succeeded"
        BY <1>1, <2>1, Typed
      <4>2. QED
        BY <4>1 DEF RowOK, Rows
    <3>2. \A i \in operation[o].results : item[i].subject = operation[o].subject
      BY <1>1, <2>1 DEF IInv, ResultsInv, Match
    <3>3. PICK s \in Subjects, results \in SUBSET Items :
               s = operation[o].subject /\ results = operation[o].results
      BY <3>1
    <3>4. \A i \in results : item'[i].subject = s
      BY <3>2, <3>3, MatchStays
    <3>5. QED
      BY <2>1, <3>3, <3>4
  <2>2. CASE operation'[o] # operation[o]
    <3>0. PICK p \in Operations : \E row : OperationWritten(p, row)
      BY <2>2, TablesMove DEF ItemWritten
    <3>1. PICK row : OperationWritten(p, row)
      BY <3>0
    <3>2. p = o /\ operation'[o] = row
      BY <2>2, <3>1, Typed DEF OperationWritten
    <3>3. QED
      BY <1>1, <3>1, <3>2 DEF OperationWritten
  <2>3. QED
    BY <2>1, <2>2
<1>2. QED
  BY <1>1 DEF ResultsInv, Match

\* A run is answered once, with what its session has settled.
LEMMA AnswerStep ==
  ASSUME IInv, [Next]_vars
  PROVE  AnswerIsSettled'
<1> DEFINE Settled(r) ==
      \E o \in Operations :
        /\ operation'[o].session = r /\ operation'[o].state = "succeeded"
        /\ operation'[o].subject = run'[r].subject /\ operation'[o].results = run'[r].results
        /\ \A i \in run'[r].results : item'[i].subject = run'[r].subject
<1>1. ASSUME NEW r \in Requests, run'[r].outcome = "succeeded"
      PROVE  Settled(r)
  <2>1. CASE run'[r] = run[r]
    <3>1. PICK o \in Operations :
            /\ operation[o].session = r /\ operation[o].state = "succeeded"
            /\ operation[o].subject = run[r].subject /\ operation[o].results = run[r].results
            /\ \A i \in run[r].results : item[i].subject = run[r].subject
      BY <1>1, <2>1 DEF IInv, AnswerIsSettled
    <3>2. operation'[o] = operation[o]
      BY <3>1, Stays
    <3>3. run[r].subject \in Subjects /\ run[r].results \in SUBSET Items
      <4>1. run[r] \in Runs /\ RunOK(run[r])
        BY Typed
      <4>2. QED
        BY <1>1, <2>1, <4>1 DEF RunOK, Runs
    <3>4. PICK s \in Subjects, results \in SUBSET Items :
               s = run[r].subject /\ results = run[r].results
      BY <3>3
    <3>5. \A i \in results : item'[i].subject = s
      BY <3>1, <3>4, MatchStays
    <3>6. QED
      BY <2>1, <3>1, <3>2, <3>4, <3>5
  <2>2. CASE run'[r] # run[r]
    <3>0. PICK q \in Requests : \E row : RunWritten(q, row)
      BY <2>2, RunMoves
    <3>1. PICK row : RunWritten(q, row)
      BY <3>0
    <3>2. q = r /\ run'[r] = row
      BY <2>2, <3>1, Typed DEF RunWritten
    <3>3. Settles(r, row) /\ UNCHANGED <<operation, item>>
      BY <1>1, <3>1, <3>2 DEF RunWritten
    <3>4. PICK o \in Operations :
            /\ operation[o].session = r /\ operation[o].state = "succeeded"
            /\ operation[o].subject = row.subject /\ operation[o].results = row.results
      BY <3>3 DEF Settles
    <3>5. \A i \in operation[o].results : item[i].subject = operation[o].subject
      BY <3>4 DEF IInv, ResultsInv, Match
    <3>6. QED
      BY <3>2, <3>3, <3>4, <3>5
  <2>3. QED
    BY <2>1, <2>2
<1>2. QED
  BY <1>1 DEF AnswerIsSettled

\* A mark is set with the beginning of a run and taken away at its end.
LEMMA MarkStep ==
  ASSUME IInv, [Next]_vars
  PROVE  MarkInv'
<1>t. run \in [Requests -> Runs] /\ \A r \in Requests : RunOK(run[r])
  BY Typed
<1>i. /\ \A s \in Sources : s \in inFlight <=> \E r \in Requests : Active(r) /\ run[r].subject = s
      /\ \A q, r \in Requests : Active(q) /\ Active(r) /\ Organizes(r)
                                  /\ run[q].subject = run[r].subject => q = r
  BY DEF IInv, MarkInv
<1>1. CASE UNCHANGED <<run, inFlight>>
  BY <1>1, <1>i DEF MarkInv, Active, Organizes
<1>2. CASE \E r \in Requests : \E row : RunWritten(r, row)
  <2>0. PICK r \in Requests : \E row : RunWritten(r, row)
    BY <1>2
  <2>1. PICK row : RunWritten(r, row)
    BY <2>0
  <2>2. /\ run'[r] = row /\ \A q \in Requests \ {r} : run'[q] = run[q]
        /\ run[r].phase # "idle" => row.subject = run[r].subject
        /\ row.subject \in Subjects
    BY <1>t, <2>1 DEF RunWritten, RunOK
  <2>3. CASE /\ run[r].phase = "idle" /\ row.phase \in {"answered", "checked"}
             /\ inFlight' = inFlight
    BY <1>i, <2>2, <2>3 DEF MarkInv, Active, Organizes
  <2>4. CASE /\ run[r].phase = "idle" /\ row.phase = "mounting"
             /\ row.subject \in Sources \ inFlight /\ inFlight' = inFlight \cup {row.subject}
    BY <1>i, <2>2, <2>4 DEF MarkInv, Active, Organizes
  <2>5. CASE /\ run[r].phase = "checked" /\ row.phase = "mounting"
             /\ inFlight' = inFlight \cup {row.subject}
    <3>1. row.subject \notin Sources
      BY <1>t, <2>2, <2>5, ConstantsAssumption DEF RunOK
    <3>2. QED
      BY <1>i, <2>2, <2>5, <3>1 DEF MarkInv, Active, Organizes
  <2>6. CASE Active(r) /\ row.phase \in {"turn", "finding"} /\ inFlight' = inFlight
    BY <1>i, <2>2, <2>6 DEF MarkInv, Active, Organizes
  <2>7. CASE Active(r) /\ row.phase = "answered" /\ inFlight' = inFlight \ {row.subject}
    BY <1>i, <2>2, <2>7 DEF MarkInv, Active, Organizes
  <2>8. QED
    BY <2>1, <2>3, <2>4, <2>5, <2>6, <2>7 DEF RunWritten
<1>3. QED
  BY <1>1, <1>2, RunMoves

LEMMA InitIInv ==
  ASSUME Init
  PROVE  IInv
<1>1. /\ \A r \in Requests : run[r] = NoRun
      /\ \A o \in Operations : operation[o] = NoRow
      /\ \A i \in Items : item[i] = NoItem
      /\ \A h \in Handlers : call[h] = NoCall
      /\ inFlight = {}
  BY DEF Init
<1>2. NoItem \in [op : Operations \cup {NoOperation}, subject : Subjects \cup {Nobody}]
  BY DEF NoItem
<1>3. 0 \in 0..MaxCalls /\ 0 \in 0..MaxDisturbances
  BY ConstantsAssumption
<1>4. TypeOK
  BY <1>2, <1>3, NoRunTyped, NoRowTyped, NewAgentTyped, NoCallOK DEF Init, TypeOK
<1>5. RowsInv
  BY <1>1, NoRowTyped DEF RowsInv, RowOK, NoRow
<1>6. RunInv /\ AnswerIsSettled
  BY <1>1 DEF RunInv, RunOK, NoRun, AnswerIsSettled
<1>7. ItemInv
  BY <1>1 DEF ItemInv
<1>8. CallInv
  BY <1>1, NoCallOK DEF CallInv
<1>9. ResultsInv
  BY <1>1 DEF ResultsInv, NoRow
<1>10. MarkInv
  BY <1>1 DEF MarkInv, Active, NoRun
<1>11. QED
  BY <1>4, <1>5, <1>6, <1>7, <1>8, <1>9, <1>10 DEF IInv

-------------------------------------------------------------------------------
\* The runs, the tools' requests and the tables keep to what they know of each other.
THEOREM Invariant == Spec => []IInv
<1>1. Init => IInv
  BY InitIInv
<1>2. IInv /\ [Next]_vars => IInv'
  <2>1. SUFFICES ASSUME IInv, [Next]_vars
                 PROVE  IInv'
    OBVIOUS
  <2>2. TypeOK' /\ RowsInv' /\ RunInv' /\ CallInv'
    BY <2>1, TypeStep, Stays, CallStep
  <2>3. ItemInv' /\ ResultsInv' /\ MarkInv' /\ AnswerIsSettled'
    BY <2>1, ItemStep, ResultsStep, MarkStep, AnswerStep
  <2>4. QED
    BY <2>2, <2>3 DEF IInv
<1>3. QED
  BY <1>1, <1>2, PTL DEF Spec

\* Runs, sessions, calls and rows are of their types.
THEOREM TypeCorrect == Spec => []TypeOK
<1>1. IInv => TypeOK
  BY DEF IInv
<1>2. QED
  BY <1>1, Invariant, PTL

\* What the endpoints of server.ts answer as a success is what an operation of
\* the run's own session has settled on its subject, however many runs there are
\* and whatever their agents' requests meet.
THEOREM AnswersAreSettled == Spec => []AnswerIsSettled
<1>1. IInv => AnswerIsSettled
  BY DEF IInv
<1>2. QED
  BY <1>1, Invariant, PTL

\* profileOrganizationsInFlight: a source is marked exactly while one run, and
\* no second one, organizes it.
THEOREM OneOrganization == Spec => []OneOrganizationAtATime
<1>1. IInv => OneOrganizationAtATime
  <2>1. SUFFICES ASSUME IInv, NEW s \in Sources
                 PROVE  Cardinality({r \in Requests : Active(r) /\ run[r].subject = s})
                          = IF s \in inFlight THEN 1 ELSE 0
    BY DEF OneOrganizationAtATime
  <2> DEFINE active == {r \in Requests : Active(r) /\ run[r].subject = s}
  <2>2. s \in inFlight <=> active # {}
    BY <2>1 DEF IInv, MarkInv
  <2>3. \A q, r \in active : q = r
    BY <2>1 DEF IInv, MarkInv, Organizes
  <2>4. active = {} \/ \E r : active = {r}
    BY <2>3
  <2>5. CASE active = {}
    BY <2>2, <2>5, FS_EmptySet
  <2>6. CASE \E r : active = {r}
    <3>1. Cardinality(active) = 1
      BY <2>6, FS_Singleton
    <3>2. s \in inFlight
      BY <2>2, <2>6
    <3>3. QED
      BY <3>1, <3>2
  <2>7. QED
    BY <2>4, <2>5, <2>6
<1>2. QED
  BY <1>1, Invariant, PTL
===============================================================================
