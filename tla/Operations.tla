------------------------------ MODULE Operations ------------------------------
(***************************************************************************)
(* Operations and the evaluations they carry: workbench.ts evaluate,       *)
(* startOperation, recordOperationActivity, terminateOperation, the        *)
(* requests for cancellation and follow-up, and the reconciliation at      *)
(* startup.  A handler reads, then commits; what it commits is the whole   *)
(* record it read with the fields it changes, under the revision it read.  *)
(* evaluate commits twice, once to admit and once to complete, and settles *)
(* what it admitted in a third commit if the second one fails.  The same   *)
(* request may be delivered twice and the process may stop between any two *)
(* steps.  Calls of sessions that authorizeOperation refuses change        *)
(* nothing and are left out, and so are calls whose expected revision is   *)
(* refused at the read.                                                    *)
(***************************************************************************)
EXTENDS Naturals, FiniteSets

CONSTANTS
  Handlers,     \* requests the server can be serving at the same time
  Operations,   \* identities of operations
  Evaluations,  \* identities of evaluations of one opportunity under one rubric
  Keys,         \* idempotency keys of evaluate commands
  Names,        \* Names[key]: the operation the command under that key names
  NoOperation,  \* a command that names none
  NotAdmitted,  \* a key no admission was recorded under
  MaxRevision,  \* bound: no command is composed on an operation at this revision
  MaxCrashes    \* bound: how often the process stops

ASSUME ConstantsAssumption ==
  /\ Operations # {} /\ Evaluations # {} /\ Keys # {}
  /\ NoOperation \notin Operations
  /\ Names \in [Keys -> Operations \cup {NoOperation}]
  /\ MaxRevision \in Nat /\ MaxCrashes \in Nat

VARIABLES
  server,       \* "serving", or "starting" until the reconciliation is done
  operation,    \* the operation table
  terminals,    \* how many operation.terminal events each operation has
  evaluation,   \* the evaluation table
  opportunity,  \* revision of the opportunity under evaluation
  rubric,       \* revision of the rubric, raised by every use
  admitted,     \* what evaluate's admissions recorded under their keys
  handler,      \* what each handler has read and is about to do
  crashes       \* how often the process has stopped

tables == <<operation, terminals, evaluation, opportunity, rubric, admitted>>
vars == <<server, tables, handler, crashes>>

-----------------------------------------------------------------------------
Terminal == {"succeeded", "failed", "canceled", "indeterminate"}
Active == {"queued", "running", "waiting_for_user"}
Routes == {"deterministic", "ordinary_dsh", "native_child"}

OperationRows == [state : {"absent"} \cup Active \cup Terminal, revision : Nat,
                  route : Routes, canceling : BOOLEAN, resultIds : SUBSET Evaluations]
EvaluationRows == [state : {"absent", "running", "completed", "failed"}, revision : Nat,
                   operation : Operations]

\* The result an admission records under its key.
Admissions == [operation : Operations, row : OperationRows, evaluation : Evaluations,
               opportunity : Nat]

Steps == {"idle", "admitOperation", "write", "admitEvaluation", "complete", "fail"}
Calls == [step : Steps, key : Keys, operation : Operations, row : OperationRows,
          fresh : Evaluations, evaluation : Evaluations, opportunity : Nat, rubric : Nat]

NoRow == [state |-> "absent", revision |-> 0, route |-> "deterministic",
          canceling |-> FALSE, resultIds |-> {}]

\* A handler that is serving nothing.  Its other fields mean nothing.
Idle == [step |-> "idle", key |-> CHOOSE k \in Keys : TRUE,
         operation |-> CHOOSE o \in Operations : TRUE, row |-> NoRow,
         fresh |-> CHOOSE e \in Evaluations : TRUE,
         evaluation |-> CHOOSE e \in Evaluations : TRUE, opportunity |-> 0, rubric |-> 0]

Init ==
  /\ server = "serving"
  /\ operation = [o \in Operations |-> NoRow]
  /\ terminals = [o \in Operations |-> 0]
  /\ evaluation = [e \in Evaluations |-> [state |-> "absent", revision |-> 0,
                                          operation |-> Idle.operation]]
  /\ opportunity = 1
  /\ rubric = 1
  /\ admitted = [k \in Keys |-> NotAdmitted]
  /\ handler = [h \in Handlers |-> Idle]
  /\ crashes = 0

\* Identities are fresh: no record and no handler has one.
FreshOperation(o) ==
  operation[o].state = "absent" /\ \A h \in Handlers : handler[h].step # "idle" =>
                                                         handler[h].operation # o
FreshEvaluation(e) ==
  evaluation[e].state = "absent" /\ \A h \in Handlers : handler[h].step # "idle" =>
                                                          handler[h].fresh # e

Ready(h) == server = "serving" /\ handler[h].step = "idle"
Finish(h) == handler' = [handler EXCEPT ![h] = Idle]

-----------------------------------------------------------------------------
\* startOperation of an agent session: the operation is admitted in one commit
\* and, unless only admission was asked for, started in a second one.
StartOperation(h, o, route) ==
  /\ Ready(h)
  /\ FreshOperation(o)
  /\ route = "native_child" => \E parent \in Operations : operation[parent].state # "absent"
  /\ handler' = [handler EXCEPT ![h] =
       [Idle EXCEPT !.step = "admitOperation", !.operation = o,
                    !.row = [NoRow EXCEPT !.state = "queued", !.revision = 1,
                                          !.route = route]]]
  /\ UNCHANGED <<server, tables, crashes>>

AdmitOperation(h) ==
  LET call == handler[h] IN
  /\ call.step = "admitOperation"
  /\ operation' = [operation EXCEPT ![call.operation] = call.row]
  /\ \/ Finish(h)
     \/ handler' = [handler EXCEPT ![h].step = "write", ![h].row.state = "running",
                                   ![h].row.revision = @ + 1]
  /\ UNCHANGED <<server, terminals, evaluation, opportunity, rubric, admitted, crashes>>

\* A handler has read operation o and means to write the given record over it.
Means(h, o, row) ==
  /\ operation[o].revision < MaxRevision
  /\ handler' = [handler EXCEPT ![h] =
       [Idle EXCEPT !.step = "write", !.operation = o,
                    !.row = [row EXCEPT !.revision = @ + 1]]]
  /\ UNCHANGED <<server, tables, crashes>>

\* Only the session of a model operation passes authorizeOperation.
AgentsOwn(o) == operation[o].state # "absent" /\ operation[o].route # "deterministic"

\* Fault: a terminal operation accepts every kind of activity.
RecordActivityAlways(h, o, phase) ==
  /\ Ready(h) /\ AgentsOwn(o)
  /\ Means(h, o, IF phase \in {"started", "followup"}
                   THEN [operation[o] EXCEPT !.state = "running"] ELSE operation[o])

\* recordOperationActivity, up to its commit.
RecordActivity(h, o, phase) ==
  /\ Ready(h) /\ AgentsOwn(o)
  /\ operation[o].state \in Terminal => phase = "deleted"
  /\ Means(h, o, IF phase \in {"started", "followup"}
                   THEN [operation[o] EXCEPT !.state = "running"] ELSE operation[o])

\* terminateOperation, up to its commit.  What results an agent names is not looked
\* at for an evaluation; here it names none.
TerminateOperation(h, o, state) ==
  /\ Ready(h) /\ AgentsOwn(o)
  /\ operation[o].state \notin Terminal
  /\ Means(h, o, [operation[o] EXCEPT !.state = state, !.resultIds = {}])

\* requestOperationCancellation of its session and requestUserOperationCancellation.
RequestCancellation(h, o) ==
  /\ Ready(h) /\ operation[o].state \in Active
  /\ Means(h, o, [operation[o] EXCEPT !.canceling = TRUE])

\* requestChildFollowup asks for no particular state.
RequestChildFollowup(h, o) ==
  /\ Ready(h) /\ operation[o].state # "absent"
  /\ operation[o].route = "native_child"
  /\ Means(h, o, operation[o])

\* The terminal event that comes with a record that became terminal.
TerminalEvent(o, row) ==
  terminals' = [terminals EXCEPT ![o] =
    IF row.state \in Terminal /\ operation[o].state \notin Terminal THEN @ + 1 ELSE @]

\* The commit of a handler that read one operation: refused if the operation
\* has changed since.
CommitOperation(h) ==
  LET call == handler[h]
      o == call.operation
  IN /\ call.step = "write"
     /\ IF operation[o].revision + 1 = call.row.revision
          THEN /\ operation' = [operation EXCEPT ![o] = call.row]
               /\ TerminalEvent(o, call.row)
          ELSE UNCHANGED <<operation, terminals>>
     /\ Finish(h)
     /\ UNCHANGED <<server, evaluation, opportunity, rubric, admitted, crashes>>

-----------------------------------------------------------------------------
\* evaluate reads the opportunity, the rubric and the operation it was named,
\* which has to be running, or draws a fresh one.  What it draws for a command
\* that is on record is never stored: the recorded operation stands for it.
\* Each record is read at an await of its own; the rubric is compared at the
\* completion and the others at the admission, so that reading them apart only
\* adds refusals.
Evaluate(h, k, o, e) ==
  /\ Ready(h)
  /\ FreshEvaluation(e)
  /\ IF Names[k] = NoOperation
       THEN IF admitted[k] = NotAdmitted THEN FreshOperation(o) ELSE o = admitted[k].operation
     ELSE /\ o = Names[k] /\ operation[o].state = "running"
          /\ operation[o].route # "deterministic"
          /\ operation[o].revision < MaxRevision
  /\ handler' = [handler EXCEPT ![h] =
       [step        |-> "admitEvaluation",
        key         |-> k,
        operation   |-> o,
        row         |-> IF Names[k] = NoOperation
                          THEN [NoRow EXCEPT !.state = "running", !.revision = 1]
                          ELSE [operation[o] EXCEPT !.revision = @ + 1],
        fresh       |-> e,
        evaluation  |-> e,
        opportunity |-> opportunity,
        rubric      |-> rubric]]
  /\ UNCHANGED <<server, tables, crashes>>

\* The first commit.  A key that was admitted before answers with what it
\* recorded; a refused admission ends the request.
AdmitEvaluation(h) ==
  LET call == handler[h]
      prior == admitted[call.key]
      current == /\ operation[call.operation].revision + 1 = call.row.revision
                 /\ opportunity = call.opportunity
  IN /\ call.step = "admitEvaluation"
     /\ \/ /\ prior # NotAdmitted
           /\ handler' = [handler EXCEPT ![h] =
                [call EXCEPT !.step = "complete", !.operation = prior.operation,
                             !.row = prior.row, !.evaluation = prior.evaluation,
                             !.opportunity = prior.opportunity]]
           /\ UNCHANGED tables
        \/ /\ prior = NotAdmitted /\ current
           /\ operation' = [operation EXCEPT ![call.operation] = call.row]
           /\ evaluation' = [evaluation EXCEPT ![call.fresh] =
                               [state |-> "running", revision |-> 1,
                                operation |-> call.operation]]
           /\ opportunity' = opportunity + 1
           /\ admitted' = [admitted EXCEPT ![call.key] =
                             [operation   |-> call.operation,
                              row         |-> call.row,
                              evaluation  |-> call.fresh,
                              opportunity |-> opportunity + 1]]
           /\ handler' = [handler EXCEPT ![h].step = "complete", ![h].opportunity = @ + 1]
           /\ UNCHANGED <<terminals, rubric>>
        \/ /\ prior = NotAdmitted /\ ~current
           /\ Finish(h)
           /\ UNCHANGED tables
     /\ UNCHANGED <<server, crashes>>

\* The input does not score: a contradiction, a missing or an unaccepted evidence.
ScoreFails(h) ==
  /\ handler[h].step = "complete"
  /\ handler' = [handler EXCEPT ![h].step = "fail"]
  /\ UNCHANGED <<server, tables, crashes>>

\* The second commit.  Its command names the identity this delivery drew, so
\* that another delivery of the request is refused like a stale one.
CompleteEvaluation(h) ==
  LET call == handler[h]
      o == call.operation
      current == /\ evaluation[call.evaluation].revision = 1
                 /\ operation[o].revision = call.row.revision
                 /\ opportunity = call.opportunity
                 /\ rubric = call.rubric
      row == [call.row EXCEPT !.state = "succeeded", !.revision = @ + 1,
                              !.resultIds = {call.fresh}]
  IN /\ call.step = "complete"
     /\ \/ /\ current
           /\ evaluation' = [evaluation EXCEPT ![call.evaluation].state = "completed",
                                               ![call.evaluation].revision = @ + 1]
           /\ operation' = [operation EXCEPT ![o] = row]
           /\ TerminalEvent(o, row)
           /\ opportunity' = opportunity + 1
           /\ rubric' = rubric + 1
           /\ Finish(h)
           /\ UNCHANGED admitted
        \/ /\ ~current
           /\ handler' = [handler EXCEPT ![h].step = "fail"]
           /\ UNCHANGED tables
     /\ UNCHANGED <<server, crashes>>

\* Fault: the failure of the evaluation is recorded in a commit of its own.
FailEvaluationAlone(h) ==
  LET call == handler[h] IN
  /\ call.step = "fail"
  /\ IF evaluation[call.evaluation].revision = 1
       THEN evaluation' = [evaluation EXCEPT ![call.evaluation].state = "failed",
                                             ![call.evaluation].revision = @ + 1]
       ELSE UNCHANGED evaluation
  /\ Finish(h)
  /\ UNCHANGED <<server, operation, terminals, opportunity, rubric, admitted, crashes>>

\* failOperation settles operation and evaluation together if neither has
\* changed since the admission; otherwise it settles nothing.
FailEvaluation(h) ==
  LET call == handler[h]
      o == call.operation
      current == /\ operation[o].revision = call.row.revision
                 /\ evaluation[call.evaluation].revision = 1
      row == [call.row EXCEPT !.state = "failed", !.revision = @ + 1]
  IN /\ call.step = "fail"
     /\ IF current
          THEN /\ operation' = [operation EXCEPT ![o] = row]
               /\ TerminalEvent(o, row)
               /\ evaluation' = [evaluation EXCEPT ![call.evaluation].state = "failed",
                                                   ![call.evaluation].revision = @ + 1]
          ELSE UNCHANGED <<operation, terminals, evaluation>>
     /\ Finish(h)
     /\ UNCHANGED <<server, opportunity, rubric, admitted, crashes>>

-----------------------------------------------------------------------------
Crash ==
  /\ crashes < MaxCrashes
  /\ crashes' = crashes + 1
  /\ server' = "starting"
  /\ handler' = [h \in Handlers |-> Idle]
  /\ UNCHANGED tables

\* Every operation in one of the states is settled, in one commit.
Settled(states, as) ==
  /\ operation' = [o \in Operations |->
       IF operation[o].state \in states
         THEN [operation[o] EXCEPT !.state = as, !.revision = @ + 1] ELSE operation[o]]
  /\ terminals' = [o \in Operations |->
       terminals[o] + (IF operation[o].state \in states THEN 1 ELSE 0)]

\* Fault: only operations that were running are found.
ReconcileRunning ==
  /\ server = "starting"
  /\ Settled({"running"}, "indeterminate")
  /\ server' = "serving"
  /\ UNCHANGED <<evaluation, opportunity, rubric, admitted, handler, crashes>>

\* Fault: the category of the recovery is stored as the state.
ReconcileInterrupted ==
  /\ server = "starting"
  /\ Settled(Active, "restart_interrupted")
  /\ server' = "serving"
  /\ UNCHANGED <<evaluation, opportunity, rubric, admitted, handler, crashes>>

\* reconcileInterruptedOperations, before the server listens.  Evaluations and
\* the opportunity stay as they are.
Reconcile ==
  /\ server = "starting"
  /\ Settled(Active, "indeterminate")
  /\ server' = "serving"
  /\ UNCHANGED <<evaluation, opportunity, rubric, admitted, handler, crashes>>

Next ==
  \/ \E h \in Handlers :
       \/ \E o \in Operations :
            \/ \E route \in {"ordinary_dsh", "native_child"} : StartOperation(h, o, route)
            \/ \E phase \in {"started", "report", "followup", "deleted"} :
                 RecordActivity(h, o, phase)
            \/ \E state \in Terminal : TerminateOperation(h, o, state)
            \/ RequestCancellation(h, o)
            \/ RequestChildFollowup(h, o)
            \/ \E k \in Keys, e \in Evaluations : Evaluate(h, k, o, e)
       \/ AdmitOperation(h)
       \/ CommitOperation(h)
       \/ AdmitEvaluation(h)
       \/ ScoreFails(h)
       \/ CompleteEvaluation(h)
       \/ FailEvaluation(h)
  \/ Crash
  \/ Reconcile

Spec == Init /\ [][Next]_vars

\* The server awaits the reconciliation before it listens.
FairSpec == Spec /\ WF_vars(Reconcile)

-----------------------------------------------------------------------------
TypeOK ==
  /\ server \in {"serving", "starting"}
  /\ operation \in [Operations -> OperationRows]
  /\ terminals \in [Operations -> Nat]
  /\ evaluation \in [Evaluations -> EvaluationRows]
  /\ opportunity \in Nat /\ rubric \in Nat
  /\ admitted \in [Keys -> Admissions \cup {NotAdmitted}]
  /\ handler \in [Handlers -> Calls]
  /\ crashes \in Nat

\* SPEC.md 5.10: "Exactly one terminal record exists per operation", and nothing
\* takes it back, whoever of an agent's settlement, an evaluation, a late activity
\* and the recovery comes first.  A requested cancellation is not forgotten
\* either, though every handler writes back the whole operation as it read it.
NeverTakenBack ==
  [][\A o \in Operations :
       /\ operation[o].state \in Terminal =>
            /\ terminals[o] = 1 /\ terminals'[o] = 1
            /\ operation'[o].state = operation[o].state
            /\ operation'[o].resultIds = operation[o].resultIds
       /\ operation[o].canceling => operation'[o].canceling]_vars

\* An evaluation is settled together with the operation that carries it, and no
\* operation settles two: of two evaluations on one operation, two deliveries of
\* one request, or an evaluation and a terminal of its agent only one wins.
SettledTogether ==
  /\ \A e \in Evaluations :
       /\ evaluation[e].state = "completed" =>
            operation[evaluation[e].operation].state = "succeeded"
       /\ evaluation[e].state = "failed" =>
            operation[evaluation[e].operation].state = "failed"
  /\ \A e, f \in Evaluations :
       evaluation[e].state \in {"completed", "failed"}
       /\ evaluation[f].state \in {"completed", "failed"}
       /\ evaluation[e].operation = evaluation[f].operation => e = f

\* SPEC.md 16.3: after a restart every interrupted operation becomes terminal.
InterruptedAreSettled ==
  \A o \in Operations :
    (server = "starting" /\ operation[o].state \in Active)
      ~> (operation[o].state \in Terminal)

\* scripts/live-acceptance.ts:812 requires of an evaluation that was completed
\* that its operation names it as a result.
TerminalNamesItsResult ==
  \A e \in Evaluations :
    evaluation[e].state = "completed" =>
      e \in operation[evaluation[e].operation].resultIds
=============================================================================
