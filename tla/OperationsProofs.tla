--------------------------- MODULE OperationsProofs ---------------------------
(***************************************************************************)
(* For every number of handlers, operations, evaluations and commands: an  *)
(* operation that is terminal stays what it is, and an evaluation is       *)
(* settled together with its operation.  The code has no lock, so that the *)
(* argument is about stale records: the inductive invariant says what the  *)
(* record a handler is about to write has in common with the stored one    *)
(* while the stored one still has the revision the handler read, and says  *)
(* nothing about it afterwards.                                            *)
(***************************************************************************)
EXTENDS Operations, TLAPS

\* An operation exists from its first revision on.
ExistsInv ==
  \A o \in Operations :
    /\ operation[o].state = "absent" <=> operation[o].revision = 0
    /\ operation[o].state = "absent" => ~operation[o].canceling

\* One terminal event for a terminal operation and none for another.
TerminalsInv ==
  \A o \in Operations : terminals[o] = IF operation[o].state \in Terminal THEN 1 ELSE 0

EvaluationInv ==
  \A e \in Evaluations :
    /\ evaluation[e].state = "absent" <=> evaluation[e].revision = 0
    /\ evaluation[e].state = "running" <=> evaluation[e].revision = 1

\* What is written over an operation that has not changed since it was read.
Replaces(row, o) ==
  /\ row.state # "absent"
  /\ row.revision \in 1..operation[o].revision + 1
  /\ row.revision = operation[o].revision + 1 =>
       /\ operation[o].state \in Terminal =>
            /\ row.state = operation[o].state
            /\ row.resultIds = operation[o].resultIds
       /\ operation[o].canceling => row.canceling

\* What an admission left behind: its evaluation is on record, and its operation
\* is as it was admitted or has changed since.
Recorded(row, o, e) ==
  /\ evaluation[e].state # "absent" /\ evaluation[e].operation = o
  /\ row.state = "running"
  /\ row.revision \in 1..operation[o].revision
  /\ row.revision = operation[o].revision => operation[o] = row

\* An operation that does not exist is known to the handler that drew it alone.
FreshInv ==
  \A h \in Handlers :
    LET o == handler[h].operation IN
    /\ handler[h].step = "admitOperation" =>
         /\ operation[o].revision = 0
         /\ handler[h].row.state = "queued" /\ handler[h].row.revision = 1
    /\ handler[h].step # "idle" /\ operation[o].revision = 0 =>
         /\ handler[h].step \in {"admitOperation", "admitEvaluation"}
         /\ \A g \in Handlers \ {h} : handler[g].step # "idle" => handler[g].operation # o

\* So is the identity of an evaluation until it is admitted.
FreshEvaluationInv ==
  \A h \in Handlers : handler[h].step = "admitEvaluation" =>
    /\ evaluation[handler[h].fresh].state = "absent"
    /\ handler[h].evaluation = handler[h].fresh
    /\ \A g \in Handlers \ {h} : handler[g].step = "admitEvaluation" =>
                                   handler[g].fresh # handler[h].fresh

HandlerInv ==
  \A h \in Handlers :
    LET call == handler[h] IN
    /\ call.step \in {"write", "admitEvaluation"} => Replaces(call.row, call.operation)
    /\ call.step = "admitEvaluation" => call.row.state = "running"
    /\ call.step \in {"complete", "fail"} =>
         Recorded(call.row, call.operation, call.evaluation)

AdmittedInv ==
  \A k \in Keys : admitted[k] # NotAdmitted =>
    Recorded(admitted[k].row, admitted[k].operation, admitted[k].evaluation)

IInv ==
  /\ TypeOK /\ ExistsInv /\ TerminalsInv /\ EvaluationInv
  /\ FreshInv /\ FreshEvaluationInv /\ HandlerInv /\ AdmittedInv
  /\ SettledTogether

-------------------------------------------------------------------------------
LEMMA IdleType == Idle \in Calls
<1>1. /\ (CHOOSE k \in Keys : TRUE) \in Keys
      /\ (CHOOSE o \in Operations : TRUE) \in Operations
      /\ (CHOOSE e \in Evaluations : TRUE) \in Evaluations
  BY ConstantsAssumption
<1>2. NoRow \in OperationRows
  BY DEF NoRow, OperationRows, Routes
<1>3. QED
  BY <1>1, <1>2 DEF Idle, Calls, Steps

LEMMA RowType ==
  ASSUME NEW row \in OperationRows, NEW s \in {"absent"} \cup Active \cup Terminal
  PROVE  /\ [row EXCEPT !.revision = @ + 1] \in OperationRows
         /\ [row EXCEPT !.state = s, !.revision = @ + 1] \in OperationRows
         /\ \A results \in SUBSET Evaluations :
              /\ [row EXCEPT !.state = s, !.resultIds = results] \in OperationRows
              /\ [row EXCEPT !.state = s, !.revision = @ + 1, !.resultIds = results]
                   \in OperationRows
<1>1. row.revision \in Nat /\ row.revision + 1 \in Nat
  BY DEF OperationRows
<1>2. QED
  BY <1>1 DEF OperationRows

LEMMA InitType == Init => TypeOK
<1> SUFFICES ASSUME Init PROVE TypeOK
  OBVIOUS
<1>1. Idle \in Calls /\ NoRow \in OperationRows /\ Idle.operation \in Operations
  BY IdleType DEF Calls, NoRow, OperationRows, Routes
<1>2. evaluation \in [Evaluations -> EvaluationRows]
  BY <1>1 DEF Init, EvaluationRows
<1>3. QED
  BY <1>1, <1>2 DEF Init, TypeOK

\* What the handlers that only read compose is a call.
LEMMA MeansType ==
  ASSUME TypeOK, NEW h \in Handlers, NEW o \in Operations, NEW row \in OperationRows,
         Means(h, o, row)
  PROVE  TypeOK'
<1>1. [row EXCEPT !.revision = @ + 1] \in OperationRows
  BY DEF OperationRows
<1>2. handler' \in [Handlers -> Calls]
  BY <1>1, IdleType DEF Means, TypeOK, Calls, Steps
<1>3. QED
  BY <1>2 DEF Means, TypeOK, tables

LEMMA TerminalEventType ==
  ASSUME TypeOK, NEW o \in Operations, NEW row, TerminalEvent(o, row)
  PROVE  terminals' \in [Operations -> Nat]
BY DEF TypeOK, TerminalEvent

LEMMA TypeStep == TypeOK /\ [Next]_vars => TypeOK'
<1> SUFFICES ASSUME TypeOK, [Next]_vars PROVE TypeOK'
  OBVIOUS
<1>i. Idle \in Calls
  BY IdleType
<1>n. NoRow \in OperationRows
  BY DEF NoRow, OperationRows, Routes
<1>h. \A h \in Handlers : handler[h] \in Calls
  BY DEF TypeOK
<1>o. \A o \in Operations : operation[o] \in OperationRows
  BY DEF TypeOK
<1>1. ASSUME NEW h \in Handlers, NEW o \in Operations,
             NEW route \in {"ordinary_dsh", "native_child"}, StartOperation(h, o, route)
      PROVE  TypeOK'
  <2>1. [NoRow EXCEPT !.state = "queued", !.revision = 1, !.route = route] \in OperationRows
    BY DEF NoRow, OperationRows, Active, Routes
  <2>2. handler' \in [Handlers -> Calls]
    BY <1>1, <1>i, <2>1 DEF StartOperation, TypeOK, Calls, Steps
  <2>3. QED
    BY <2>2, <1>1 DEF StartOperation, TypeOK, tables
<1>2. ASSUME NEW h \in Handlers, AdmitOperation(h) PROVE TypeOK'
  <2>1. handler[h] \in Calls /\ handler[h].operation \in Operations
        /\ handler[h].row \in OperationRows
    BY <1>h DEF Calls
  <2>2. operation' \in [Operations -> OperationRows]
    BY <1>2, <2>1 DEF AdmitOperation, TypeOK
  <2>3. [handler[h].row EXCEPT !.state = "running", !.revision = @ + 1] \in OperationRows
    BY <2>1, RowType DEF Active
  <2>4. [handler[h] EXCEPT !.step = "write", !.row =
           [handler[h].row EXCEPT !.state = "running", !.revision = @ + 1]] \in Calls
    BY <2>1, <2>3 DEF Calls, Steps
  <2>5. handler' \in [Handlers -> Calls]
    <3>1. CASE Finish(h)
      BY <3>1, <1>i DEF Finish, TypeOK
    <3>2. CASE handler' = [handler EXCEPT ![h].step = "write", ![h].row.state = "running",
                                          ![h].row.revision = @ + 1]
      <4>1. handler' = [handler EXCEPT ![h] = [handler[h] EXCEPT !.step = "write", !.row =
               [handler[h].row EXCEPT !.state = "running", !.revision = @ + 1]]]
        BY <3>2, <2>1 DEF TypeOK, Calls, OperationRows
      <4>2. QED
        BY <4>1, <2>4 DEF TypeOK
    <3>3. QED
      BY <3>1, <3>2, <1>2 DEF AdmitOperation
  <2>6. QED
    BY <2>2, <2>5, <1>2 DEF AdmitOperation, TypeOK
<1>3. ASSUME NEW h \in Handlers, NEW o \in Operations,
             NEW phase \in {"started", "report", "followup", "deleted"},
             RecordActivity(h, o, phase)
      PROVE  TypeOK'
  <2>1. (IF phase \in {"started", "followup"}
           THEN [operation[o] EXCEPT !.state = "running"] ELSE operation[o]) \in OperationRows
    BY <1>o DEF OperationRows, Active
  <2>2. QED
    BY <1>3, <2>1, MeansType DEF RecordActivity
<1>4. ASSUME NEW h \in Handlers, NEW o \in Operations, NEW state \in Terminal,
             TerminateOperation(h, o, state)
      PROVE  TypeOK'
  <2>1. [operation[o] EXCEPT !.state = state, !.resultIds = {}] \in OperationRows
    BY <1>o DEF OperationRows
  <2>2. QED
    BY <1>4, <2>1, MeansType DEF TerminateOperation
<1>5. ASSUME NEW h \in Handlers, NEW o \in Operations,
             RequestCancellation(h, o) \/ RequestChildFollowup(h, o)
      PROVE  TypeOK'
  <2>1. [operation[o] EXCEPT !.canceling = TRUE] \in OperationRows
    BY <1>o DEF OperationRows
  <2>2. QED
    BY <1>5, <1>o, <2>1, MeansType DEF RequestCancellation, RequestChildFollowup
<1>6. ASSUME NEW h \in Handlers, CommitOperation(h) PROVE TypeOK'
  <2>1. handler[h].operation \in Operations /\ handler[h].row \in OperationRows
    BY <1>h DEF Calls
  <2>2. operation' \in [Operations -> OperationRows] /\ terminals' \in [Operations -> Nat]
    BY <1>6, <2>1, TerminalEventType DEF CommitOperation, TypeOK
  <2>3. QED
    BY <2>2, <1>6, <1>i DEF CommitOperation, Finish, TypeOK
<1>7. ASSUME NEW h \in Handlers, NEW o \in Operations, NEW k \in Keys,
             NEW e \in Evaluations, Evaluate(h, k, o, e)
      PROVE  TypeOK'
  <2> DEFINE row == IF Names[k] = NoOperation
                      THEN [NoRow EXCEPT !.state = "running", !.revision = 1]
                      ELSE [operation[o] EXCEPT !.revision = @ + 1]
  <2>0. [NoRow EXCEPT !.state = "running", !.revision = 1] \in OperationRows
    BY DEF OperationRows, NoRow, Active, Routes
  <2>1. row \in OperationRows
    BY <2>0, <1>o, RowType
  <2>2. handler' \in [Handlers -> Calls]
    BY <1>7, <2>1 DEF Evaluate, TypeOK, Calls, Steps
  <2>3. QED
    BY <2>2, <1>7 DEF Evaluate, TypeOK, tables
<1>8. ASSUME NEW h \in Handlers, AdmitEvaluation(h) PROVE TypeOK'
  <2> DEFINE call == handler[h]
             prior == admitted[call.key]
  <2>1. call \in Calls /\ call.key \in Keys /\ call.operation \in Operations
        /\ call.row \in OperationRows /\ call.fresh \in Evaluations
    BY <1>h DEF Calls
  <2>2. CASE /\ prior # NotAdmitted
             /\ handler' = [handler EXCEPT ![h] =
                  [call EXCEPT !.step = "complete", !.operation = prior.operation,
                               !.row = prior.row, !.evaluation = prior.evaluation,
                               !.opportunity = prior.opportunity]]
             /\ UNCHANGED tables
    <3>1. prior \in Admissions
      BY <2>1, <2>2 DEF TypeOK
    <3>2. [call EXCEPT !.step = "complete", !.operation = prior.operation,
                       !.row = prior.row, !.evaluation = prior.evaluation,
                       !.opportunity = prior.opportunity] \in Calls
      BY <2>1, <3>1 DEF Calls, Steps, Admissions
    <3>3. handler' \in [Handlers -> Calls]
      BY <2>2, <3>2 DEF TypeOK
    <3>4. QED
      BY <3>3, <2>2, <1>8 DEF AdmitEvaluation, TypeOK, tables
  <2>3. CASE /\ operation' = [operation EXCEPT ![call.operation] = call.row]
             /\ evaluation' = [evaluation EXCEPT ![call.fresh] =
                               [state |-> "running", revision |-> 1,
                                operation |-> call.operation]]
             /\ opportunity' = opportunity + 1
             /\ admitted' = [admitted EXCEPT ![call.key] =
                             [operation   |-> call.operation,
                              row         |-> call.row,
                              evaluation  |-> call.fresh,
                              opportunity |-> opportunity + 1]]
             /\ handler' = [handler EXCEPT ![h].step = "complete", ![h].opportunity = @ + 1]
             /\ UNCHANGED <<terminals, rubric>>
    <3>1. operation' \in [Operations -> OperationRows]
      BY <2>1, <2>3 DEF TypeOK
    <3>2. evaluation' \in [Evaluations -> EvaluationRows]
      BY <2>1, <2>3 DEF TypeOK, EvaluationRows
    <3>3. admitted' \in [Keys -> Admissions \cup {NotAdmitted}]
      BY <2>1, <2>3 DEF TypeOK, Admissions
    <3>4. handler' \in [Handlers -> Calls]
      BY <2>1, <2>3 DEF TypeOK, Calls, Steps
    <3>5. QED
      BY <3>1, <3>2, <3>3, <3>4, <2>3, <1>8 DEF AdmitEvaluation, TypeOK
  <2>4. CASE Finish(h) /\ UNCHANGED tables
    BY <2>4, <1>8, <1>i DEF AdmitEvaluation, Finish, TypeOK, tables
  <2>5. QED
    BY <2>2, <2>3, <2>4, <1>8 DEF AdmitEvaluation
<1>9. ASSUME NEW h \in Handlers, ScoreFails(h) PROVE TypeOK'
  <2>1. handler' \in [Handlers -> Calls]
    BY <1>9, <1>h DEF ScoreFails, TypeOK, Calls, Steps
  <2>2. QED
    BY <2>1, <1>9 DEF ScoreFails, TypeOK, tables
<1>10. ASSUME NEW h \in Handlers, CompleteEvaluation(h) PROVE TypeOK'
  <2> DEFINE call == handler[h]
             row == [call.row EXCEPT !.state = "succeeded", !.revision = @ + 1,
                                     !.resultIds = {call.fresh}]
  <2>1. call \in Calls /\ call.operation \in Operations /\ call.row \in OperationRows
        /\ call.evaluation \in Evaluations /\ call.fresh \in Evaluations
    BY <1>h DEF Calls
  <2>r. row \in OperationRows
    BY <2>1, RowType DEF Terminal
  <2>2. CASE /\ evaluation' = [evaluation EXCEPT ![call.evaluation].state = "completed",
                                                 ![call.evaluation].revision = @ + 1]
             /\ operation' = [operation EXCEPT ![call.operation] = row]
             /\ TerminalEvent(call.operation, row)
             /\ opportunity' = opportunity + 1
             /\ rubric' = rubric + 1
             /\ Finish(h)
             /\ UNCHANGED admitted
    <3>1. operation' \in [Operations -> OperationRows] /\ terminals' \in [Operations -> Nat]
      BY <2>1, <2>r, <2>2, TerminalEventType DEF TypeOK
    <3>2. evaluation' \in [Evaluations -> EvaluationRows]
      BY <2>1, <2>2 DEF TypeOK, EvaluationRows
    <3>3. QED
      BY <3>1, <3>2, <2>2, <1>10, <1>i DEF CompleteEvaluation, Finish, TypeOK
  <2>3. CASE /\ handler' = [handler EXCEPT ![h].step = "fail"]
             /\ UNCHANGED tables
    <3>1. handler' \in [Handlers -> Calls]
      BY <2>3, <2>1 DEF TypeOK, Calls, Steps
    <3>2. QED
      BY <3>1, <2>3, <1>10 DEF CompleteEvaluation, TypeOK, tables
  <2>4. QED
    BY <2>2, <2>3, <1>10 DEF CompleteEvaluation
<1>11. ASSUME NEW h \in Handlers, FailEvaluation(h) PROVE TypeOK'
  <2> DEFINE call == handler[h]
             row == [call.row EXCEPT !.state = "failed", !.revision = @ + 1]
  <2>1. call \in Calls /\ call.operation \in Operations /\ call.row \in OperationRows
        /\ call.evaluation \in Evaluations /\ call.fresh \in Evaluations
    BY <1>h DEF Calls
  <2>r. row \in OperationRows
    BY <2>1, RowType DEF Terminal
  <2>2. operation' \in [Operations -> OperationRows] /\ terminals' \in [Operations -> Nat]
    BY <2>1, <2>r, <1>11, TerminalEventType DEF FailEvaluation, TypeOK
  <2>3. evaluation' \in [Evaluations -> EvaluationRows]
    BY <2>1, <1>11 DEF FailEvaluation, TypeOK, EvaluationRows
  <2>4. QED
    BY <2>2, <2>3, <1>11, <1>i DEF FailEvaluation, Finish, TypeOK
<1>12. CASE Crash
  BY <1>12, <1>i, ConstantsAssumption DEF Crash, TypeOK, tables
<1>13. CASE Reconcile
  <2>1. Settled(Active, "indeterminate")
    BY <1>13 DEF Reconcile
  <2>2. \A o \in Operations :
          [operation[o] EXCEPT !.state = "indeterminate", !.revision = @ + 1] \in OperationRows
    BY <1>o, RowType DEF Terminal
  <2>3. operation' \in [Operations -> OperationRows]
    BY <2>1, <2>2, <1>o DEF Settled
  <2>4. ASSUME NEW o \in Operations
        PROVE  terminals[o] + (IF operation[o].state \in Active THEN 1 ELSE 0) \in Nat
    <3>1. terminals[o] \in Nat
      BY DEF TypeOK
    <3>2. CASE operation[o].state \in Active
      BY <3>1, <3>2
    <3>3. CASE operation[o].state \notin Active
      BY <3>1, <3>3
    <3>4. QED
      BY <3>2, <3>3
  <2>5. terminals' \in [Operations -> Nat]
    BY <2>1, <2>4 DEF Settled
  <2>6. QED
    BY <2>3, <2>5, <1>13 DEF Reconcile, TypeOK
<1>14. CASE UNCHANGED vars
  BY <1>14 DEF vars, tables, TypeOK
<1>15. QED
  BY <1>1, <1>2, <1>3, <1>4, <1>5, <1>6, <1>7, <1>8, <1>9, <1>10, <1>11, <1>12, <1>13, <1>14
     DEF Next

-------------------------------------------------------------------------------
\* What a step may do to an operation: leave it alone, or raise its revision and
\* keep the outcome of a terminal one and the request to cancel.
Advances(o) ==
  \/ operation'[o] = operation[o]
  \/ /\ operation'[o].revision = operation[o].revision + 1
     /\ operation'[o].state # "absent"
     /\ operation[o].state \in Terminal =>
          /\ operation'[o].state = operation[o].state
          /\ operation'[o].resultIds = operation[o].resultIds
     /\ operation[o].canceling => operation'[o].canceling

\* Only commits change the tables.
LEMMA Commits ==
  ASSUME [Next]_vars
  PROVE  \/ UNCHANGED tables
         \/ Reconcile
         \/ \E h \in Handlers : \/ AdmitOperation(h) \/ CommitOperation(h)
                                \/ AdmitEvaluation(h)
                                \/ CompleteEvaluation(h) \/ FailEvaluation(h)
<1>1. ASSUME NEW h \in Handlers, NEW o \in Operations,
             \/ \E route \in {"ordinary_dsh", "native_child"} : StartOperation(h, o, route)
             \/ \E k \in Keys, e \in Evaluations : Evaluate(h, k, o, e)
      PROVE  UNCHANGED tables
  BY <1>1 DEF StartOperation, Evaluate
<1>2. ASSUME NEW h \in Handlers, NEW o \in Operations, NEW row, Means(h, o, row)
      PROVE  UNCHANGED tables
  BY <1>2 DEF Means
<1>3. ASSUME NEW h \in Handlers, NEW o \in Operations,
             \/ \E phase \in {"started", "report", "followup", "deleted"} :
                  RecordActivity(h, o, phase)
             \/ \E state \in Terminal : TerminateOperation(h, o, state)
             \/ RequestCancellation(h, o) \/ RequestChildFollowup(h, o)
      PROVE  UNCHANGED tables
  BY <1>3, <1>2 DEF RecordActivity, TerminateOperation, RequestCancellation,
                    RequestChildFollowup
<1>4. ASSUME NEW h \in Handlers, ScoreFails(h) PROVE UNCHANGED tables
  BY <1>4 DEF ScoreFails
<1>5. CASE Crash \/ UNCHANGED vars
  BY <1>5 DEF Crash, vars
<1>6. QED
  BY <1>1, <1>3, <1>4, <1>5 DEF Next

LEMMA OperationAdvances ==
  ASSUME IInv, [Next]_vars, NEW o \in Operations
  PROVE  Advances(o)
<1>t. /\ operation \in [Operations -> OperationRows]
      /\ \A p \in Operations : operation[p].revision \in Nat
  BY DEF IInv, TypeOK, OperationRows
<1>h. \A h \in Handlers : /\ handler[h].operation \in Operations
                          /\ handler[h].row \in OperationRows
                          /\ handler[h].row.revision \in Nat
  BY DEF IInv, TypeOK, Calls, OperationRows
<1>1. ASSUME NEW h \in Handlers, AdmitOperation(h) PROVE Advances(o)
  BY <1>1, <1>t DEF AdmitOperation, Advances, IInv, FreshInv, ExistsInv, Terminal
<1>2. ASSUME NEW h \in Handlers, CommitOperation(h) PROVE Advances(o)
  <2>1. Replaces(handler[h].row, handler[h].operation)
    BY <1>2 DEF CommitOperation, IInv, HandlerInv
  <2>2. QED
    BY <1>2, <1>t, <1>h, <2>1 DEF CommitOperation, Replaces, Advances
<1>3. ASSUME NEW h \in Handlers, AdmitEvaluation(h) PROVE Advances(o)
  <2>1. Replaces(handler[h].row, handler[h].operation)
    BY <1>3 DEF AdmitEvaluation, IInv, HandlerInv
  <2>2. QED
    BY <1>3, <1>t, <1>h, <2>1 DEF AdmitEvaluation, Replaces, Advances, tables
<1>s. ASSUME NEW h \in Handlers, NEW row,
             Recorded(handler[h].row, handler[h].operation, handler[h].evaluation),
             operation[handler[h].operation].revision = handler[h].row.revision,
             operation' = [operation EXCEPT ![handler[h].operation] = row],
             row.revision = handler[h].row.revision + 1,
             row.state # "absent", row.canceling = handler[h].row.canceling
      PROVE  Advances(o)
  <2>1. operation[handler[h].operation] = handler[h].row /\ handler[h].row.state = "running"
    BY <1>s DEF Recorded
  <2>2. QED
    BY <1>s, <1>t, <1>h, <2>1 DEF Advances, Terminal
<1>4. ASSUME NEW h \in Handlers, CompleteEvaluation(h) PROVE Advances(o)
  <2> DEFINE row == [handler[h].row EXCEPT !.state = "succeeded", !.revision = @ + 1,
                                           !.resultIds = {handler[h].fresh}]
  <2>1. Recorded(handler[h].row, handler[h].operation, handler[h].evaluation)
    BY <1>4 DEF CompleteEvaluation, IInv, HandlerInv
  <2>2. /\ row.revision = handler[h].row.revision + 1
        /\ row.state # "absent" /\ row.canceling = handler[h].row.canceling
    BY <1>h DEF OperationRows
  <2>3. \/ UNCHANGED operation
        \/ /\ operation[handler[h].operation].revision = handler[h].row.revision
           /\ operation' = [operation EXCEPT ![handler[h].operation] = row]
    BY <1>4 DEF CompleteEvaluation, tables
  <2>4. CASE UNCHANGED operation
    BY <2>4 DEF Advances
  <2>5. QED
    BY <1>s, <2>1, <2>2, <2>3, <2>4
<1>5. ASSUME NEW h \in Handlers, FailEvaluation(h) PROVE Advances(o)
  <2> DEFINE row == [handler[h].row EXCEPT !.state = "failed", !.revision = @ + 1]
  <2>1. Recorded(handler[h].row, handler[h].operation, handler[h].evaluation)
    BY <1>5 DEF FailEvaluation, IInv, HandlerInv
  <2>2. /\ row.revision = handler[h].row.revision + 1
        /\ row.state # "absent" /\ row.canceling = handler[h].row.canceling
    BY <1>h DEF OperationRows
  <2>3. \/ UNCHANGED operation
        \/ /\ operation[handler[h].operation].revision = handler[h].row.revision
           /\ operation' = [operation EXCEPT ![handler[h].operation] = row]
    BY <1>5 DEF FailEvaluation, tables
  <2>4. CASE UNCHANGED operation
    BY <2>4 DEF Advances
  <2>5. QED
    BY <1>s, <2>1, <2>2, <2>3, <2>4
<1>6. CASE Reconcile
  <2>1. operation'[o] = IF operation[o].state \in Active
                          THEN [operation[o] EXCEPT !.state = "indeterminate",
                                                    !.revision = @ + 1]
                          ELSE operation[o]
    BY <1>6 DEF Reconcile, Settled
  <2>2. CASE operation[o].state \in Active
    <3>1. operation[o] \in OperationRows /\ operation[o].state \notin Terminal
      BY <1>t, <2>2 DEF Active, Terminal
    <3>2. /\ operation'[o].revision = operation[o].revision + 1
          /\ operation'[o].state = "indeterminate"
          /\ operation'[o].canceling = operation[o].canceling
      BY <2>1, <2>2, <3>1 DEF OperationRows
    <3>3. QED
      BY <3>1, <3>2 DEF Advances
  <2>3. CASE operation[o].state \notin Active
    BY <2>1, <2>3 DEF Advances
  <2>4. QED
    BY <2>2, <2>3
<1>7. CASE UNCHANGED operation
  BY <1>7 DEF Advances
<1>8. QED
  BY <1>1, <1>2, <1>3, <1>4, <1>5, <1>6, <1>7, Commits DEF tables

\* An evaluation begins to run when it is admitted and is settled once, together
\* with its operation.
LEMMA EvaluationAdvances ==
  ASSUME IInv, [Next]_vars, NEW e \in Evaluations
  PROVE  \/ evaluation'[e] = evaluation[e]
         \/ /\ evaluation[e].state = "absent"
            /\ evaluation'[e].state = "running" /\ evaluation'[e].revision = 1
         \/ /\ evaluation[e].state = "running" /\ evaluation'[e].revision = 2
            /\ evaluation'[e].operation = evaluation[e].operation
            /\ operation[evaluation[e].operation].state = "running"
            /\ \/ /\ evaluation'[e].state = "completed"
                  /\ operation'[evaluation[e].operation].state = "succeeded"
               \/ /\ evaluation'[e].state = "failed"
                  /\ operation'[evaluation[e].operation].state = "failed"
            /\ \A f \in Evaluations \ {e} : evaluation'[f] = evaluation[f]
<1> DEFINE Goal ==
         \/ evaluation'[e] = evaluation[e]
         \/ /\ evaluation[e].state = "absent"
            /\ evaluation'[e].state = "running" /\ evaluation'[e].revision = 1
         \/ /\ evaluation[e].state = "running" /\ evaluation'[e].revision = 2
            /\ evaluation'[e].operation = evaluation[e].operation
            /\ operation[evaluation[e].operation].state = "running"
            /\ \/ /\ evaluation'[e].state = "completed"
                  /\ operation'[evaluation[e].operation].state = "succeeded"
               \/ /\ evaluation'[e].state = "failed"
                  /\ operation'[evaluation[e].operation].state = "failed"
            /\ \A f \in Evaluations \ {e} : evaluation'[f] = evaluation[f]
<1>t. /\ operation \in [Operations -> OperationRows]
      /\ evaluation \in [Evaluations -> EvaluationRows]
      /\ \A p \in Operations : operation[p].revision \in Nat
  BY DEF IInv, TypeOK, OperationRows
<1>h. \A h \in Handlers : /\ handler[h].operation \in Operations
                          /\ handler[h].row \in OperationRows
                          /\ handler[h].row.revision \in Nat
                          /\ handler[h].evaluation \in Evaluations
  BY DEF IInv, TypeOK, Calls, OperationRows
<1>1. ASSUME NEW h \in Handlers, AdmitEvaluation(h) PROVE Goal
  <2>1. evaluation[handler[h].fresh].state = "absent"
    BY <1>1 DEF AdmitEvaluation, IInv, FreshEvaluationInv
  <2>2. QED
    BY <1>1, <1>t, <1>h, <2>1 DEF AdmitEvaluation, tables
<1>s. ASSUME NEW h \in Handlers, NEW row, NEW state \in {"completed", "failed"},
             Recorded(handler[h].row, handler[h].operation, handler[h].evaluation),
             operation[handler[h].operation].revision = handler[h].row.revision,
             operation' = [operation EXCEPT ![handler[h].operation] = row],
             row.state = IF state = "completed" THEN "succeeded" ELSE "failed",
             evaluation[handler[h].evaluation].revision = 1,
             evaluation' = [evaluation EXCEPT ![handler[h].evaluation].state = state,
                                              ![handler[h].evaluation].revision = @ + 1]
      PROVE  Goal
  <2> DEFINE f == handler[h].evaluation
  <2>1. /\ operation[handler[h].operation].state = "running"
        /\ evaluation[f].operation = handler[h].operation
    BY <1>s DEF Recorded
  <2>2. evaluation[f].state = "running" /\ evaluation[f] \in EvaluationRows
    BY <1>s, <1>h, <1>t DEF IInv, EvaluationInv
  <2>3. /\ evaluation'[f].state = state /\ evaluation'[f].revision = 2
        /\ evaluation'[f].operation = evaluation[f].operation
        /\ \A g \in Evaluations \ {f} : evaluation'[g] = evaluation[g]
    BY <1>s, <1>h, <1>t, <2>2 DEF EvaluationRows
  <2>4. operation'[handler[h].operation].state = row.state
    BY <1>s, <1>h, <1>t
  <2>5. QED
    BY <1>s, <1>h, <2>1, <2>2, <2>3, <2>4
<1>2. ASSUME NEW h \in Handlers, CompleteEvaluation(h) PROVE Goal
  <2> DEFINE row == [handler[h].row EXCEPT !.state = "succeeded", !.revision = @ + 1,
                                           !.resultIds = {handler[h].fresh}]
  <2>1. Recorded(handler[h].row, handler[h].operation, handler[h].evaluation)
    BY <1>2 DEF CompleteEvaluation, IInv, HandlerInv
  <2>2. row.state = "succeeded"
    BY <1>h DEF OperationRows
  <2>3. CASE UNCHANGED evaluation
    BY <2>3
  <2>4. CASE evaluation' # evaluation
    <3>1. /\ operation[handler[h].operation].revision = handler[h].row.revision
          /\ operation' = [operation EXCEPT ![handler[h].operation] = row]
          /\ evaluation[handler[h].evaluation].revision = 1
          /\ evaluation' = [evaluation EXCEPT ![handler[h].evaluation].state = "completed",
                                              ![handler[h].evaluation].revision = @ + 1]
      BY <1>2, <2>4 DEF CompleteEvaluation, tables
    <3>2. QED
      BY <1>s, <2>1, <2>2, <3>1
  <2>5. QED
    BY <2>3, <2>4
<1>3. ASSUME NEW h \in Handlers, FailEvaluation(h) PROVE Goal
  <2> DEFINE row == [handler[h].row EXCEPT !.state = "failed", !.revision = @ + 1]
  <2>1. Recorded(handler[h].row, handler[h].operation, handler[h].evaluation)
    BY <1>3 DEF FailEvaluation, IInv, HandlerInv
  <2>2. row.state = "failed"
    BY <1>h DEF OperationRows
  <2>3. CASE UNCHANGED evaluation
    BY <2>3
  <2>4. CASE evaluation' # evaluation
    <3>1. /\ operation[handler[h].operation].revision = handler[h].row.revision
          /\ operation' = [operation EXCEPT ![handler[h].operation] = row]
          /\ evaluation[handler[h].evaluation].revision = 1
          /\ evaluation' = [evaluation EXCEPT ![handler[h].evaluation].state = "failed",
                                              ![handler[h].evaluation].revision = @ + 1]
      BY <1>3, <2>4 DEF FailEvaluation
    <3>2. QED
      BY <1>s, <2>1, <2>2, <3>1
  <2>5. QED
    BY <2>3, <2>4
<1>4. CASE UNCHANGED evaluation
  BY <1>4
<1>5. QED
  BY <1>1, <1>2, <1>3, <1>4, Commits DEF tables, AdmitOperation, CommitOperation, Reconcile

LEMMA TablesStep ==
  IInv /\ [Next]_vars => ExistsInv' /\ EvaluationInv' /\ SettledTogether'
<1> SUFFICES ASSUME IInv, [Next]_vars
             PROVE  ExistsInv' /\ EvaluationInv' /\ SettledTogether'
  OBVIOUS
<1>t. /\ \A o \in Operations : operation[o].revision \in Nat
      /\ \A e \in Evaluations : /\ evaluation[e] \in EvaluationRows
                                /\ evaluation[e].operation \in Operations
                                /\ evaluation[e].revision \in Nat
  BY DEF IInv, TypeOK, OperationRows, EvaluationRows
<1>1. ExistsInv'
  <2> SUFFICES ASSUME NEW o \in Operations
               PROVE  /\ operation'[o].state = "absent" <=> operation'[o].revision = 0
                      /\ operation'[o].state = "absent" => ~operation'[o].canceling
    BY DEF ExistsInv
  <2>1. QED
    BY <1>t, OperationAdvances DEF Advances, IInv, ExistsInv
<1>2. EvaluationInv'
  <2> SUFFICES ASSUME NEW e \in Evaluations
               PROVE  /\ evaluation'[e].state = "absent" <=> evaluation'[e].revision = 0
                      /\ evaluation'[e].state = "running" <=> evaluation'[e].revision = 1
    BY DEF EvaluationInv
  <2>1. QED
    BY <1>t, EvaluationAdvances DEF IInv, EvaluationInv
<1>3. ASSUME NEW e \in Evaluations
      PROVE  /\ evaluation'[e].state = "completed" =>
                  operation'[evaluation'[e].operation].state = "succeeded"
             /\ evaluation'[e].state = "failed" =>
                  operation'[evaluation'[e].operation].state = "failed"
  <2>1. CASE evaluation'[e] = evaluation[e]
    BY <2>1, <1>t, OperationAdvances DEF Advances, IInv, SettledTogether, Terminal
  <2>2. CASE evaluation'[e] # evaluation[e]
    BY <2>2, <1>t, EvaluationAdvances
  <2>3. QED
    BY <2>1, <2>2
<1>4. ASSUME NEW e \in Evaluations, NEW f \in Evaluations, e # f,
             evaluation'[e].state \in {"completed", "failed"},
             evaluation'[f].state \in {"completed", "failed"},
             evaluation'[e].operation = evaluation'[f].operation
      PROVE  FALSE
  \* Of two, one was settled before this step, and then their operation was terminal.
  <2>1. ASSUME NEW x \in Evaluations, NEW y \in Evaluations, x # y,
               evaluation'[x] # evaluation[x],
               evaluation'[x].state \in {"completed", "failed"},
               evaluation'[y].state \in {"completed", "failed"},
               evaluation'[x].operation = evaluation'[y].operation
        PROVE  FALSE
    <3>1. /\ evaluation'[x].operation = evaluation[x].operation
          /\ operation[evaluation[x].operation].state = "running"
          /\ evaluation'[y] = evaluation[y]
      BY <2>1, EvaluationAdvances
    <3>2. operation[evaluation[y].operation].state \in {"succeeded", "failed"}
      BY <2>1, <3>1 DEF IInv, SettledTogether
    <3>3. QED
      BY <2>1, <3>1, <3>2
  <2>2. CASE evaluation'[e] = evaluation[e] /\ evaluation'[f] = evaluation[f]
    BY <1>4, <2>2 DEF IInv, SettledTogether
  <2>3. QED
    BY <1>4, <2>1, <2>2
<1>5. QED
  BY <1>1, <1>2, <1>3, <1>4 DEF SettledTogether

\* Every commit that makes an operation terminal records the one event of it.
LEMMA TerminalsStep == IInv /\ [Next]_vars => TerminalsInv'
<1> SUFFICES ASSUME IInv, [Next]_vars, NEW o \in Operations
             PROVE  terminals'[o] = IF operation'[o].state \in Terminal THEN 1 ELSE 0
  BY DEF TerminalsInv
<1>a. Advances(o)
  BY OperationAdvances
<1>t. /\ operation \in [Operations -> OperationRows]
      /\ terminals \in [Operations -> Nat]
      /\ terminals[o] = IF operation[o].state \in Terminal THEN 1 ELSE 0
      /\ \A h \in Handlers : handler[h].operation \in Operations
  BY DEF IInv, TypeOK, TerminalsInv, Calls
<1>1. ASSUME NEW p \in Operations, NEW row, TerminalEvent(p, row),
             operation' = [operation EXCEPT ![p] = row]
      PROVE  terminals'[o] = IF operation'[o].state \in Terminal THEN 1 ELSE 0
  <2>1. CASE p = o
    BY <1>1, <2>1, <1>t, <1>a DEF TerminalEvent, Advances
  <2>2. CASE p # o
    BY <1>1, <2>2, <1>t DEF TerminalEvent
  <2>3. QED
    BY <2>1, <2>2
<1>2. ASSUME UNCHANGED terminals,
             \/ operation'[o] = operation[o]
             \/ operation[o].state \notin Terminal /\ operation'[o].state \notin Terminal
      PROVE  terminals'[o] = IF operation'[o].state \in Terminal THEN 1 ELSE 0
  BY <1>2, <1>t
<1>3. ASSUME NEW h \in Handlers, AdmitOperation(h)
      PROVE  terminals'[o] = IF operation'[o].state \in Terminal THEN 1 ELSE 0
  <2>1. /\ operation[handler[h].operation].state = "absent"
        /\ handler[h].row.state = "queued"
    BY <1>3, <1>t DEF AdmitOperation, IInv, FreshInv, ExistsInv
  <2>2. QED
    BY <1>3, <2>1, <1>2, <1>t DEF AdmitOperation, Terminal
<1>4. ASSUME NEW h \in Handlers, CommitOperation(h)
      PROVE  terminals'[o] = IF operation'[o].state \in Terminal THEN 1 ELSE 0
  BY <1>4, <1>1, <1>2, <1>t DEF CommitOperation
<1>5. ASSUME NEW h \in Handlers, AdmitEvaluation(h)
      PROVE  terminals'[o] = IF operation'[o].state \in Terminal THEN 1 ELSE 0
  <2>1. CASE UNCHANGED tables
    BY <2>1, <1>2 DEF tables
  <2>2. CASE /\ operation' = [operation EXCEPT ![handler[h].operation] = handler[h].row]
             /\ UNCHANGED <<terminals, rubric>>
             /\ operation[handler[h].operation].revision + 1 = handler[h].row.revision
    <3>1. handler[h].row.state = "running"
          /\ Replaces(handler[h].row, handler[h].operation)
      BY <1>5 DEF AdmitEvaluation, IInv, HandlerInv
    <3>2. operation[handler[h].operation].state \notin Terminal
      BY <2>2, <3>1 DEF Replaces, Terminal
    <3>3. QED
      BY <2>2, <3>1, <3>2, <1>2, <1>t DEF Terminal
  <2>3. QED
    BY <1>5, <2>1, <2>2 DEF AdmitEvaluation
<1>6. ASSUME NEW h \in Handlers, CompleteEvaluation(h)
      PROVE  terminals'[o] = IF operation'[o].state \in Terminal THEN 1 ELSE 0
  BY <1>6, <1>1, <1>2, <1>t DEF CompleteEvaluation, tables
<1>7. ASSUME NEW h \in Handlers, FailEvaluation(h)
      PROVE  terminals'[o] = IF operation'[o].state \in Terminal THEN 1 ELSE 0
  BY <1>7, <1>1, <1>2, <1>t DEF FailEvaluation
<1>8. CASE Reconcile
  <2>1. /\ operation'[o] = IF operation[o].state \in Active
                             THEN [operation[o] EXCEPT !.state = "indeterminate",
                                                       !.revision = @ + 1]
                             ELSE operation[o]
        /\ terminals'[o] = terminals[o] + (IF operation[o].state \in Active THEN 1 ELSE 0)
    BY <1>8 DEF Reconcile, Settled
  <2>2. CASE operation[o].state \in Active
    <3>1. operation'[o].state = "indeterminate"
      BY <2>1, <2>2, <1>t DEF OperationRows
    <3>2. QED
      BY <2>1, <2>2, <3>1, <1>t DEF Active, Terminal
  <2>3. CASE operation[o].state \notin Active
    BY <2>1, <2>3, <1>t
  <2>4. QED
    BY <2>2, <2>3
<1>9. CASE UNCHANGED tables
  BY <1>9, <1>2 DEF tables
<1>10. QED
  BY <1>3, <1>4, <1>5, <1>6, <1>7, <1>8, <1>9, Commits

-------------------------------------------------------------------------------
\* What was known of a record that was read or admitted survives every step: either
\* the stored record is the same, or its revision is another one for good.
LEMMA ReplacesKept ==
  ASSUME IInv, [Next]_vars, NEW row \in OperationRows, NEW o \in Operations,
         Replaces(row, o)
  PROVE  Replaces(row, o)'
<1>1. operation[o].revision \in Nat /\ row.revision \in Nat
  BY DEF IInv, TypeOK, OperationRows
<1>2. Advances(o)
  BY OperationAdvances
<1>3. QED
  BY <1>1, <1>2 DEF Replaces, Advances

LEMMA RecordedKept ==
  ASSUME IInv, [Next]_vars, NEW row \in OperationRows, NEW o \in Operations,
         NEW e \in Evaluations, Recorded(row, o, e)
  PROVE  Recorded(row, o, e)'
<1>1. operation[o].revision \in Nat /\ row.revision \in Nat
  BY DEF IInv, TypeOK, OperationRows
<1>2. Advances(o)
  BY OperationAdvances
<1>3. evaluation'[e].state # "absent" /\ evaluation'[e].operation = o
  BY EvaluationAdvances DEF Recorded
<1>4. QED
  BY <1>1, <1>2, <1>3 DEF Recorded, Advances

\* A handler is what it was, or idle, or has taken a step of its own.
Reads(h) ==
  \E o \in Operations :
    \/ \E phase \in {"started", "report", "followup", "deleted"} : RecordActivity(h, o, phase)
    \/ \E state \in Terminal : TerminateOperation(h, o, state)
    \/ RequestCancellation(h, o)
    \/ RequestChildFollowup(h, o)

Draws(h) ==
  \E o \in Operations :
    \/ \E route \in {"ordinary_dsh", "native_child"} : StartOperation(h, o, route)
    \/ \E k \in Keys, e \in Evaluations : Evaluate(h, k, o, e)

Proceeds(h) == AdmitOperation(h) \/ AdmitEvaluation(h) \/ ScoreFails(h) \/ CompleteEvaluation(h)

LEMMA ProceedsTo ==
  ASSUME TypeOK, NEW h \in Handlers, Proceeds(h) \/ CommitOperation(h) \/ FailEvaluation(h)
  PROVE  /\ handler[h].step # "idle"
         /\ \/ handler'[h] = Idle
            \/ handler'[h].step \in {"complete", "fail"}
            \/ /\ AdmitOperation(h) /\ handler'[h].step = "write"
               /\ handler'[h].operation = handler[h].operation
<1>t. handler \in [Handlers -> Calls] /\ handler[h] \in Calls
  BY DEF TypeOK
<1>1. CASE AdmitOperation(h)
  BY <1>1, <1>t DEF AdmitOperation, Finish, Calls
<1>2. CASE AdmitEvaluation(h)
  <2>1. /\ handler[h].step = "admitEvaluation"
        /\ \/ Finish(h)
           \/ \E prior : handler' = [handler EXCEPT ![h] =
                [handler[h] EXCEPT !.step = "complete", !.operation = prior.operation,
                                   !.row = prior.row, !.evaluation = prior.evaluation,
                                   !.opportunity = prior.opportunity]]
           \/ handler' = [handler EXCEPT ![h].step = "complete", ![h].opportunity = @ + 1]
    BY <1>2 DEF AdmitEvaluation
  <2>2. QED
    BY <2>1, <1>t DEF Finish, Calls
<1>3. CASE ScoreFails(h)
  BY <1>3, <1>t DEF ScoreFails, Calls
<1>4. CASE CompleteEvaluation(h)
  BY <1>4, <1>t DEF CompleteEvaluation, Finish, Calls
<1>5. CASE CommitOperation(h) \/ FailEvaluation(h)
  BY <1>5, <1>t DEF CommitOperation, FailEvaluation, Finish
<1>6. QED
  BY <1>1, <1>2, <1>3, <1>4, <1>5 DEF Proceeds

\* Where g is not the handler that acts, or acts last.
Rests(g) == handler'[g] = handler[g] \/ handler'[g] = Idle

LEMMA Acts ==
  ASSUME TypeOK, [Next]_vars
  PROVE  \/ \A g \in Handlers : Rests(g)
         \/ \E h \in Handlers : /\ Reads(h) \/ Draws(h) \/ Proceeds(h)
                                /\ \A g \in Handlers \ {h} : handler'[g] = handler[g]
<1>t. handler \in [Handlers -> Calls]
  BY DEF TypeOK
<1>1. ASSUME NEW h \in Handlers, NEW o \in Operations, NEW row, Means(h, o, row),
             NEW g \in Handlers \ {h}
      PROVE  handler'[g] = handler[g]
  BY <1>1, <1>t DEF Means
<1>2. ASSUME NEW h \in Handlers, Reads(h), NEW g \in Handlers \ {h}
      PROVE  handler'[g] = handler[g]
  BY <1>1, <1>2 DEF Reads, RecordActivity, TerminateOperation, RequestCancellation,
                    RequestChildFollowup
<1>3. ASSUME NEW h \in Handlers, Draws(h), NEW g \in Handlers \ {h}
      PROVE  handler'[g] = handler[g]
  BY <1>3, <1>t DEF Draws, StartOperation, Evaluate
<1>4. ASSUME NEW h \in Handlers, Proceeds(h), NEW g \in Handlers \ {h}
      PROVE  handler'[g] = handler[g]
  BY <1>4, <1>t DEF Proceeds, AdmitOperation, AdmitEvaluation, ScoreFails,
                    CompleteEvaluation, Finish
<1>5. ASSUME NEW h \in Handlers, CommitOperation(h) \/ FailEvaluation(h), NEW g \in Handlers
      PROVE  Rests(g)
  BY <1>5, <1>t DEF CommitOperation, FailEvaluation, Finish, Rests
<1>6. ASSUME Crash \/ Reconcile \/ UNCHANGED vars, NEW g \in Handlers
      PROVE  Rests(g)
  BY <1>6 DEF Crash, Reconcile, vars, Rests
<1>7. QED
  BY <1>2, <1>3, <1>4, <1>5, <1>6 DEF Next, Reads, Draws, Proceeds

\* Whatever a handler means to write relates to the stored record as it should.
LEMMA MeansReplaces ==
  ASSUME IInv, NEW h \in Handlers, NEW o \in Operations, NEW row \in OperationRows,
         Means(h, o, row), operation[o].state # "absent", row.state # "absent",
         row.revision = operation[o].revision, operation[o].canceling => row.canceling,
         operation[o].state \in Terminal => /\ row.state = operation[o].state
                                            /\ row.resultIds = operation[o].resultIds
  PROVE  /\ handler'[h].step = "write" /\ handler'[h].operation = o
         /\ operation' = operation
         /\ Replaces(handler[h].row, handler[h].operation)'
<1>1. /\ operation' = operation
      /\ handler'[h] = [Idle EXCEPT !.step = "write", !.operation = o,
                                    !.row = [row EXCEPT !.revision = @ + 1]]
  BY DEF Means, tables, IInv, TypeOK
<1>2. /\ handler'[h].step = "write" /\ handler'[h].operation = o
      /\ handler'[h].row = [row EXCEPT !.revision = @ + 1]
  BY <1>1 DEF Idle
<1>3. /\ handler'[h].row.revision = operation[o].revision + 1
      /\ handler'[h].row.state = row.state /\ handler'[h].row.canceling = row.canceling
      /\ handler'[h].row.resultIds = row.resultIds
  BY <1>2 DEF OperationRows
<1>4. operation[o].revision \in Nat
  BY DEF IInv, TypeOK, OperationRows
<1>5. QED
  BY <1>1, <1>2, <1>3, <1>4 DEF Replaces

LEMMA ReadsReplaces ==
  ASSUME IInv, NEW h \in Handlers, Reads(h)
  PROVE  /\ handler'[h].step = "write"
         /\ operation'[handler'[h].operation].revision # 0
         /\ Replaces(handler[h].row, handler[h].operation)'
<1> DEFINE Goal == /\ handler'[h].step = "write"
                   /\ operation'[handler'[h].operation].revision # 0
                   /\ Replaces(handler[h].row, handler[h].operation)'
<1>o. \A o \in Operations : operation[o] \in OperationRows
  BY DEF IInv, TypeOK
<1>1. ASSUME NEW o \in Operations, NEW phase \in {"started", "report", "followup", "deleted"},
             RecordActivity(h, o, phase)
      PROVE  Goal
  <2> DEFINE row == IF phase \in {"started", "followup"}
                      THEN [operation[o] EXCEPT !.state = "running"] ELSE operation[o]
  <2>1. /\ row \in OperationRows /\ row.revision = operation[o].revision
        /\ row.canceling = operation[o].canceling
        /\ row.resultIds = operation[o].resultIds
        /\ row.state \in {operation[o].state, "running"}
        /\ phase = "deleted" => row.state = operation[o].state
    BY <1>o, RowType DEF OperationRows, Active
  <2>2. /\ Means(h, o, row) /\ operation[o].state # "absent"
        /\ operation[o].state \in Terminal => phase = "deleted"
    BY <1>1 DEF RecordActivity, AgentsOwn
  <2> HIDE DEF row
  <2>3. QED
    BY <2>1, <2>2, MeansReplaces DEF IInv, ExistsInv
<1>2. ASSUME NEW o \in Operations, NEW state \in Terminal, TerminateOperation(h, o, state)
      PROVE  Goal
  <2> DEFINE row == [operation[o] EXCEPT !.state = state, !.resultIds = {}]
  <2>1. /\ row \in OperationRows /\ row.revision = operation[o].revision
        /\ row.canceling = operation[o].canceling /\ row.state = state
    BY <1>o, RowType DEF OperationRows
  <2>2. /\ Means(h, o, row) /\ operation[o].state # "absent"
        /\ operation[o].state \notin Terminal /\ state # "absent"
    BY <1>2 DEF TerminateOperation, AgentsOwn, Terminal
  <2>3. QED
    BY <2>1, <2>2, MeansReplaces DEF IInv, ExistsInv
<1>3. ASSUME NEW o \in Operations, RequestCancellation(h, o) PROVE Goal
  <2> DEFINE row == [operation[o] EXCEPT !.canceling = TRUE]
  <2>1. /\ row \in OperationRows /\ row.revision = operation[o].revision
        /\ row.canceling /\ row.state = operation[o].state
        /\ row.resultIds = operation[o].resultIds
    BY <1>o DEF OperationRows
  <2>2. /\ Means(h, o, row) /\ operation[o].state # "absent"
    BY <1>3 DEF RequestCancellation, Active
  <2>3. QED
    BY <2>1, <2>2, MeansReplaces DEF IInv, ExistsInv
<1>4. ASSUME NEW o \in Operations, RequestChildFollowup(h, o) PROVE Goal
  <2>1. Means(h, o, operation[o]) /\ operation[o].state # "absent"
    BY <1>4 DEF RequestChildFollowup
  <2>2. QED
    BY <2>1, <1>o, MeansReplaces DEF IInv, ExistsInv
<1>5. QED
  BY <1>1, <1>2, <1>3, <1>4 DEF Reads

LEMMA HandlerStep == IInv /\ [Next]_vars => HandlerInv'
<1> SUFFICES ASSUME IInv, [Next]_vars, NEW g \in Handlers
             PROVE  /\ handler'[g].step \in {"write", "admitEvaluation"} =>
                         Replaces(handler[g].row, handler[g].operation)'
                    /\ handler'[g].step = "admitEvaluation" => handler'[g].row.state = "running"
                    /\ handler'[g].step \in {"complete", "fail"} =>
                         Recorded(handler[g].row, handler[g].operation, handler[g].evaluation)'
  BY DEF HandlerInv
<1> DEFINE Goal == /\ handler'[g].step \in {"write", "admitEvaluation"} =>
                        Replaces(handler[g].row, handler[g].operation)'
                   /\ handler'[g].step = "admitEvaluation" => handler'[g].row.state = "running"
                   /\ handler'[g].step \in {"complete", "fail"} =>
                        Recorded(handler[g].row, handler[g].operation, handler[g].evaluation)'
<1>t. /\ handler \in [Handlers -> Calls]
      /\ handler[g] \in Calls
      /\ handler[g].row \in OperationRows /\ handler[g].operation \in Operations
      /\ handler[g].evaluation \in Evaluations
      /\ \A o \in Operations : operation[o] \in OperationRows /\ operation[o].revision \in Nat
  BY DEF IInv, TypeOK, Calls, OperationRows
<1>1. CASE handler'[g] = handler[g]
  BY <1>1, <1>t, ReplacesKept, RecordedKept DEF IInv, HandlerInv, Replaces, Recorded
<1>2. CASE handler'[g] = Idle
  BY <1>2 DEF Idle
<1>3. CASE Reads(g)
  BY <1>3, ReadsReplaces
<1>4. ASSUME NEW o \in Operations, NEW route \in {"ordinary_dsh", "native_child"},
             StartOperation(g, o, route)
      PROVE  Goal
  BY <1>4, <1>t DEF StartOperation, Idle
<1>5. ASSUME NEW o \in Operations, NEW k \in Keys, NEW e \in Evaluations, Evaluate(g, k, o, e)
      PROVE  Goal
  <2> DEFINE row == IF Names[k] = NoOperation
                      THEN [NoRow EXCEPT !.state = "running", !.revision = 1]
                      ELSE [operation[o] EXCEPT !.revision = @ + 1]
  <2>1. /\ handler'[g].step = "admitEvaluation" /\ handler'[g].operation = o
        /\ handler'[g].row = row /\ operation' = operation
    BY <1>5, <1>t DEF Evaluate, tables
  <2>2. CASE Names[k] = NoOperation
    <3>1. \/ operation[o].state = "absent"
          \/ admitted[k] # NotAdmitted /\ o = admitted[k].operation
      BY <1>5, <2>2 DEF Evaluate, FreshOperation
    <3>2. /\ row.state = "running" /\ row.revision = 1
      BY <2>2 DEF NoRow
    <3>3. CASE operation[o].state = "absent"
      BY <3>2, <3>3, <2>1 DEF Replaces, IInv, ExistsInv, Terminal
    <3>4. CASE admitted[k] # NotAdmitted /\ o = admitted[k].operation
      <4>1. Recorded(admitted[k].row, o, admitted[k].evaluation)
        BY <3>4 DEF IInv, AdmittedInv
      <4>2. operation[o].revision # 0
        BY <4>1, <1>t DEF Recorded
      <4>3. QED
        BY <3>2, <4>2, <2>1, <1>t DEF Replaces
    <3>5. QED
      BY <3>1, <3>3, <3>4
  <2>3. CASE Names[k] # NoOperation
    <3>1. operation[o].state = "running"
      BY <1>5, <2>3 DEF Evaluate
    <3>2. /\ row.state = "running" /\ row.revision = operation[o].revision + 1
          /\ row.canceling = operation[o].canceling
      BY <2>3, <3>1, <1>t DEF OperationRows
    <3>3. QED
      BY <3>1, <3>2, <2>1, <1>t DEF Replaces, Terminal
  <2>4. QED
    BY <2>2, <2>3
<1>6. CASE AdmitOperation(g)
  <2>1. CASE Finish(g)
    BY <2>1, <1>t, <1>2 DEF Finish
  <2>2. CASE handler' = [handler EXCEPT ![g].step = "write", ![g].row.state = "running",
                                        ![g].row.revision = @ + 1]
    <3>0. /\ handler[g].step = "admitOperation"
          /\ operation' = [operation EXCEPT ![handler[g].operation] = handler[g].row]
      BY <1>6 DEF AdmitOperation
    <3>f. FreshInv
      BY DEF IInv
    <3>g. handler[g].row.state = "queued" /\ handler[g].row.revision = 1
      BY <3>0, <3>f DEF FreshInv
    <3>1. operation'[handler[g].operation] = handler[g].row
      BY <3>0, <1>t DEF IInv, TypeOK
    <3>2. /\ handler'[g].step = "write"
          /\ handler'[g].operation = handler[g].operation
          /\ handler'[g].row.state = "running"
          /\ handler'[g].row.revision = handler[g].row.revision + 1
          /\ handler'[g].row.canceling = handler[g].row.canceling
      BY <2>2, <1>t DEF Calls, OperationRows
    <3>3. QED
      BY <3>g, <3>1, <3>2 DEF Replaces, Terminal
  <2>3. QED
    BY <2>1, <2>2, <1>6 DEF AdmitOperation
<1>7. CASE AdmitEvaluation(g)
  <2> DEFINE prior == admitted[handler[g].key]
  <2>1. CASE /\ prior # NotAdmitted /\ UNCHANGED tables
             /\ handler' = [handler EXCEPT ![g] =
                  [handler[g] EXCEPT !.step = "complete", !.operation = prior.operation,
                                     !.row = prior.row, !.evaluation = prior.evaluation,
                                     !.opportunity = prior.opportunity]]
    <3>1. Recorded(prior.row, prior.operation, prior.evaluation)
      BY <2>1, <1>t DEF IInv, AdmittedInv, Calls
    <3>2. /\ handler'[g].step = "complete" /\ handler'[g].row = prior.row
          /\ handler'[g].operation = prior.operation
          /\ handler'[g].evaluation = prior.evaluation
      BY <2>1, <1>t DEF Calls
    <3>3. QED
      BY <3>1, <3>2, <2>1 DEF tables, Recorded
  <2>2. CASE /\ operation[handler[g].operation].revision + 1 = handler[g].row.revision
             /\ operation' = [operation EXCEPT ![handler[g].operation] = handler[g].row]
             /\ evaluation' = [evaluation EXCEPT ![handler[g].fresh] =
                               [state |-> "running", revision |-> 1,
                                operation |-> handler[g].operation]]
             /\ handler' = [handler EXCEPT ![g].step = "complete", ![g].opportunity = @ + 1]
    <3>1. /\ handler[g].step = "admitEvaluation" /\ handler[g].evaluation = handler[g].fresh
          /\ handler[g].row.state = "running"
          /\ Replaces(handler[g].row, handler[g].operation)
      BY <1>7 DEF AdmitEvaluation, IInv, FreshEvaluationInv, HandlerInv
    <3>2. /\ handler'[g].step = "complete" /\ handler'[g].row = handler[g].row
          /\ handler'[g].operation = handler[g].operation
          /\ handler'[g].evaluation = handler[g].evaluation
      BY <2>2, <1>t DEF Calls
    <3>3. /\ operation'[handler[g].operation] = handler[g].row
          /\ evaluation'[handler[g].evaluation].state = "running"
          /\ evaluation'[handler[g].evaluation].operation = handler[g].operation
      BY <2>2, <3>1, <1>t DEF IInv, TypeOK
    <3>4. handler[g].row.revision \in 1..handler[g].row.revision
      BY <3>1, <1>t DEF Replaces
    <3>5. QED
      BY <3>1, <3>2, <3>3, <3>4 DEF Recorded
  <2>3. CASE Finish(g)
    BY <2>3, <1>t, <1>2 DEF Finish
  <2>4. QED
    BY <2>1, <2>2, <2>3, <1>7 DEF AdmitEvaluation
<1>8. CASE ScoreFails(g) \/ CompleteEvaluation(g)
  <2>1. CASE handler'[g] = Idle
    BY <2>1, <1>2
  <2>2. CASE handler'[g] # Idle
    <3>1. /\ handler' = [handler EXCEPT ![g].step = "fail"]
          /\ handler[g].step = "complete" /\ UNCHANGED tables
      BY <1>8, <2>2, <1>t DEF ScoreFails, CompleteEvaluation, Finish
    <3>2. /\ handler'[g].step = "fail" /\ handler'[g].row = handler[g].row
          /\ handler'[g].operation = handler[g].operation
          /\ handler'[g].evaluation = handler[g].evaluation
      BY <3>1, <1>t DEF Calls
    <3>3. QED
      BY <3>1, <3>2 DEF IInv, HandlerInv, Recorded, tables
  <2>3. QED
    BY <2>1, <2>2
<1>9. TypeOK
  BY DEF IInv
<1>10. QED
  BY <1>1, <1>2, <1>3, <1>4, <1>5, <1>6, <1>7, <1>8, <1>9, Acts DEF Rests, Draws, Proceeds

LEMMA AdmittedStep == IInv /\ [Next]_vars => AdmittedInv'
<1> SUFFICES ASSUME IInv, [Next]_vars, NEW k \in Keys, admitted'[k] # NotAdmitted
             PROVE  Recorded(admitted[k].row, admitted[k].operation, admitted[k].evaluation)'
  BY DEF AdmittedInv
<1>t. admitted \in [Keys -> Admissions \cup {NotAdmitted}]
  BY DEF IInv, TypeOK
<1>1. CASE admitted'[k] = admitted[k]
  <2>1. /\ admitted[k].row \in OperationRows /\ admitted[k].operation \in Operations
        /\ admitted[k].evaluation \in Evaluations
    BY <1>1, <1>t DEF Admissions
  <2>2. QED
    BY <1>1, <2>1, RecordedKept DEF IInv, AdmittedInv, Recorded
<1>2. CASE admitted'[k] # admitted[k]
  <2>1. PICK h \in Handlers : AdmitEvaluation(h)
    BY <1>2, Commits DEF tables, Reconcile, AdmitOperation, CommitOperation,
                         CompleteEvaluation, FailEvaluation
  <2>2. /\ handler[h].operation \in Operations /\ handler[h].fresh \in Evaluations
        /\ handler[h].row \in OperationRows
    BY DEF IInv, TypeOK, Calls
  <2>3. /\ admitted'[k] = [operation |-> handler[h].operation, row |-> handler[h].row,
                           evaluation |-> handler[h].fresh, opportunity |-> opportunity + 1]
        /\ operation'[handler[h].operation] = handler[h].row
        /\ evaluation'[handler[h].fresh].state = "running"
        /\ evaluation'[handler[h].fresh].operation = handler[h].operation
    BY <2>1, <2>2, <1>2, <1>t DEF AdmitEvaluation, tables, IInv, TypeOK
  <2>4. /\ handler[h].row.state = "running"
        /\ Replaces(handler[h].row, handler[h].operation)
    BY <2>1 DEF AdmitEvaluation, IInv, HandlerInv
  <2>5. handler[h].row.revision \in 1..handler[h].row.revision
    BY <2>2, <2>4 DEF Replaces, OperationRows
  <2>6. QED
    BY <2>3, <2>4, <2>5 DEF Recorded
<1>3. QED
  BY <1>1, <1>2

-------------------------------------------------------------------------------
\* What a handler deals with after a step: what it dealt with before, something that
\* exists, or something that it has just drawn.
LEMMA DealsWith ==
  ASSUME IInv, [Next]_vars, NEW g \in Handlers, handler'[g].step # "idle"
  PROVE  \/ handler'[g] = handler[g]
         \/ /\ operation'[handler'[g].operation].revision # 0
            /\ handler'[g].step # "admitOperation"
         \/ /\ handler[g].step = "idle"
            /\ operation' = operation /\ FreshOperation(handler'[g].operation)
            /\ handler'[g].step \in {"admitOperation", "admitEvaluation"}
            /\ handler'[g].step = "admitOperation" =>
                 /\ handler'[g].row.state = "queued" /\ handler'[g].row.revision = 1
<1> DEFINE Goal ==
         \/ handler'[g] = handler[g]
         \/ /\ operation'[handler'[g].operation].revision # 0
            /\ handler'[g].step # "admitOperation"
         \/ /\ handler[g].step = "idle"
            /\ operation' = operation /\ FreshOperation(handler'[g].operation)
            /\ handler'[g].step \in {"admitOperation", "admitEvaluation"}
            /\ handler'[g].step = "admitOperation" =>
                 /\ handler'[g].row.state = "queued" /\ handler'[g].row.revision = 1
<1>t. /\ handler \in [Handlers -> Calls] /\ handler[g] \in Calls
      /\ handler'[g].operation \in Operations /\ handler'[g].evaluation \in Evaluations
  BY TypeStep DEF IInv, TypeOK, Calls
<1>1. CASE Reads(g)
  BY <1>1, ReadsReplaces
<1>2. ASSUME NEW o \in Operations, NEW route \in {"ordinary_dsh", "native_child"},
             StartOperation(g, o, route)
      PROVE  Goal
  <2>1. /\ handler[g].step = "idle" /\ FreshOperation(o) /\ operation' = operation
    BY <1>2, <1>t DEF StartOperation, Ready, tables
  <2>3. handler'[g] = [Idle EXCEPT !.step = "admitOperation", !.operation = o,
                            !.row = [NoRow EXCEPT !.state = "queued", !.revision = 1,
                                                  !.route = route]]
    BY <1>2, <1>t DEF StartOperation, Ready, tables
  <2>2. /\ handler'[g].operation = o /\ handler'[g].step = "admitOperation"
        /\ handler'[g].row = [NoRow EXCEPT !.state = "queued", !.revision = 1,
                                           !.route = route]
    BY <2>3 DEF Idle
  <2>5. handler'[g].row.state = "queued" /\ handler'[g].row.revision = 1
    BY <2>2 DEF NoRow
  <2>6. QED
    BY <2>1, <2>2, <2>5
<1>3. ASSUME NEW o \in Operations, NEW k \in Keys, NEW e \in Evaluations, Evaluate(g, k, o, e)
      PROVE  Goal
  <2>1. /\ handler[g].step = "idle" /\ operation' = operation
        /\ handler'[g].operation = o /\ handler'[g].step = "admitEvaluation"
    BY <1>3, <1>t DEF Evaluate, Ready, tables
  <2>2. CASE FreshOperation(o)
    BY <2>1, <2>2
  <2>3. CASE operation[o].state = "running"
    BY <2>1, <2>3 DEF IInv, ExistsInv
  <2>4. CASE admitted[k] # NotAdmitted /\ o = admitted[k].operation
    <3>1. Recorded(admitted[k].row, o, admitted[k].evaluation)
      BY <2>4 DEF IInv, AdmittedInv
    <3>2. operation[o].revision \in Nat
      BY DEF IInv, TypeOK, OperationRows
    <3>3. operation[o].revision # 0
      BY <3>1, <3>2 DEF Recorded
    <3>4. QED
      BY <2>1, <3>3
  <2>5. QED
    BY <2>2, <2>3, <2>4, <1>3 DEF Evaluate
<1>4. CASE Proceeds(g)
  <2>1. HandlerInv'
    BY HandlerStep
  <2>2. operation'[handler'[g].operation].revision \in Nat
    BY <1>t, TypeStep DEF IInv, TypeOK, OperationRows
  <2>3. CASE handler'[g].step \in {"complete", "fail"}
    BY <2>1, <2>2, <2>3 DEF HandlerInv, Recorded
  <2>4. CASE /\ AdmitOperation(g) /\ handler'[g].step = "write"
             /\ handler'[g].operation = handler[g].operation
    <3>1. operation'[handler[g].operation] = handler[g].row /\ handler[g].row.revision = 1
      BY <2>4, <1>t DEF AdmitOperation, IInv, FreshInv, TypeOK
    <3>2. QED
      BY <2>4, <3>1
  <2>5. CASE handler'[g] = Idle
    BY <2>5 DEF Idle
  <2>6. QED
    BY <2>3, <2>4, <2>5, <1>4, ProceedsTo DEF IInv
<1>5. CASE handler'[g] = Idle
  BY <1>5 DEF Idle
<1>6. TypeOK
  BY DEF IInv
<1>7. QED
  BY <1>1, <1>2, <1>3, <1>4, <1>5, <1>6, Acts DEF Rests, Draws

\* An operation that does not exist is left alone by all but the handler that drew it.
LEMMA AbsentIsLeftAlone ==
  ASSUME IInv, [Next]_vars, NEW g \in Handlers, handler'[g] = handler[g],
         handler[g].step # "idle", operation[handler[g].operation].revision = 0
  PROVE  operation'[handler[g].operation] = operation[handler[g].operation]
<1> DEFINE o == handler[g].operation
           Goal == operation'[o] = operation[o]
<1>t. /\ operation \in [Operations -> OperationRows] /\ handler \in [Handlers -> Calls]
      /\ o \in Operations
      /\ \A h \in Handlers : /\ handler[h].operation \in Operations
                             /\ handler[h].step # "idle" /\ h # g =>
                                  handler[h].operation # o
      /\ handler[g].step \in {"admitOperation", "admitEvaluation"}
  BY DEF IInv, TypeOK, Calls, FreshInv
<1>1. ASSUME NEW h \in Handlers,
             \/ AdmitOperation(h) \/ CommitOperation(h)
             \/ AdmitEvaluation(h) \/ CompleteEvaluation(h) \/ FailEvaluation(h)
      PROVE  h # g
  <2>1. \/ handler'[h] = Idle
        \/ handler'[h].step \in {"complete", "fail", "write"}
    BY <1>1, ProceedsTo DEF Proceeds, IInv
  <2>2. handler'[h].step \notin {"admitOperation", "admitEvaluation"}
    BY <2>1 DEF Idle
  <2>3. QED
    BY <2>2, <1>t
<1>2. ASSUME NEW h \in Handlers,
             \/ AdmitOperation(h) \/ CommitOperation(h)
             \/ AdmitEvaluation(h) \/ CompleteEvaluation(h) \/ FailEvaluation(h)
      PROVE  Goal
  <2>1. h # g /\ handler[h].step # "idle"
    BY <1>1, <1>2 DEF AdmitOperation, CommitOperation, AdmitEvaluation,
                      CompleteEvaluation, FailEvaluation
  <2>2. handler[h].operation # o
    BY <2>1, <1>t
  <2>3. QED
    BY <1>2, <2>2, <1>t DEF AdmitOperation, CommitOperation, AdmitEvaluation,
                            CompleteEvaluation, FailEvaluation, tables
<1>3. CASE Reconcile
  BY <1>3, <1>t DEF Reconcile, Settled, IInv, ExistsInv, Active
<1>4. CASE UNCHANGED tables
  BY <1>4 DEF tables
<1>5. QED
  BY <1>2, <1>3, <1>4, Commits

LEMMA FreshStep == IInv /\ [Next]_vars => FreshInv'
<1> SUFFICES ASSUME IInv, [Next]_vars, NEW h \in Handlers
             PROVE  LET o == handler'[h].operation IN
                    /\ handler'[h].step = "admitOperation" =>
                         /\ operation'[o].revision = 0
                         /\ handler'[h].row.state = "queued" /\ handler'[h].row.revision = 1
                    /\ handler'[h].step # "idle" /\ operation'[o].revision = 0 =>
                         /\ handler'[h].step \in {"admitOperation", "admitEvaluation"}
                         /\ \A g \in Handlers \ {h} :
                              handler'[g].step # "idle" => handler'[g].operation # o
  BY DEF FreshInv
<1> DEFINE o == handler'[h].operation
<1>o. /\ o \in Operations
      /\ operation[o].revision \in Nat
      /\ operation[o].state = "absent" <=> operation[o].revision = 0
  BY TypeStep DEF IInv, TypeOK, Calls, OperationRows, ExistsInv
<1>a. operation'[o].revision = 0 => operation[o].revision = 0
  BY <1>o, OperationAdvances DEF Advances
<1>1. ASSUME handler'[h].step = "admitOperation"
      PROVE  /\ operation'[o].revision = 0
             /\ handler'[h].row.state = "queued" /\ handler'[h].row.revision = 1
  <2>1. CASE handler'[h] = handler[h]
    <3>1. /\ handler[h].step = "admitOperation" /\ handler[h].operation = o
          /\ operation[o].revision = 0
      BY <1>1, <2>1 DEF IInv, FreshInv
    <3>2. operation'[o] = operation[o]
      BY <2>1, <3>1, AbsentIsLeftAlone
    <3>3. QED
      BY <1>1, <2>1, <3>1, <3>2 DEF IInv, FreshInv
  <2>2. CASE handler'[h] # handler[h]
    <3>1. /\ operation' = operation /\ FreshOperation(o)
          /\ handler'[h].row.state = "queued" /\ handler'[h].row.revision = 1
      BY <1>1, <2>2, DealsWith
    <3>2. QED
      BY <3>1, <1>o DEF FreshOperation
  <2>3. QED
    BY <2>1, <2>2
<1>2. ASSUME handler'[h].step # "idle", operation'[o].revision = 0
      PROVE  /\ handler'[h].step \in {"admitOperation", "admitEvaluation"}
             /\ \A g \in Handlers \ {h} :
                  handler'[g].step # "idle" => handler'[g].operation # o
  <2>1. \/ /\ handler'[h] = handler[h]
           /\ handler[h].step \in {"admitOperation", "admitEvaluation"}
           /\ \A g \in Handlers \ {h} :
                handler[g].step # "idle" => handler[g].operation # o
        \/ /\ handler'[h] # handler[h] /\ handler[h].step = "idle"
           /\ FreshOperation(o)
           /\ handler'[h].step \in {"admitOperation", "admitEvaluation"}
    BY <1>2, <1>a, DealsWith DEF IInv, FreshInv
  <2>2. ASSUME NEW g \in Handlers \ {h}, handler'[g].step # "idle",
               handler'[g].operation = o
        PROVE  FALSE
    <3>1. CASE handler'[g] = handler[g]
      BY <2>1, <2>2, <3>1 DEF FreshOperation
    <3>2. CASE handler'[g] # handler[g]
      <4>1. handler[g].step = "idle" /\ FreshOperation(o)
        BY <1>2, <2>2, <3>2, DealsWith
      <4>2. handler'[h] # handler[h]
        BY <1>2, <4>1 DEF FreshOperation
      <4>3. /\ handler'[g] # Idle /\ handler'[h] # Idle
        BY <1>2, <2>2 DEF Idle
      <4>4. QED
        BY <3>2, <4>2, <4>3, Acts DEF Rests, IInv
    <3>3. QED
      BY <3>1, <3>2
  <2>3. QED
    BY <2>1, <2>2
<1>3. QED
  BY <1>1, <1>2

\* Only a handler that evaluates anew becomes one that is about to admit.
LEMMA DrawsEvaluation ==
  ASSUME TypeOK, [Next]_vars, NEW g \in Handlers, handler'[g].step = "admitEvaluation",
         handler'[g] # handler[g]
  PROVE  /\ FreshEvaluation(handler'[g].fresh) /\ handler'[g].evaluation = handler'[g].fresh
         /\ evaluation' = evaluation
         /\ \A h \in Handlers \ {g} : handler'[h] = handler[h]
<1>t. handler \in [Handlers -> Calls] /\ handler[g] \in Calls
  BY DEF TypeOK
<1>1. handler'[g] # Idle
  BY DEF Idle
<1>2. PICK h \in Handlers : /\ Reads(h) \/ Draws(h) \/ Proceeds(h)
                            /\ \A f \in Handlers \ {h} : handler'[f] = handler[f]
  BY <1>1, Acts DEF Rests
<1>3. h = g
  BY <1>2
<1>4. ~Proceeds(g)
  BY <1>1, ProceedsTo
<1>5. ASSUME NEW o \in Operations, NEW row, Means(g, o, row) PROVE FALSE
  <2>1. handler'[g] = [Idle EXCEPT !.step = "write", !.operation = o,
                                   !.row = [row EXCEPT !.revision = @ + 1]]
    BY <1>5, <1>t DEF Means
  <2>2. handler'[g].step = "write"
    BY <2>1 DEF Idle
  <2>3. QED
    BY <2>2
<1>6. ~Reads(g)
  BY <1>5 DEF Reads, RecordActivity, TerminateOperation, RequestCancellation,
              RequestChildFollowup
<1>7. ASSUME NEW o \in Operations, NEW route, StartOperation(g, o, route) PROVE FALSE
  <2>1. handler'[g] = [Idle EXCEPT !.step = "admitOperation", !.operation = o,
                            !.row = [NoRow EXCEPT !.state = "queued", !.revision = 1,
                                                  !.route = route]]
    BY <1>7, <1>t DEF StartOperation
  <2>2. handler'[g].step = "admitOperation"
    BY <2>1 DEF Idle
  <2>3. QED
    BY <2>2
<1>8. PICK o \in Operations, k \in Keys, e \in Evaluations : Evaluate(g, k, o, e)
  BY <1>2, <1>3, <1>4, <1>6, <1>7 DEF Draws
<1>9. /\ handler'[g].fresh = e /\ handler'[g].evaluation = e
      /\ FreshEvaluation(e) /\ evaluation' = evaluation
  BY <1>8, <1>t DEF Evaluate, tables
<1>10. QED
  BY <1>2, <1>3, <1>9

LEMMA FreshEvaluationStep == IInv /\ [Next]_vars => FreshEvaluationInv'
<1> SUFFICES ASSUME IInv, [Next]_vars, NEW h \in Handlers, handler'[h].step = "admitEvaluation"
             PROVE  /\ evaluation'[handler'[h].fresh].state = "absent"
                    /\ handler'[h].evaluation = handler'[h].fresh
                    /\ \A g \in Handlers \ {h} : handler'[g].step = "admitEvaluation" =>
                                                   handler'[g].fresh # handler'[h].fresh
  BY DEF FreshEvaluationInv
<1>t. TypeOK
  BY DEF IInv
<1>1. CASE handler'[h] # handler[h]
  <2>1. /\ FreshEvaluation(handler'[h].fresh) /\ handler'[h].evaluation = handler'[h].fresh
        /\ evaluation' = evaluation
        /\ \A g \in Handlers \ {h} : handler'[g] = handler[g]
    BY <1>1, <1>t, DrawsEvaluation
  <2>2. QED
    BY <2>1 DEF FreshEvaluation
<1>2. CASE handler'[h] = handler[h]
  <2> DEFINE e == handler[h].fresh
  <2>1. /\ evaluation[e].state = "absent" /\ handler[h].evaluation = e
        /\ \A g \in Handlers \ {h} : handler[g].step = "admitEvaluation" =>
                                       handler[g].fresh # e
        /\ e \in Evaluations
    BY <1>2 DEF IInv, FreshEvaluationInv, TypeOK, Calls
  <2>2. evaluation'[e] = evaluation[e]
    <3>1. ASSUME NEW g \in Handlers, AdmitEvaluation(g) PROVE evaluation'[e] = evaluation[e]
      <4>1. handler[g].step = "admitEvaluation"
        BY <3>1 DEF AdmitEvaluation
      <4>a. handler'[g].step # "admitEvaluation"
        <5>1. \/ handler'[g] = Idle \/ handler'[g].step \in {"complete", "fail"}
              \/ handler'[g].step = "write"
          BY <3>1, <1>t, ProceedsTo DEF Proceeds
        <5>2. QED
          BY <5>1 DEF Idle
      <4>2. g # h
        BY <1>2, <4>1, <4>a
      <4>3. handler[g].fresh # e /\ evaluation \in [Evaluations -> EvaluationRows]
        BY <2>1, <4>1, <4>2, <1>t DEF TypeOK
      <4>4. QED
        BY <3>1, <4>3, <2>1 DEF AdmitEvaluation, tables
    <3>2. ASSUME NEW g \in Handlers, CompleteEvaluation(g) \/ FailEvaluation(g)
          PROVE  evaluation'[e] = evaluation[e]
      <4>1. evaluation[handler[g].evaluation].state # "absent"
        BY <3>2 DEF CompleteEvaluation, FailEvaluation, IInv, HandlerInv, Recorded
      <4>2. evaluation \in [Evaluations -> EvaluationRows] /\ handler[g].evaluation # e
        BY <2>1, <4>1, <1>t DEF TypeOK
      <4>3. QED
        BY <3>2, <4>2, <2>1 DEF CompleteEvaluation, FailEvaluation, tables
    <3>3. QED
      BY <3>1, <3>2, Commits DEF tables, Reconcile, AdmitOperation, CommitOperation
  <2>3. ASSUME NEW g \in Handlers \ {h}, handler'[g].step = "admitEvaluation"
        PROVE  handler'[g].fresh # e
    <3>1. CASE handler'[g] = handler[g]
      BY <2>1, <2>3, <3>1
    <3>2. CASE handler'[g] # handler[g]
      <4>1. FreshEvaluation(handler'[g].fresh)
        BY <2>3, <3>2, <1>t, DrawsEvaluation
      <4>2. QED
        BY <4>1, <1>2 DEF FreshEvaluation
    <3>3. QED
      BY <3>1, <3>2
  <2>4. QED
    BY <2>1, <2>2, <2>3, <1>2
<1>3. QED
  BY <1>1, <1>2

-------------------------------------------------------------------------------
LEMMA InitIInv == Init => IInv
<1> SUFFICES ASSUME Init PROVE IInv
  OBVIOUS
<1>1. \A h \in Handlers : handler[h].step = "idle"
  BY DEF Init, Idle
<1>2. \A o \in Operations : /\ operation[o] = NoRow /\ terminals[o] = 0
                            /\ operation[o].state = "absent" /\ operation[o].revision = 0
                            /\ operation[o].canceling = FALSE
  BY DEF Init, NoRow
<1>3. \A e \in Evaluations : evaluation[e].state = "absent" /\ evaluation[e].revision = 0
  BY DEF Init
<1>4. \A k \in Keys : admitted[k] = NotAdmitted
  BY DEF Init
<1>5. ExistsInv /\ TerminalsInv
  BY <1>2 DEF ExistsInv, TerminalsInv, Terminal
<1>6. EvaluationInv /\ SettledTogether
  BY <1>3 DEF EvaluationInv, SettledTogether
<1>7. FreshInv /\ FreshEvaluationInv /\ HandlerInv /\ AdmittedInv
  BY <1>1, <1>4 DEF FreshInv, FreshEvaluationInv, HandlerInv, AdmittedInv
<1>8. QED
  BY <1>5, <1>6, <1>7, InitType DEF IInv

\* The inductive invariant holds in every state of every behaviour: whatever a
\* handler still means to write, the commit that compares revisions lets it write
\* only over the record it read (workbench.ts recordOperationActivity,
\* terminateOperation, evaluate, failOperation; repositories.ts).
THEOREM Invariant == Spec => []IInv
<1>1. IInv /\ [Next]_vars => IInv'
  BY TypeStep, TablesStep, TerminalsStep, HandlerStep, AdmittedStep, FreshStep,
     FreshEvaluationStep DEF IInv
<1>2. QED
  BY InitIInv, <1>1, PTL DEF Spec

\* Every record, every handler and every recorded admission keeps its form.
THEOREM TypeCorrect == Spec => []TypeOK
<1>1. IInv => TypeOK
  BY DEF IInv
<1>2. QED
  BY Invariant, <1>1, PTL

\* However many deliveries, agents and restarts meet, an evaluation is settled
\* together with the operation that carries it, and an operation settles one
\* evaluation at most (workbench.ts evaluate and failOperation).
THEOREM EvaluationsSettleWithTheirOperation == Spec => []SettledTogether
<1>1. IInv => SettledTogether
  BY DEF IInv
<1>2. QED
  BY Invariant, <1>1, PTL

\* No step takes back the outcome of a terminal operation, records a second
\* terminal event of it, or forgets a requested cancellation, although every
\* handler writes back the whole record it read (workbench.ts terminateOperation,
\* recordOperationActivity, evaluate, reconcileInterruptedOperations).
THEOREM OutcomesAreFinal == Spec => NeverTakenBack
<1> DEFINE Kept ==
      \A o \in Operations :
        /\ operation[o].state \in Terminal =>
             /\ terminals[o] = 1 /\ terminals'[o] = 1
             /\ operation'[o].state = operation[o].state
             /\ operation'[o].resultIds = operation[o].resultIds
        /\ operation[o].canceling => operation'[o].canceling
<1>1. IInv /\ [Next]_vars => Kept
  <2> SUFFICES ASSUME IInv, [Next]_vars, NEW o \in Operations
               PROVE  /\ operation[o].state \in Terminal =>
                           /\ terminals[o] = 1 /\ terminals'[o] = 1
                           /\ operation'[o].state = operation[o].state
                           /\ operation'[o].resultIds = operation[o].resultIds
                      /\ operation[o].canceling => operation'[o].canceling
    OBVIOUS
  <2>1. Advances(o) /\ TerminalsInv /\ TerminalsInv'
    BY OperationAdvances, TerminalsStep DEF IInv
  <2>2. operation[o].state \in Terminal =>
          /\ operation'[o].state = operation[o].state
          /\ operation'[o].resultIds = operation[o].resultIds
    BY <2>1 DEF Advances
  <2>3. operation[o].state \in Terminal => terminals[o] = 1 /\ terminals'[o] = 1
    BY <2>1, <2>2 DEF TerminalsInv
  <2>4. operation[o].canceling => operation'[o].canceling
    BY <2>1 DEF Advances
  <2>5. QED
    BY <2>2, <2>3, <2>4
<1>2. QED
  BY Invariant, <1>1, PTL DEF Spec, NeverTakenBack
===============================================================================
