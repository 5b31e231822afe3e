---------------------------- MODULE ApprovalsProofs ----------------------------
(***************************************************************************)
(* For every number of handlers, approvals and targets: an approval is     *)
(* used for at most one effect, and every effect is the approved one.  The *)
(* inductive invariant says what a handler may still rely on of what it    *)
(* read before its commit: everything about a row whose revision is the    *)
(* one it read, and nothing about any other.                               *)
(***************************************************************************)
EXTENDS Approvals, TLAPS

\* An approval exists from its first revision on.
ApprovalInv == \A a \in Approvals : approval[a].state = "absent" <=> approval[a].revision = 0

\* So does a target, and the correction that has made the inputs stale is over.
TargetInv == \A t \in Targets : target[t].state = "absent" => target[t].revision = 0
CorrectionInv == inputs = "stale" => correction.step = "done"

\* A call that relies on an approval it has read.
Relies(call) ==
  \/ call.step \in {"decide", "expire"}
  \/ call.step \in {"checkTarget", "effect"} /\ call.approval # NoApproval

\* What is known of an approval that still has the revision the call read.
StillSo(call) ==
  LET a == call.approval IN
  approval[a].revision = call.approvalRevision =>
    /\ call.step = "decide" => approval[a].state = "pending"
    /\ call.step = "expire" => approval[a].state \in {"pending", "approved"}
    /\ call.step \in {"checkTarget", "effect"} => Approves(a, call.binding)

ReliesInv ==
  \A h \in Handlers :
    Relies(handler[h]) =>
      /\ handler[h].approval \in Approvals
      /\ handler[h].approvalRevision \in 1..approval[handler[h].approval].revision
      /\ StillSo(handler[h])

\* Who acts without an approval.
AloneInv ==
  \A h \in Handlers :
    handler[h].step \in {"checkTarget", "effect"} /\ handler[h].approval = NoApproval =>
      handler[h].actor = "user" /\ KindOf[handler[h].binding.target] = "application.transition"

\* What is known of a target that passed its check.  That a comparison's inputs
\* are current is known only while a correction that would mark them would mark
\* the comparison too, which changes its revision.
Fits(b) ==
  /\ b.revision <= target[b.target].revision
  /\ KindOf[b.target] = "application.transition" => b.details \in ApplicationStates
  /\ KindOf[b.target] = "comparison.accept" /\ b.revision = target[b.target].revision =>
       inputs = "completed" \/ ~Listed(b.target)

FitsInv == \A h \in Handlers : handler[h].step = "effect" => Fits(handler[h].binding)

EffectsInv ==
  \A e \in effects : e.binding.revision < target[e.binding.target].revision

IInv ==
  /\ TypeOK /\ ApprovalInv /\ TargetInv /\ CorrectionInv
  /\ ReliesInv /\ AloneInv /\ FitsInv /\ EffectsInv
  /\ ConsumedOnce /\ EffectIsTheApprovedOne /\ OneEffectPerRevision

-------------------------------------------------------------------------------
LEMMA IdleType == Idle \in Calls
<1>1. (CHOOSE t \in Targets : TRUE) \in Targets
  BY ConstantsAssumption
<1>2. QED
  BY <1>1 DEF Idle, Calls, Bindings, Details, Steps

LEMMA KindCases ==
  ASSUME NEW t \in Targets
  PROVE  KindOf[t] \in {"comparison.accept", "artifact.review", "application.transition"}
BY ConstantsAssumption DEF EffectKinds

LEMMA ResultType ==
  ASSUME NEW b \in Bindings,
         KindOf[b.target] = "application.transition" => b.details \in ApplicationStates
  PROVE  /\ Result(b) \in TargetStates
         /\ Result(b) = "accepted" => KindOf[b.target] = "comparison.accept"
<1>1. b.target \in Targets
  BY DEF Bindings
<1>2. QED
  BY <1>1, KindCases DEF Result, TargetStates, ApplicationStates

LEMMA CurrentType == TypeOK => Current \subseteq Bindings
<1> SUFFICES ASSUME TypeOK, NEW b \in Current PROVE b \in Bindings
  OBVIOUS
<1>1. PICK t \in Targets : \E d \in DetailsOf(t) :
        b = [target |-> t, revision |-> target[t].revision, details |-> d]
  BY DEF Current
<1>2. target[t].revision \in Nat
  BY DEF TypeOK
<1>3. DetailsOf(t) \subseteq Details
  BY RequestedAssumption DEF DetailsOf, Details
<1>4. QED
  BY <1>1, <1>2, <1>3 DEF Bindings

\* A target that allows an application transition is asked for a real state.
LEMMA AllowedDetails ==
  ASSUME NEW b \in Bindings, Allows(b), KindOf[b.target] = "application.transition"
  PROVE  b.details \in ApplicationStates
<1>1. /\ target[b.target].state \in ApplicationStates
      /\ b.details \in applicationTransitions[target[b.target].state]
  BY DEF Allows
<1>2. \A s \in ApplicationStates : applicationTransitions[s] \subseteq ApplicationStates
  BY DEF ApplicationStates, applicationTransitions
<1>3. QED
  BY <1>1, <1>2

-------------------------------------------------------------------------------
LEMMA InitType == Init => TypeOK
<1> SUFFICES ASSUME Init PROVE TypeOK
  OBVIOUS
<1>1. Idle.binding \in Bindings
  BY IdleType DEF Calls
<1>2. approval \in [Approvals -> ApprovalRows]
  BY <1>1 DEF Init, ApprovalRows, ApprovalStates
<1>3. target \in [Targets -> [state : TargetStates, revision : Nat]]
  <2>1. \A t \in Targets : Starts(t) \in [state : TargetStates, revision : Nat]
    BY KindCases DEF Starts, TargetStates, ApplicationStates
  <2>2. QED
    BY <2>1 DEF Init
<1>4. QED
  BY <1>2, <1>3, IdleType DEF Init, TypeOK, NoCorrection, Corrections

LEMMA TypeStep == TypeOK /\ FitsInv /\ ReliesInv /\ [Next]_vars => TypeOK'
<1> SUFFICES ASSUME TypeOK, FitsInv, ReliesInv, [Next]_vars PROVE TypeOK'
  OBVIOUS
<1>i. Idle \in Calls
  BY IdleType
<1>1. ASSUME NEW h \in Handlers, NEW t \in Targets, NEW d \in DetailsOf(t),
             RequestApproval(h, t, d)
      PROVE  TypeOK'
  <2>1. [target |-> t, revision |-> target[t].revision, details |-> d] \in Bindings
    BY CurrentType DEF Current
  <2>2. now + Lifetime \in Nat
    BY ConstantsAssumption DEF TypeOK
  <2>3. handler' \in [Handlers -> Calls]
    BY <2>1, <2>2, <1>1, <1>i DEF RequestApproval, TypeOK, Calls, Steps
  <2>4. QED
    BY <2>3, <1>1 DEF RequestApproval, TypeOK, tables
<1>2. ASSUME NEW h \in Handlers, NEW a \in Approvals, InsertApproval(h, a) PROVE TypeOK'
  <2>1. handler[h] \in Calls
    BY DEF TypeOK
  <2>2. [state |-> "pending", revision |-> 1, binding |-> handler[h].binding,
         expiresAt |-> handler[h].expiresAt, interaction |-> FALSE] \in ApprovalRows
    BY <2>1 DEF Calls, ApprovalRows, ApprovalStates, approvalTransitions
  <2>3. approval' \in [Approvals -> ApprovalRows]
    BY <2>2, <1>2 DEF InsertApproval, TypeOK
  <2>4. QED
    BY <2>3, <1>2, <1>i DEF InsertApproval, TypeOK, Finish
<1>3. ASSUME NEW h \in Handlers, NEW a \in Approvals,
             NEW decision \in {"approved", "denied"}, DecideApproval(h, a, decision)
      PROVE  TypeOK'
  <2>1. approval[a].revision \in Nat
    BY DEF TypeOK, ApprovalRows
  <2>2. PICK call \in {[Idle EXCEPT !.step = "expire", !.approval = a,
                                  !.approvalRevision = approval[a].revision],
                     [Idle EXCEPT !.step = "decide", !.approval = a, !.decision = decision,
                                  !.approvalRevision = approval[a].revision]} :
          handler' = [handler EXCEPT ![h] = call]
    BY <1>3 DEF DecideApproval
  <2>3. call \in Calls
    BY <2>1, <2>2, <1>i DEF Calls, Steps
  <2>4. handler' \in [Handlers -> Calls]
    BY <2>2, <2>3 DEF TypeOK
  <2>5. QED
    BY <2>4, <1>3 DEF DecideApproval, TypeOK, tables
<1>4. ASSUME NEW h \in Handlers, CommitDecision(h) PROVE TypeOK'
  <2>1. handler[h] \in Calls /\ handler[h].approval \in Approvals
    BY <1>4 DEF TypeOK, CommitDecision, ReliesInv, Relies
  <2>2. handler[h].decision \in {"approved", "denied"}
    BY <2>1 DEF Calls
  <2>3. approval' \in [Approvals -> ApprovalRows]
    BY <2>1, <2>2, <1>4 DEF CommitDecision, TypeOK, ApprovalRows, ApprovalStates,
                            approvalTransitions
  <2>4. QED
    BY <2>3, <1>4, <1>i DEF CommitDecision, TypeOK, Finish
<1>5. ASSUME NEW h \in Handlers, CommitExpiry(h) PROVE TypeOK'
  <2>1. handler[h] \in Calls /\ handler[h].approval \in Approvals
    BY <1>5 DEF TypeOK, CommitExpiry, ReliesInv, Relies
  <2>2. approval' \in [Approvals -> ApprovalRows]
    BY <2>1, <1>5 DEF CommitExpiry, TypeOK, ApprovalRows, ApprovalStates,
                      approvalTransitions
  <2>3. QED
    BY <2>2, <1>5, <1>i DEF CommitExpiry, TypeOK, Finish
<1>6. ASSUME NEW h \in Handlers, NEW a \in Approvals, NEW actor \in {"user", "agent"},
             NEW b \in {approval[a].binding} \cup Current, UseApproval(h, actor, a, b)
      PROVE  TypeOK'
  <2>1. approval[a].revision \in Nat /\ b \in Bindings
    BY CurrentType DEF TypeOK, ApprovalRows
  <2>2. PICK call \in {[Idle EXCEPT !.step = "expire", !.approval = a,
                                  !.approvalRevision = approval[a].revision],
                     [Idle EXCEPT !.step = "checkTarget", !.actor = actor, !.approval = a,
                                  !.approvalRevision = approval[a].revision,
                                  !.binding = b]} :
          handler' = [handler EXCEPT ![h] = call]
    BY <1>6 DEF UseApproval
  <2>3. call \in Calls
    BY <2>1, <2>2, <1>i DEF Calls, Steps
  <2>4. handler' \in [Handlers -> Calls]
    BY <2>2, <2>3 DEF TypeOK
  <2>5. QED
    BY <2>4, <1>6 DEF UseApproval, TypeOK, tables
<1>7. ASSUME NEW h \in Handlers, NEW t \in Targets, NEW d \in DetailsOf(t), ActAlone(h, t, d)
      PROVE  TypeOK'
  <2>1. [target |-> t, revision |-> target[t].revision, details |-> d] \in Bindings
    BY CurrentType DEF Current
  <2>2. handler' \in [Handlers -> Calls]
    BY <2>1, <1>7, <1>i DEF ActAlone, TypeOK, Calls, Steps
  <2>3. QED
    BY <2>2, <1>7 DEF ActAlone, TypeOK, tables
<1>8. ASSUME NEW h \in Handlers, CheckTarget(h) PROVE TypeOK'
  <2>1. handler' \in [Handlers -> Calls]
    BY <1>8, <1>i DEF CheckTarget, TypeOK, Finish, Calls, Steps
  <2>2. QED
    BY <2>1, <1>8 DEF CheckTarget, TypeOK, tables
<1>9. ASSUME NEW h \in Handlers, CommitEffect(h) PROVE TypeOK'
  <2>1. handler[h] \in Calls /\ handler[h].binding \in Bindings
    BY DEF TypeOK, Calls
  <2>2. handler[h].binding.target \in Targets /\ Result(handler[h].binding) \in TargetStates
    BY <2>1, <1>9, ResultType DEF Bindings, FitsInv, Fits, CommitEffect
  <2>3. target' \in [Targets -> [state : TargetStates, revision : Nat]]
    BY <2>2, <1>9 DEF CommitEffect, TypeOK
  <2>4. approval' \in [Approvals -> ApprovalRows]
    BY <2>1, <1>9 DEF CommitEffect, TypeOK, ApprovalRows, ApprovalStates,
                      approvalTransitions, Calls
  <2>5. effects' \in SUBSET [binding : Bindings, approval : Approvals \cup {NoApproval},
                             actor : {"user", "agent"}]
    BY <2>1, <1>9 DEF CommitEffect, TypeOK, Calls
  <2>6. handler' \in [Handlers -> Calls]
    BY <1>9, <1>i DEF CommitEffect, Finish, TypeOK
  <2>7. QED
    BY <2>3, <2>4, <2>5, <2>6, <1>9 DEF CommitEffect, TypeOK
<1>10. ASSUME NEW t \in Targets, InsertComparison(t) PROVE TypeOK'
  BY <1>10 DEF InsertComparison, TypeOK, TargetStates
<1>15. CASE ListComparisons \/ ListArtifacts
  <2>1. correction' \in Corrections
    BY <1>15 DEF ListComparisons, ListArtifacts, TypeOK, Corrections
  <2>2. QED
    BY <2>1, <1>15 DEF ListComparisons, ListArtifacts, TypeOK, tables
<1>16. CASE CommitCorrection
  <2>1. target' \in [Targets -> [state : TargetStates, revision : Nat]]
    BY <1>16 DEF CommitCorrection, TypeOK, TargetStates
  <2>2. correction' \in Corrections /\ inputs' \in {"completed", "stale"}
    BY <1>16 DEF CommitCorrection, TypeOK, Corrections, NoCorrection
  <2>3. QED
    BY <2>1, <2>2, <1>16 DEF CommitCorrection, TypeOK
<1>11. CASE Tick
  BY <1>11 DEF Tick, TypeOK, tables
<1>12. CASE Crash
  <2>1. correction' \in Corrections
    BY <1>12 DEF Crash, TypeOK, Corrections, NoCorrection
  <2>2. QED
    BY <2>1, <1>12, <1>i DEF Crash, TypeOK, tables
<1>13. CASE UNCHANGED vars
  BY <1>13 DEF vars, tables, TypeOK
<1>14. QED
  BY <1>1, <1>2, <1>3, <1>4, <1>5, <1>6, <1>7, <1>8, <1>9, <1>10, <1>11, <1>12, <1>13,
     <1>15, <1>16 DEF Next

-------------------------------------------------------------------------------
\* A step leaves an approval alone or raises its revision, and an approval that
\* exists keeps what it is bound to.
LEMMA ApprovalAdvances ==
  ASSUME IInv, [Next]_vars, NEW a \in Approvals
  PROVE  \/ approval'[a] = approval[a]
         \/ /\ approval'[a].revision = approval[a].revision + 1
            /\ approval'[a].state # "absent"
            /\ approval[a].state \in {"absent", "pending", "approved"}
            /\ approval[a].state # "absent" => approval'[a].binding = approval[a].binding
<1> DEFINE Advances == \/ approval'[a] = approval[a]
                       \/ /\ approval'[a].revision = approval[a].revision + 1
                          /\ approval'[a].state # "absent"
                          /\ approval[a].state \in {"absent", "pending", "approved"}
                          /\ approval[a].state # "absent" =>
                               approval'[a].binding = approval[a].binding
<1>t. approval \in [Approvals -> ApprovalRows]
  BY DEF IInv, TypeOK
<1>1. ASSUME NEW h \in Handlers, NEW b \in Approvals, InsertApproval(h, b) PROVE Advances
  BY <1>1, <1>t DEF InsertApproval, IInv, ApprovalInv, ApprovalRows
<1>2. ASSUME NEW h \in Handlers, CommitDecision(h) PROVE Advances
  <2>1. handler[h].decision \in {"approved", "denied"}
    BY DEF IInv, TypeOK, Calls
  <2>2. QED
    BY <1>2, <2>1, <1>t DEF CommitDecision, IInv, ReliesInv, Relies, StillSo, ApprovalRows
<1>3. ASSUME NEW h \in Handlers, CommitExpiry(h) PROVE Advances
  BY <1>3, <1>t DEF CommitExpiry, IInv, ReliesInv, Relies, StillSo, ApprovalRows
<1>4. ASSUME NEW h \in Handlers, CommitEffect(h) PROVE Advances
  BY <1>4, <1>t DEF CommitEffect, IInv, ReliesInv, Relies, StillSo, Approves, ApprovalRows
<1>5. ASSUME UNCHANGED approval PROVE Advances
  BY <1>5
<1>6. QED
  BY <1>1, <1>2, <1>3, <1>4, <1>5, ZenonT(60)
     DEF Next, vars, tables, RequestApproval, DecideApproval, UseApproval, ActAlone,
         CheckTarget, InsertComparison, ListComparisons, ListArtifacts, CommitCorrection,
         Tick, Crash

\* The steps of handlers other than the commit of an effect.
Others(h) ==
  \/ \E a \in Approvals :
       \/ InsertApproval(h, a)
       \/ \E decision \in {"approved", "denied"} : DecideApproval(h, a, decision)
       \/ \E actor \in {"user", "agent"}, b \in {approval[a].binding} \cup Current :
            UseApproval(h, actor, a, b)
  \/ \E t \in Targets : \E d \in DetailsOf(t) : RequestApproval(h, t, d) \/ ActAlone(h, t, d)
  \/ CommitDecision(h) \/ CommitExpiry(h) \/ CheckTarget(h)

LEMMA OthersKeep ==
  ASSUME NEW h \in Handlers, Others(h)
  PROVE  UNCHANGED <<target, inputs, correction, effects>>
BY DEF Others, tables, RequestApproval, InsertApproval, DecideApproval, CommitDecision,
       CommitExpiry, UseApproval, ActAlone, CheckTarget

LEMMA NextCases ==
  ASSUME [Next]_vars
  PROVE  \/ \E h \in Handlers : Others(h) \/ CommitEffect(h)
         \/ \E t \in Targets : InsertComparison(t)
         \/ ListComparisons \/ ListArtifacts \/ CommitCorrection
         \/ Tick \/ Crash \/ UNCHANGED vars
BY DEF Next, Others

\* A step leaves a target alone or raises its revision.  A target that is left
\* alone and was not about to be missed by the correction is not missed by it.
LEMMA TargetAdvances ==
  ASSUME IInv, [Next]_vars, NEW t \in Targets
  PROVE  \/ /\ target'[t] = target[t]
            /\ inputs = "completed" \/ ~Listed(t) => inputs' = "completed" \/ ~Listed(t)'
         \/ target'[t].revision = target[t].revision + 1
<1> DEFINE Kept == /\ target'[t] = target[t]
                   /\ inputs = "completed" \/ ~Listed(t) => inputs' = "completed" \/ ~Listed(t)'
           Advances == Kept \/ target'[t].revision = target[t].revision + 1
<1>t. /\ target \in [Targets -> [state : TargetStates, revision : Nat]]
      /\ inputs \in {"completed", "stale"}
      /\ inputs = "stale" => correction.step = "done"
      /\ target[t].state = "absent" => target[t].revision = 0
  BY DEF IInv, TypeOK, CorrectionInv, TargetInv
<1>1. ASSUME NEW h \in Handlers, CommitEffect(h) PROVE Advances
  <2>1. target'[t] = target[t] \/ target'[t].revision = target[t].revision + 1
    BY <1>1, <1>t DEF CommitEffect
  <2>2. UNCHANGED <<inputs, correction>>
    BY <1>1 DEF CommitEffect
  <2>3. QED
    BY <2>1, <2>2 DEF Listed
<1>2. ASSUME NEW u \in Targets, InsertComparison(u) PROVE Advances
  <2>1. target'[t] = target[t] \/ target'[t].revision = target[t].revision + 1
    BY <1>2, <1>t DEF InsertComparison, IInv, TargetInv
  <2>2. UNCHANGED <<inputs, correction>>
    BY <1>2 DEF InsertComparison
  <2>3. QED
    BY <2>1, <2>2 DEF Listed
<1>3. CASE ListComparisons \/ ListArtifacts
  <2>1. UNCHANGED <<target, inputs>> /\ correction.step # "done"
    BY <1>3 DEF ListComparisons, ListArtifacts, tables
  <2>2. QED
    BY <1>t, <2>1
<1>4. CASE CommitCorrection
  <2>1. CASE UNCHANGED <<inputs, target>>
    BY <1>4, <1>t, <2>1 DEF CommitCorrection
  <2>2. CASE /\ target'[t] = IF Listed(t)
                               THEN [state |-> "stale", revision |-> target[t].revision + 1]
                               ELSE target[t]
             /\ correction' = [correction EXCEPT !.step = "done"]
    <3>1. correction'.listed = correction.listed
      BY <2>2 DEF IInv, TypeOK, Corrections
    <3>2. QED
      BY <2>2, <3>1 DEF Listed
  <2>3. QED
    BY <1>4, <2>1, <2>2 DEF CommitCorrection
<1>5. CASE UNCHANGED <<target, inputs, correction>>
  BY <1>5 DEF Listed
<1>6. CASE Crash
  BY <1>6, <1>t DEF Crash, tables, Listed
<1>7. CASE Tick \/ UNCHANGED vars
  BY <1>7, <1>5 DEF Tick, vars, tables
<1>8. QED
  BY <1>1, <1>2, <1>3, <1>4, <1>5, <1>6, <1>7, NextCases, OthersKeep

LEMMA TargetStep == IInv /\ [Next]_vars => TargetInv' /\ CorrectionInv'
<1> SUFFICES ASSUME IInv, [Next]_vars PROVE TargetInv' /\ CorrectionInv'
  OBVIOUS
<1>t. /\ target \in [Targets -> [state : TargetStates, revision : Nat]]
      /\ correction \in Corrections
  BY DEF IInv, TypeOK
<1>1. CASE UNCHANGED <<target, inputs, correction>>
  BY <1>1 DEF IInv, TargetInv, CorrectionInv
<1>2. ASSUME NEW h \in Handlers, CommitEffect(h) PROVE TargetInv' /\ CorrectionInv'
  <2> DEFINE b == handler[h].binding
  <2>1. CASE target' = [target EXCEPT ![b.target] =
                          [state |-> Result(b), revision |-> @.revision + 1]]
    <3>1. /\ b \in Bindings
          /\ KindOf[b.target] = "application.transition" => b.details \in ApplicationStates
      BY <1>2 DEF CommitEffect, IInv, TypeOK, Calls, FitsInv, Fits
    <3>2. Result(b) # "absent"
      BY <3>1, KindCases DEF Result, ApplicationStates, Bindings
    <3>3. QED
      BY <1>2, <1>t, <2>1, <3>2 DEF IInv, TargetInv, CorrectionInv, CommitEffect
  <2>2. QED
    BY <1>1, <1>2, <2>1 DEF CommitEffect
<1>3. ASSUME NEW u \in Targets, InsertComparison(u) PROVE TargetInv' /\ CorrectionInv'
  BY <1>3, <1>t DEF InsertComparison, IInv, TargetInv, CorrectionInv
<1>4. CASE ListComparisons \/ ListArtifacts
  BY <1>4 DEF ListComparisons, ListArtifacts, tables, IInv, TargetInv, CorrectionInv
<1>5. CASE CommitCorrection
  BY <1>5, <1>t DEF CommitCorrection, Corrections, IInv, TargetInv, CorrectionInv
<1>6. CASE Crash
  BY <1>6 DEF Crash, tables, IInv, TargetInv, CorrectionInv
<1>7. CASE Tick \/ UNCHANGED vars
  BY <1>7, <1>1 DEF Tick, vars, tables
<1>8. QED
  BY <1>1, <1>2, <1>3, <1>4, <1>5, <1>6, <1>7, NextCases, OthersKeep

LEMMA ApprovalStep == IInv /\ [Next]_vars => ApprovalInv'
<1> SUFFICES ASSUME IInv, [Next]_vars, NEW a \in Approvals
             PROVE  approval'[a].state = "absent" <=> approval'[a].revision = 0
  BY DEF ApprovalInv
<1>1. approval[a].revision \in Nat
  BY DEF IInv, TypeOK, ApprovalRows
<1>2. QED
  BY <1>1, ApprovalAdvances DEF IInv, ApprovalInv

\* What a handler has relied on and still does is not invalidated by a step.
LEMMA ReliesKept ==
  ASSUME IInv, [Next]_vars, NEW h \in Handlers, Relies(handler[h])
  PROVE  /\ handler[h].approvalRevision \in 1..approval'[handler[h].approval].revision
         /\ approval'[handler[h].approval].revision = handler[h].approvalRevision =>
              approval'[handler[h].approval] = approval[handler[h].approval]
<1>1. /\ handler[h].approval \in Approvals
      /\ handler[h].approvalRevision \in 1..approval[handler[h].approval].revision
  BY DEF IInv, ReliesInv
<1>2. approval[handler[h].approval].revision \in Nat
  BY <1>1 DEF IInv, TypeOK, ApprovalRows
<1>3. QED
  BY <1>1, <1>2, ApprovalAdvances

\* What a handler relies on holds after every step: its own, and another's.
LEMMA ReliesStep == IInv /\ [Next]_vars => ReliesInv'
<1> SUFFICES ASSUME IInv, [Next]_vars, NEW g \in Handlers
             PROVE  Relies(handler'[g]) =>
                      /\ handler'[g].approval \in Approvals
                      /\ handler'[g].approvalRevision
                           \in 1..approval'[handler'[g].approval].revision
                      /\ StillSo(handler[g])'
  BY DEF ReliesInv, Relies
<1> DEFINE Goal == Relies(handler'[g]) =>
                     /\ handler'[g].approval \in Approvals
                     /\ handler'[g].approvalRevision
                          \in 1..approval'[handler'[g].approval].revision
                     /\ StillSo(handler[g])'
<1>t. handler \in [Handlers -> Calls]
  BY DEF IInv, TypeOK
<1>1. CASE handler'[g] = handler[g]
  <2>1. ASSUME Relies(handler[g])
        PROVE  /\ handler[g].approvalRevision \in 1..approval'[handler[g].approval].revision
               /\ StillSo(handler[g])'
    <3>1. StillSo(handler[g])
      BY <2>1 DEF IInv, ReliesInv
    <3>2. QED
      BY <1>1, <2>1, <3>1, ReliesKept DEF StillSo, Approves
  <2>2. QED
    BY <1>1, <2>1 DEF IInv, ReliesInv
<1>2. CASE handler'[g] = Idle
  BY <1>2 DEF Idle, Relies
<1>3. ASSUME NEW t \in Targets, NEW d \in DetailsOf(t), RequestApproval(g, t, d)
      PROVE  Goal
  BY <1>3, <1>t DEF RequestApproval, Idle, Relies
<1>4. ASSUME NEW a \in Approvals, NEW decision \in {"approved", "denied"},
             DecideApproval(g, a, decision)
      PROVE  Goal
  <2>1. approval[a].revision \in Nat \ {0}
    BY <1>4 DEF DecideApproval, IInv, ApprovalInv, TypeOK, ApprovalRows
  <2>2. QED
    <3>1. UNCHANGED approval
      BY <1>4 DEF DecideApproval, tables
    <3>2. CASE /\ approval[a].state \in {"pending", "approved"}
               /\ handler' = [handler EXCEPT ![g] =
                    [Idle EXCEPT !.step = "expire", !.approval = a,
                                 !.approvalRevision = approval[a].revision]]
      BY <3>1, <3>2, <1>t, <2>1 DEF Idle, Relies, StillSo
    <3>3. CASE /\ approval[a].state = "pending"
               /\ handler' = [handler EXCEPT ![g] =
                    [Idle EXCEPT !.step = "decide", !.approval = a, !.decision = decision,
                                 !.approvalRevision = approval[a].revision]]
      BY <3>1, <3>3, <1>t, <2>1 DEF Idle, Relies, StillSo
    <3>4. QED
      BY <3>2, <3>3, <1>4 DEF DecideApproval
<1>5. ASSUME NEW a \in Approvals, NEW actor \in {"user", "agent"},
             NEW b \in {approval[a].binding} \cup Current, UseApproval(g, actor, a, b)
      PROVE  Goal
  <2>1. approval[a].revision \in Nat \ {0}
    BY <1>5 DEF UseApproval, Approves, IInv, ApprovalInv, TypeOK, ApprovalRows
  <2>2. QED
    <3>1. UNCHANGED approval
      BY <1>5 DEF UseApproval, tables
    <3>2. CASE /\ approval[a].state \in {"pending", "approved"}
               /\ handler' = [handler EXCEPT ![g] =
                    [Idle EXCEPT !.step = "expire", !.approval = a,
                                 !.approvalRevision = approval[a].revision]]
      BY <3>1, <3>2, <1>t, <2>1 DEF Idle, Relies, StillSo
    <3>3. CASE /\ Approves(a, b)
               /\ handler' = [handler EXCEPT ![g] =
                    [Idle EXCEPT !.step = "checkTarget", !.actor = actor, !.approval = a,
                                 !.approvalRevision = approval[a].revision, !.binding = b]]
      BY <3>1, <3>3, <1>t, <2>1 DEF Idle, Relies, StillSo, Approves
    <3>4. QED
      BY <3>2, <3>3, <1>5 DEF UseApproval
<1>6. ASSUME NEW t \in Targets, NEW d \in DetailsOf(t), ActAlone(g, t, d)
      PROVE  Goal
  BY <1>6, <1>t DEF ActAlone, Idle, Relies
<1>7. CASE CheckTarget(g)
  <2>1. CASE handler' = [handler EXCEPT ![g].step = "effect"]
    <3>1. /\ handler[g].step = "checkTarget"
          /\ handler'[g] = [handler[g] EXCEPT !.step = "effect"]
          /\ UNCHANGED approval
      BY <1>7, <2>1, <1>t DEF CheckTarget, tables
    <3>2. handler[g] \in Calls
      BY <1>t
    <3>3. /\ handler'[g].step = "effect"
          /\ handler'[g].approval = handler[g].approval
          /\ handler'[g].approvalRevision = handler[g].approvalRevision
          /\ handler'[g].binding = handler[g].binding
      BY <3>1, <3>2 DEF Calls
    <3>4. Relies(handler'[g]) => Relies(handler[g])
      BY <3>1, <3>3 DEF Relies
    <3>5. StillSo(handler[g]) => StillSo(handler[g])'
      BY <3>1, <3>3 DEF StillSo, Approves
    <3>6. QED
      BY <3>1, <3>3, <3>4, <3>5 DEF IInv, ReliesInv
  <2>2. CASE handler'[g] = Idle
    BY <2>2, <1>2
  <2>3. QED
    BY <1>7, <2>1, <2>2, <1>t DEF CheckTarget, Finish
<1>8. QED
  <2>1. CASE \E h \in Handlers :
               \/ CommitDecision(h) \/ CommitExpiry(h) \/ CommitEffect(h)
               \/ \E a \in Approvals : InsertApproval(h, a)
    <3>1. handler'[g] = handler[g] \/ handler'[g] = Idle
      BY <2>1, <1>t DEF InsertApproval, CommitDecision, CommitExpiry, CommitEffect, Finish
    <3>2. QED
      BY <3>1, <1>1, <1>2
  <2>2. ASSUME NEW h \in Handlers, h # g, Others(h) PROVE Goal
    <3>1. handler'[g] = handler[g]
      BY <2>2, <1>t DEF Others, RequestApproval, InsertApproval, DecideApproval, CommitDecision,
                        CommitExpiry, UseApproval, ActAlone, CheckTarget, Finish
    <3>2. QED
      BY <3>1, <1>1
  <2>3. CASE \/ \E t \in Targets : InsertComparison(t)
             \/ ListComparisons \/ ListArtifacts \/ CommitCorrection
             \/ Tick \/ Crash \/ UNCHANGED vars
    <3>1. handler'[g] = handler[g] \/ handler'[g] = Idle
      BY <2>3 DEF InsertComparison, ListComparisons, ListArtifacts, CommitCorrection, Tick, Crash,
                  vars
    <3>2. QED
      BY <3>1, <1>1, <1>2
  <2>4. QED
    BY <1>3, <1>4, <1>5, <1>6, <1>7, <2>1, <2>2, <2>3, NextCases DEF Others

\* Every step that is not a new call or a check leaves each handler with what
\* it was about to do, or with nothing.
LEMMA HandlerKept ==
  ASSUME IInv, [Next]_vars, NEW g \in Handlers,
         handler'[g] # handler[g], handler'[g].step \in {"checkTarget", "effect"}
  PROVE  \/ handler'[g].step = "checkTarget" /\ handler'[g].approval \in Approvals
         \/ /\ handler'[g].step = "checkTarget"
            /\ handler'[g].actor = "user"
            /\ KindOf[handler'[g].binding.target] = "application.transition"
         \/ /\ CheckTarget(g)
            /\ handler' = [handler EXCEPT ![g].step = "effect"]
<1> DEFINE Goal == \/ handler'[g].step = "checkTarget" /\ handler'[g].approval \in Approvals
                   \/ /\ handler'[g].step = "checkTarget"
                      /\ handler'[g].actor = "user"
                      /\ KindOf[handler'[g].binding.target] = "application.transition"
                   \/ /\ CheckTarget(g)
                      /\ handler' = [handler EXCEPT ![g].step = "effect"]
<1>t. handler \in [Handlers -> Calls] /\ handler'[g] # Idle
  BY DEF IInv, TypeOK, Idle
<1>1. ASSUME NEW h \in Handlers, NEW t \in Targets, NEW d \in DetailsOf(t),
             RequestApproval(h, t, d)
      PROVE  Goal
  BY <1>1, <1>t DEF RequestApproval, Idle
<1>2. ASSUME NEW h \in Handlers, NEW a \in Approvals, NEW decision \in {"approved", "denied"},
             DecideApproval(h, a, decision)
      PROVE  Goal
  <2>1. PICK call \in {[Idle EXCEPT !.step = "expire", !.approval = a,
                                  !.approvalRevision = approval[a].revision],
                     [Idle EXCEPT !.step = "decide", !.approval = a, !.decision = decision,
                                  !.approvalRevision = approval[a].revision]} :
          handler' = [handler EXCEPT ![h] = call]
    BY <1>2 DEF DecideApproval
  <2>2. call.step \in {"expire", "decide"}
    BY <2>1 DEF Idle
  <2>3. QED
    BY <2>1, <2>2, <1>t
<1>3. ASSUME NEW h \in Handlers, NEW a \in Approvals, NEW actor \in {"user", "agent"},
             NEW b \in {approval[a].binding} \cup Current, UseApproval(h, actor, a, b)
      PROVE  Goal
  <2>1. PICK call \in {[Idle EXCEPT !.step = "expire", !.approval = a,
                                  !.approvalRevision = approval[a].revision],
                     [Idle EXCEPT !.step = "checkTarget", !.actor = actor, !.approval = a,
                                  !.approvalRevision = approval[a].revision,
                                  !.binding = b]} :
          handler' = [handler EXCEPT ![h] = call]
    BY <1>3 DEF UseApproval
  <2>2. call.step = "expire" \/ (call.step = "checkTarget" /\ call.approval = a)
    BY <2>1 DEF Idle
  <2>3. QED
    BY <2>1, <2>2, <1>t
<1>4. ASSUME NEW h \in Handlers, NEW t \in Targets, NEW d \in DetailsOf(t), ActAlone(h, t, d)
      PROVE  Goal
  BY <1>4, <1>t DEF ActAlone, Idle
<1>5. ASSUME NEW h \in Handlers, CheckTarget(h) PROVE Goal
  BY <1>5, <1>t DEF CheckTarget, Finish
<1>6. ASSUME NEW h \in Handlers,
             \/ CommitDecision(h) \/ CommitExpiry(h) \/ CommitEffect(h)
             \/ \E a \in Approvals : InsertApproval(h, a)
      PROVE  FALSE
  BY <1>6, <1>t DEF InsertApproval, CommitDecision, CommitExpiry, CommitEffect, Finish
<1>7. ASSUME \/ \E t \in Targets : InsertComparison(t)
             \/ ListComparisons \/ ListArtifacts \/ CommitCorrection
             \/ Tick \/ Crash \/ UNCHANGED vars
      PROVE  FALSE
  BY <1>7, <1>t DEF InsertComparison, ListComparisons, ListArtifacts, CommitCorrection, Tick,
                    Crash, vars
<1>8. QED
  BY <1>1, <1>2, <1>3, <1>4, <1>5, <1>6, <1>7, NextCases DEF Others

LEMMA AloneStep == IInv /\ [Next]_vars => AloneInv'
<1> SUFFICES ASSUME IInv, [Next]_vars, NEW g \in Handlers,
                    handler'[g].step \in {"checkTarget", "effect"},
                    handler'[g].approval = NoApproval
             PROVE  /\ handler'[g].actor = "user"
                    /\ KindOf[handler'[g].binding.target] = "application.transition"
  BY DEF AloneInv
<1>1. CASE handler'[g] = handler[g]
  BY <1>1 DEF IInv, AloneInv
<1>2. CASE CheckTarget(g) /\ handler' = [handler EXCEPT ![g].step = "effect"]
  <2>1. /\ handler'[g].actor = handler[g].actor
        /\ handler'[g].approval = handler[g].approval
        /\ handler'[g].binding = handler[g].binding
    BY <1>2 DEF IInv, TypeOK, Calls
  <2>2. QED
    BY <2>1, <1>2 DEF CheckTarget, IInv, AloneInv
<1>3. QED
  BY <1>1, <1>2, HandlerKept, ConstantsAssumption

LEMMA FitsStep == IInv /\ [Next]_vars => FitsInv'
<1> SUFFICES ASSUME IInv, [Next]_vars, NEW g \in Handlers, handler'[g].step = "effect"
             PROVE  Fits(handler[g].binding)'
  BY DEF FitsInv, Fits
<1>b. /\ handler[g].binding \in Bindings /\ handler[g].binding.target \in Targets
      /\ handler[g].binding.revision \in Nat
      /\ target[handler[g].binding.target].revision \in Nat
  BY DEF IInv, TypeOK, Calls, Bindings
<1>1. CASE handler'[g] = handler[g]
  <2>1. Fits(handler[g].binding)
    BY <1>1 DEF IInv, FitsInv
  <2>2. QED
    BY <1>1, <1>b, <2>1, TargetAdvances DEF Fits
<1>2. CASE CheckTarget(g) /\ handler' = [handler EXCEPT ![g].step = "effect"]
  <2>1. /\ handler'[g].binding = handler[g].binding
        /\ UNCHANGED <<target, inputs, correction>>
    BY <1>2 DEF IInv, TypeOK, Calls, CheckTarget, tables
  <2>2. /\ target[handler[g].binding.target].revision = handler[g].binding.revision
        /\ Allows(handler[g].binding)
        /\ KindOf[handler[g].binding.target] = "comparison.accept" => inputs = "completed"
    <3>1. handler'[g] # Idle
      BY DEF Idle
    <3>2. QED
      BY <1>2, <3>1 DEF CheckTarget, Finish, IInv, TypeOK
  <2>3. QED
    BY <2>1, <2>2, <1>b, AllowedDetails DEF Fits
<1>3. QED
  BY <1>1, <1>2, HandlerKept

-------------------------------------------------------------------------------
\* Only the commit of an effect consumes an approval or leaves an effect.
LEMMA OnlyCommits ==
  ASSUME IInv, [Next]_vars, ~ \E h \in Handlers : CommitEffect(h)
  PROVE  /\ effects' = effects
         /\ \A a \in Approvals :
              approval'[a].state = "consumed" <=> approval[a].state = "consumed"
<1>1. ASSUME NEW a \in Approvals, approval[a].state = "consumed"
      PROVE  approval'[a].state = "consumed"
  BY <1>1, ApprovalAdvances
<1>t. approval \in [Approvals -> ApprovalRows]
  BY DEF IInv, TypeOK
<1>2. ASSUME NEW h \in Handlers, NEW b \in Approvals, InsertApproval(h, b), NEW a \in Approvals,
             approval'[a].state = "consumed"
      PROVE  approval[a].state = "consumed"
  BY <1>2, <1>t DEF InsertApproval
<1>3. ASSUME NEW h \in Handlers, CommitDecision(h), NEW a \in Approvals,
             approval'[a].state = "consumed"
      PROVE  approval[a].state = "consumed"
  <2>1. handler[h].decision \in {"approved", "denied"}
    BY DEF IInv, TypeOK, Calls
  <2>2. QED
    BY <2>1, <1>3, <1>t DEF CommitDecision, ApprovalRows
<1>4. ASSUME NEW h \in Handlers, CommitExpiry(h), NEW a \in Approvals,
             approval'[a].state = "consumed"
      PROVE  approval[a].state = "consumed"
  BY <1>4, <1>t DEF CommitExpiry, ApprovalRows
<1>5. effects' = effects
  <2>1. CASE \/ \E t \in Targets : InsertComparison(t)
             \/ ListComparisons \/ ListArtifacts \/ CommitCorrection
             \/ Tick \/ Crash \/ UNCHANGED vars
    BY <2>1 DEF InsertComparison, ListComparisons, ListArtifacts, CommitCorrection, Tick, Crash,
                vars
  <2>2. QED
    BY <2>1, NextCases, OthersKeep
<1>6. approval' = approval \/ \E h \in Handlers : \/ \E a \in Approvals : InsertApproval(h, a)
                                                  \/ CommitDecision(h) \/ CommitExpiry(h)
  BY ZenonT(60) DEF Next, vars, tables, RequestApproval, DecideApproval, UseApproval, ActAlone,
         CheckTarget, InsertComparison, ListComparisons, ListArtifacts, CommitCorrection,
         Tick, Crash
<1>7. QED
  BY <1>1, <1>2, <1>3, <1>4, <1>5, <1>6

\* What a committed effect relied on, and what it leaves.
LEMMA CommitFacts ==
  ASSUME IInv, NEW h \in Handlers, CommitEffect(h), effects' # effects
  PROVE  LET call == handler[h]
             b == call.binding
             a == call.approval
             e == [binding |-> b, approval |-> a, actor |-> call.actor]
         IN /\ effects' = effects \cup {e}
            /\ b \in Bindings
            /\ target[b.target].revision = b.revision
            /\ target'[b.target].revision = b.revision + 1
            /\ target'[b.target].state = Result(b)
            /\ IF a = NoApproval
                 THEN /\ approval' = approval
                      /\ call.actor = "user"
                      /\ KindOf[b.target] = "application.transition"
                 ELSE /\ a \in Approvals
                      /\ Approves(a, b)
                      /\ approval' = [approval EXCEPT ![a].state = "consumed",
                                                      ![a].revision = @ + 1]
<1> DEFINE call == handler[h]
           b == call.binding
           a == call.approval
<1>1. /\ call \in Calls /\ b \in Bindings /\ b.target \in Targets /\ b.revision \in Nat
  BY DEF IInv, TypeOK, Calls, Bindings
<1>2. /\ call.step = "effect"
      /\ target[b.target].revision = b.revision
      /\ a # NoApproval => approval[a].revision = call.approvalRevision
      /\ target' = [target EXCEPT ![b.target] = [state |-> Result(b), revision |-> @.revision + 1]]
      /\ approval' = IF a = NoApproval THEN approval
                     ELSE [approval EXCEPT ![a].state = "consumed", ![a].revision = @ + 1]
      /\ effects' = effects \cup {[binding |-> b, approval |-> a, actor |-> call.actor]}
  BY DEF CommitEffect
<1>3. /\ target'[b.target].revision = b.revision + 1
      /\ target'[b.target].state = Result(b)
  BY <1>1, <1>2 DEF IInv, TypeOK
<1>4. CASE a = NoApproval
  BY <1>1, <1>2, <1>3, <1>4 DEF IInv, AloneInv
<1>5. CASE a # NoApproval
  <2>1. a \in Approvals /\ Approves(a, b)
    BY <1>2, <1>5 DEF IInv, ReliesInv, Relies, StillSo
  <2>2. QED
    BY <1>1, <1>2, <1>3, <1>5, <2>1
<1>6. QED
  BY <1>4, <1>5

\* The four facts about effects, for a step that leaves them alone.
LEMMA EffectsKept ==
  ASSUME IInv, [Next]_vars, effects' = effects,
         \A a \in Approvals : approval'[a].state = "consumed" <=> approval[a].state = "consumed"
  PROVE  EffectsInv' /\ ConsumedOnce' /\ EffectIsTheApprovedOne' /\ OneEffectPerRevision'
<1>1. ASSUME NEW e \in effects PROVE e.binding.revision < target'[e.binding.target].revision
  <2>1. /\ e.binding.revision < target[e.binding.target].revision
        /\ e.binding.target \in Targets /\ e.binding.revision \in Nat
        /\ target[e.binding.target].revision \in Nat
    BY DEF IInv, EffectsInv, TypeOK, Bindings
  <2>2. QED
    BY <2>1, TargetAdvances
<1>2. ConsumedOnce'
  BY DEF IInv, ConsumedOnce
<1>3. ASSUME NEW e \in effects, e.approval # NoApproval
      PROVE  approval'[e.approval] = approval[e.approval]
  <2>1. e.approval \in Approvals /\ approval[e.approval].state = "consumed"
    BY <1>3 DEF IInv, TypeOK, ConsumedOnce
  <2>2. QED
    BY <2>1, ApprovalAdvances
<1>4. EffectIsTheApprovedOne'
  BY <1>3 DEF IInv, EffectIsTheApprovedOne
<1>5. OneEffectPerRevision'
  BY DEF IInv, OneEffectPerRevision
<1>6. QED
  BY <1>1, <1>2, <1>4, <1>5 DEF EffectsInv

LEMMA EffectsStep ==
  IInv /\ [Next]_vars =>
    EffectsInv' /\ ConsumedOnce' /\ EffectIsTheApprovedOne' /\ OneEffectPerRevision'
<1> SUFFICES ASSUME IInv, [Next]_vars
             PROVE  EffectsInv' /\ ConsumedOnce' /\ EffectIsTheApprovedOne'
                    /\ OneEffectPerRevision'
  OBVIOUS
<1>1. CASE ~ \E h \in Handlers : CommitEffect(h)
  BY <1>1, OnlyCommits, EffectsKept
<1>2. ASSUME NEW h \in Handlers, CommitEffect(h), approval' = approval, effects' = effects
      PROVE  EffectsInv' /\ ConsumedOnce' /\ EffectIsTheApprovedOne' /\ OneEffectPerRevision'
  BY <1>2, EffectsKept
<1>3. ASSUME NEW h \in Handlers, CommitEffect(h), effects' # effects
      PROVE  EffectsInv' /\ ConsumedOnce' /\ EffectIsTheApprovedOne' /\ OneEffectPerRevision'
  <2> DEFINE call == handler[h]
             b == call.binding
             a == call.approval
             new == [binding |-> b, approval |-> a, actor |-> call.actor]
  <2>1. /\ effects' = effects \cup {new}
        /\ b \in Bindings /\ b.target \in Targets /\ b.revision \in Nat
        /\ target[b.target].revision = b.revision
        /\ target'[b.target].revision = b.revision + 1
    BY <1>3, CommitFacts DEF Bindings
  <2>2. ASSUME NEW e \in effects
        PROVE  /\ e.binding.revision < target'[e.binding.target].revision
               /\ e.binding.target = b.target => e.binding.revision < b.revision
               /\ e.approval = NoApproval \/ e.approval \in Approvals
    <3>1. /\ e.binding.revision < target[e.binding.target].revision
          /\ e.binding.target \in Targets /\ e.binding.revision \in Nat
          /\ target[e.binding.target].revision \in Nat
          /\ e.approval = NoApproval \/ e.approval \in Approvals
      BY DEF IInv, EffectsInv, TypeOK, Bindings
    <3>2. QED
      BY <2>1, <3>1, TargetAdvances
  <2>3. EffectsInv'
    BY <2>1, <2>2 DEF EffectsInv
  <2>4. OneEffectPerRevision'
    <3>1. ASSUME NEW e \in effects, e.binding.target = b.target, e.binding.revision = b.revision
          PROVE  FALSE
      BY <2>1, <2>2, <3>1 DEF IInv, TypeOK, Bindings
    <3>2. QED
      BY <2>1, <3>1 DEF IInv, OneEffectPerRevision
  <2>5. CASE a = NoApproval
    <3>1. approval' = approval /\ call.actor = "user"
          /\ KindOf[b.target] = "application.transition"
      BY <1>3, <2>5, CommitFacts
    <3>2. ConsumedOnce'
      BY <2>1, <2>5, <3>1, ConstantsAssumption DEF IInv, ConsumedOnce
    <3>3. EffectIsTheApprovedOne'
      BY <2>1, <2>5, <3>1 DEF IInv, EffectIsTheApprovedOne
    <3>4. QED
      BY <2>3, <2>4, <3>2, <3>3
  <2>6. CASE a # NoApproval
    <3>1. /\ a \in Approvals /\ Approves(a, b)
          /\ approval' = [approval EXCEPT ![a].state = "consumed", ![a].revision = @ + 1]
      BY <1>3, <2>6, CommitFacts
    <3>2. approval \in [Approvals -> ApprovalRows]
      BY DEF IInv, TypeOK
    <3>3. \A e \in effects : e.approval # a
      BY <3>1 DEF IInv, ConsumedOnce, Approves
    <3>4. /\ approval'[a].state = "consumed" /\ approval'[a].binding = b
          /\ approval'[a].interaction
      BY <3>1, <3>2 DEF Approves, ApprovalRows
    <3>5. \A c \in Approvals : c # a => approval'[c] = approval[c]
      BY <3>1, <3>2
    <3>6. ConsumedOnce'
      <4>1. ASSUME NEW c \in Approvals
            PROVE  /\ \A e, f \in effects' : e.approval = c /\ f.approval = c => e = f
                   /\ approval'[c].state = "consumed" <=> \E e \in effects' : e.approval = c
        <5>1. new.approval = a
          OBVIOUS
        <5>2. CASE c = a
          BY <2>1, <3>3, <3>4, <5>1, <5>2
        <5>3. CASE c # a
          <6>1. \A e \in effects' : e.approval = c => e \in effects
            BY <2>1, <5>1, <5>3
          <6>2. /\ \A e, f \in effects : e.approval = c /\ f.approval = c => e = f
                /\ approval[c].state = "consumed" <=> \E e \in effects : e.approval = c
            BY DEF IInv, ConsumedOnce
          <6>3. QED
            BY <2>1, <3>5, <5>3, <6>1, <6>2
        <5>4. QED
          BY <5>2, <5>3
      <4>2. QED
        BY <4>1 DEF ConsumedOnce
    <3>7. EffectIsTheApprovedOne'
      BY <2>1, <2>2, <2>6, <3>3, <3>4, <3>5 DEF IInv, EffectIsTheApprovedOne
    <3>8. QED
      BY <2>3, <2>4, <3>6, <3>7
  <2>7. QED
    BY <2>5, <2>6
<1>4. ASSUME NEW h \in Handlers, CommitEffect(h), effects' = effects, approval' # approval
      PROVE  FALSE
  <2>1. /\ handler[h].step = "effect" /\ handler[h].approval # NoApproval
        /\ approval[handler[h].approval].revision = handler[h].approvalRevision
        /\ [binding |-> handler[h].binding, approval |-> handler[h].approval,
            actor |-> handler[h].actor] \in effects
    BY <1>4 DEF CommitEffect
  <2>2. approval[handler[h].approval].state = "approved" /\ handler[h].approval \in Approvals
    BY <2>1 DEF IInv, ReliesInv, Relies, StillSo, Approves
  <2>3. approval[handler[h].approval].state = "consumed"
    BY <2>1, <2>2 DEF IInv, ConsumedOnce
  <2>4. QED
    BY <2>2, <2>3
<1>5. QED
  BY <1>1, <1>2, <1>3, <1>4

-------------------------------------------------------------------------------
LEMMA InitInv == Init => IInv
<1> SUFFICES ASSUME Init PROVE IInv
  OBVIOUS
<1>1. ApprovalInv /\ TargetInv /\ CorrectionInv
  BY KindCases DEF Init, ApprovalInv, TargetInv, CorrectionInv, Starts
<1>2. ReliesInv /\ AloneInv /\ FitsInv
  BY DEF Init, ReliesInv, AloneInv, FitsInv, Relies, Idle
<1>3. EffectsInv /\ ConsumedOnce /\ EffectIsTheApprovedOne /\ OneEffectPerRevision
  BY DEF Init, EffectsInv, ConsumedOnce, EffectIsTheApprovedOne, OneEffectPerRevision
<1>4. QED
  BY InitType, <1>1, <1>2, <1>3 DEF IInv

LEMMA InvStep == IInv /\ [Next]_vars => IInv'
<1> SUFFICES ASSUME IInv, [Next]_vars PROVE IInv'
  OBVIOUS
<1>1. TypeOK'
  BY TypeStep DEF IInv
<1>2. QED
  BY <1>1, ApprovalStep, TargetStep, ReliesStep, AloneStep, FitsStep, EffectsStep DEF IInv

\* The invariant of the handlers, the approvals and their effects is inductive.
THEOREM ApprovalsInvariant == Spec => []IInv
BY InitInv, InvStep, PTL DEF Spec

\* Every variable of the approvals keeps its type.
THEOREM ApprovalsTypeCorrect == Spec => []TypeOK
<1>1. IInv => TypeOK
  BY DEF IInv
<1>2. QED
  BY ApprovalsInvariant, <1>1, PTL

\* requireApprovedEffect and the commits that consume: however many handlers read
\* one approval as approved, it authorises one effect and is consumed by it.
THEOREM ConsumedOnceTheorem == Spec => []ConsumedOnce
<1>1. IInv => ConsumedOnce
  BY DEF IInv
<1>2. QED
  BY ApprovalsInvariant, <1>1, PTL

\* requireApprovedEffect: an effect that names an approval is the one the user
\* was shown and approved; without one only the user acts, on applications.
THEOREM ApprovedEffectTheorem == Spec => []EffectIsTheApprovedOne
<1>1. IInv => EffectIsTheApprovedOne
  BY DEF IInv
<1>2. QED
  BY ApprovalsInvariant, <1>1, PTL

\* The revision checks of the effects' commits: no revision of a comparison, a
\* draft or an application is acted on twice.
THEOREM OneEffectTheorem == Spec => []OneEffectPerRevision
<1>1. IInv => OneEffectPerRevision
  BY DEF IInv
<1>2. QED
  BY ApprovalsInvariant, <1>1, PTL

\* APPROVAL_TRANSITIONS: no race of a decision, an expiry and a consumption takes
\* an approval off its graph.
THEOREM ApprovalGraphTheorem == Spec => ApprovalsFollowTheirGraph
<1> DEFINE Follows(a) == approval[a].state \notin {"absent", approval'[a].state}
                           => approval'[a].state \in approvalTransitions[approval[a].state]
<1>1. ASSUME IInv, [Next]_vars, NEW a \in Approvals PROVE Follows(a)
  <2>t. approval \in [Approvals -> ApprovalRows]
    BY <1>1 DEF IInv, TypeOK
  <2>1. ASSUME NEW h \in Handlers, NEW b \in Approvals, InsertApproval(h, b) PROVE Follows(a)
    BY <2>1, <2>t DEF InsertApproval, ApprovalRows
  <2>2. ASSUME NEW h \in Handlers, CommitDecision(h) PROVE Follows(a)
    <3>1. /\ handler[h].decision \in {"approved", "denied"}
          /\ approval[handler[h].approval].revision = handler[h].approvalRevision =>
               approval[handler[h].approval].state = "pending"
      BY <1>1, <2>2 DEF IInv, TypeOK, Calls, ReliesInv, Relies, StillSo, CommitDecision
    <3>2. QED
      BY <2>2, <3>1, <2>t DEF CommitDecision, ApprovalRows, approvalTransitions
  <2>3. ASSUME NEW h \in Handlers, CommitExpiry(h) PROVE Follows(a)
    <3>1. approval[handler[h].approval].revision = handler[h].approvalRevision =>
            approval[handler[h].approval].state \in {"pending", "approved"}
      BY <1>1, <2>3 DEF IInv, ReliesInv, Relies, StillSo, CommitExpiry
    <3>2. QED
      BY <2>3, <3>1, <2>t DEF CommitExpiry, ApprovalRows, approvalTransitions
  <2>4. ASSUME NEW h \in Handlers, CommitEffect(h) PROVE Follows(a)
    <3>1. CASE approval' = approval
      BY <3>1
    <3>2. CASE approval' # approval
      <4>1. LET b == handler[h].approval IN
            /\ approval' = [approval EXCEPT ![b].state = "consumed", ![b].revision = @ + 1]
            /\ approval[b].state = "approved"
        BY <1>1, <2>4, <3>2
           DEF CommitEffect, IInv, ReliesInv, Relies, StillSo, Approves
      <4>2. QED
        BY <4>1, <2>t DEF ApprovalRows, approvalTransitions
    <3>3. QED
      BY <3>1, <3>2
  <2>5. approval' = approval \/ \E h \in Handlers : \/ \E b \in Approvals : InsertApproval(h, b)
                                                    \/ CommitDecision(h)
                                                    \/ CommitExpiry(h) \/ CommitEffect(h)
    BY <1>1, ZenonT(60) DEF Next, vars, tables, RequestApproval, DecideApproval, UseApproval, ActAlone,
         CheckTarget, InsertComparison, ListComparisons, ListArtifacts, CommitCorrection,
         Tick, Crash
  <2>6. QED
    BY <2>1, <2>2, <2>3, <2>4, <2>5
<1>2. IInv /\ [Next]_vars => [\A a \in Approvals : Follows(a)]_vars
  BY <1>1
<1>3. QED
  BY ApprovalsInvariant, <1>2, PTL DEF Spec, ApprovalsFollowTheirGraph

\* acceptComparison against correctVerifiedFact: though each reads at awaits of its
\* own before its commit, a comparison that the correction found on record is not
\* accepted on evaluations the correction has marked.
THEOREM AcceptedInTime == Spec => ListedIsAcceptedInTime
<1> DEFINE InTime(t) == Accepts(t) /\ Listed(t) => inputs = "completed"
<1>1. ASSUME IInv, [Next]_vars, NEW t \in Targets PROVE InTime(t)
  <2>t. target \in [Targets -> [state : TargetStates, revision : Nat]]
    BY <1>1 DEF IInv, TypeOK
  <2>1. ASSUME NEW h \in Handlers, CommitEffect(h), Accepts(t), Listed(t)
        PROVE  inputs = "completed"
    <3>1. /\ handler[h].binding \in Bindings /\ Fits(handler[h].binding)
          /\ handler[h].binding.target = t /\ handler[h].binding.revision = target[t].revision
          /\ target'[t].state = Result(handler[h].binding)
      BY <1>1, <2>1, <2>t DEF Accepts, CommitEffect, IInv, FitsInv, TypeOK, Calls
    <3>2. KindOf[t] = "comparison.accept"
      BY <2>1, <3>1, ResultType DEF Accepts, Fits
    <3>3. QED
      BY <2>1, <3>1, <3>2 DEF Fits
  <2>2. ASSUME NEW u \in Targets, InsertComparison(u) PROVE ~Accepts(t)
    BY <2>2, <2>t DEF InsertComparison, Accepts
  <2>3. CASE CommitCorrection
    BY <2>3, <2>t DEF CommitCorrection, Accepts
  <2>4. CASE ListComparisons \/ ListArtifacts \/ Tick \/ Crash \/ UNCHANGED vars
    BY <2>4 DEF ListComparisons, ListArtifacts, Tick, Crash, vars, tables, Accepts
  <2>5. QED
    BY <1>1, <2>1, <2>2, <2>3, <2>4, NextCases, OthersKeep DEF Accepts
<1>2. IInv /\ [Next]_vars => [\A t \in Targets : InTime(t)]_vars
  BY <1>1
<1>3. QED
  BY ApprovalsInvariant, <1>2, PTL DEF Spec, ListedIsAcceptedInTime
===============================================================================
