------------------------------- MODULE Approvals -------------------------------
(***************************************************************************)
(* Approvals of workbench.ts and the three effects that consume one: the   *)
(* acceptance of a comparison, the review of a staged draft and the        *)
(* transition of an application.  Every handler reads first, at an await   *)
(* of its own for each record, checks what it read, and ends in one commit *)
(* that only succeeds if the rows it updates still have the revisions it   *)
(* read (module WorkspaceStore).  Handlers of the user, who decides and    *)
(* may act alone on applications, and of agents interleave between any two *)
(* awaits, and time passes.  Meanwhile comparisons are proposed, and the   *)
(* fact that everything rests on is corrected: correctVerifiedFact lists   *)
(* what to mark before it commits, and may miss what arrives in between.   *)
(***************************************************************************)
EXTENDS Naturals, FiniteSets

CONSTANTS
  Handlers,     \* requests the server can be serving at the same time
  Approvals,    \* identities of approvals
  Targets,      \* comparisons, drafts and applications
  KindOf,       \* KindOf[target]: the effect an approval for it is about
  NoApproval,   \* an effect that names no approval
  Requested,    \* bound: the application states a request may name
  Lifetime,     \* how long an approval may be used
  MaxTime       \* bound of the clock

EffectKinds == {"comparison.accept", "artifact.review", "application.transition"}

ASSUME ConstantsAssumption ==
  /\ Targets # {} /\ KindOf \in [Targets -> EffectKinds]
  /\ NoApproval \notin Approvals
  /\ Lifetime \in Nat /\ MaxTime \in Nat

ApplicationStates ==
  {"considering", "preparing", "ready_for_review", "applied", "responded", "interview",
   "offer", "hired", "rejected", "withdrawn", "closed"}

applicationTransitions ==
  [considering      |-> {"preparing", "withdrawn", "closed"},
   preparing        |-> {"ready_for_review", "withdrawn", "closed"},
   ready_for_review |-> {"applied", "withdrawn", "closed"},
   applied          |-> {"responded", "interview", "rejected", "withdrawn", "closed"},
   responded        |-> {"interview", "offer", "rejected", "withdrawn", "closed"},
   interview        |-> {"offer", "rejected", "withdrawn", "closed"},
   offer            |-> {"hired", "withdrawn", "closed"},
   hired            |-> {},
   rejected         |-> {},
   withdrawn        |-> {},
   closed           |-> {}]

ASSUME RequestedAssumption == Requested \subseteq ApplicationStates

approvalTransitions ==
  [pending  |-> {"approved", "denied", "expired"},
   approved |-> {"expired", "consumed"},
   denied   |-> {},
   expired  |-> {},
   consumed |-> {}]

VARIABLES
  now,          \* the clock
  approval,     \* the approvals table
  target,       \* the comparison, artifact and application tables
  inputs,       \* the evaluations the comparisons are bound to
  correction,   \* what correctVerifiedFact has listed and is about to mark
  handler,      \* what each handler has checked and is about to do
  effects       \* every effect that was committed

tables == <<approval, target, inputs>>
vars == <<now, tables, correction, handler, effects>>

-----------------------------------------------------------------------------
\* What an approval's effect digest binds: target and kind, revision, details.
\* Only an application transition has details, the state it leads to.
DetailsOf(t) == IF KindOf[t] = "application.transition" THEN Requested ELSE {"none"}
Details == ApplicationStates \cup {"none"}
Bindings == [target : Targets, revision : Nat, details : Details]

ApprovalStates == {"absent"} \cup DOMAIN approvalTransitions
ApprovalRows == [state : ApprovalStates, revision : Nat, binding : Bindings,
                 expiresAt : Nat, interaction : BOOLEAN]
TargetStates ==
  ApplicationStates \cup {"absent", "proposed", "accepted", "stale", "staged", "sealed"}

Steps == {"idle", "insert", "decide", "expire", "checkTarget", "effect"}
Calls == [step : Steps, actor : {"user", "agent"}, approval : Approvals \cup {NoApproval},
          approvalRevision : Nat, binding : Bindings,
          decision : {"approved", "denied"}, expiresAt : Nat]

\* A handler that is serving nothing.  Its other fields mean nothing.
Idle == [step |-> "idle", actor |-> "user", approval |-> NoApproval,
         approvalRevision |-> 0, decision |-> "denied", expiresAt |-> 0,
         binding |-> [target |-> CHOOSE t \in Targets : TRUE, revision |-> 0,
                      details |-> "none"]]

\* The revision each row had when it was listed, 0 for one that was not.
Corrections == [step : {"none", "listArtifacts", "commit", "done"}, listed : [Targets -> Nat]]
NoCorrection == [step |-> "none", listed |-> [t \in Targets |-> 0]]

\* The draft and the application are on record; the comparison is yet to come.
Starts(t) ==
  CASE KindOf[t] = "comparison.accept"      -> [state |-> "absent", revision |-> 0]
    [] KindOf[t] = "artifact.review"        -> [state |-> "staged", revision |-> 1]
    [] KindOf[t] = "application.transition" -> [state |-> "considering", revision |-> 1]

Init ==
  /\ now = 0
  /\ approval = [a \in Approvals |-> [state |-> "absent", revision |-> 0,
                                      binding |-> Idle.binding, expiresAt |-> 0,
                                      interaction |-> FALSE]]
  /\ target = [t \in Targets |-> Starts(t)]
  /\ inputs = "completed"
  /\ correction = NoCorrection
  /\ handler = [h \in Handlers |-> Idle]
  /\ effects = {}

\* The target can still take the effect.
Allows(b) ==
  LET state == target[b.target].state IN
  CASE KindOf[b.target] = "comparison.accept"      -> state = "proposed"
    [] KindOf[b.target] = "artifact.review"        -> state = "staged"
    [] KindOf[b.target] = "application.transition" ->
         state \in ApplicationStates /\ b.details \in applicationTransitions[state]

\* Fault: the requested details become the state, whatever the effect is.
ResultUnmapped(b) == b.details

\* The target's state once the effect has happened.
Result(b) == CASE KindOf[b.target] = "comparison.accept"      -> "accepted"
               [] KindOf[b.target] = "artifact.review"        -> "sealed"
               [] KindOf[b.target] = "application.transition" -> b.details

expired(a) == approval[a].expiresAt <= now

Finish(h) == handler' = [handler EXCEPT ![h] = Idle]

-----------------------------------------------------------------------------
\* requestApproval, up to its commit: the user asks for the approval of an
\* effect on the target as displayed, at its current revision.  (Bounds: there is
\* an identity left for it, and the clock outlives it.)
RequestApproval(h, t, d) ==
  LET b == [target |-> t, revision |-> target[t].revision, details |-> d] IN
  /\ handler[h].step = "idle"
  /\ Cardinality({a \in Approvals : approval[a].state = "absent"})
       > Cardinality({g \in Handlers : handler[g].step = "insert"})
  /\ now + Lifetime <= MaxTime
  /\ Allows(b)
  /\ handler' = [handler EXCEPT ![h] = [Idle EXCEPT !.step = "insert", !.binding = b,
                                                    !.expiresAt = now + Lifetime]]
  /\ UNCHANGED <<now, tables, correction, effects>>

\* The approval is inserted under a fresh identity.
InsertApproval(h, a) ==
  LET call == handler[h] IN
  /\ call.step = "insert"
  /\ approval[a].state = "absent"
  /\ approval' = [approval EXCEPT ![a] =
       [state |-> "pending", revision |-> 1, binding |-> call.binding,
        expiresAt |-> call.expiresAt, interaction |-> FALSE]]
  /\ Finish(h)
  /\ UNCHANGED <<now, target, inputs, correction, effects>>

\* decideApproval, up to its commit: an approval past its time is expired
\* instead, whatever was decided.
DecideApproval(h, a, decision) ==
  /\ handler[h].step = "idle"
  /\ \/ /\ expired(a) /\ approval[a].state \in {"pending", "approved"}
        /\ handler' = [handler EXCEPT ![h] =
             [Idle EXCEPT !.step = "expire", !.approval = a,
                          !.approvalRevision = approval[a].revision]]
     \/ /\ ~expired(a) /\ approval[a].state = "pending"
        /\ handler' = [handler EXCEPT ![h] =
             [Idle EXCEPT !.step = "decide", !.approval = a, !.decision = decision,
                          !.approvalRevision = approval[a].revision]]
  /\ UNCHANGED <<now, tables, correction, effects>>

CommitDecision(h) ==
  LET call == handler[h]
      a == call.approval
  IN /\ call.step = "decide"
     /\ IF approval[a].revision = call.approvalRevision
          THEN approval' = [approval EXCEPT ![a].state = call.decision,
                                            ![a].revision = @ + 1,
                                            ![a].interaction = call.decision = "approved"]
          ELSE UNCHANGED approval
     /\ Finish(h)
     /\ UNCHANGED <<now, target, inputs, correction, effects>>

\* Fault: the expiry is recorded without comparing revisions.
CommitExpiryBlind(h) ==
  /\ handler[h].step = "expire"
  /\ approval' = [approval EXCEPT ![handler[h].approval].state = "expired",
                                  ![handler[h].approval].revision = @ + 1]
  /\ Finish(h)
  /\ UNCHANGED <<now, target, inputs, correction, effects>>

\* expireApproval: a conflict is told as approval_stale and changes nothing.
CommitExpiry(h) ==
  LET call == handler[h]
      a == call.approval
  IN /\ call.step = "expire"
     /\ IF approval[a].revision = call.approvalRevision
          THEN approval' = [approval EXCEPT ![a].state = "expired", ![a].revision = @ + 1]
          ELSE UNCHANGED approval
     /\ Finish(h)
     /\ UNCHANGED <<now, target, inputs, correction, effects>>

-----------------------------------------------------------------------------
\* Who may perform an effect: drafts and comparisons need the user, whose
\* applications agents may move too.
MayPerform(actor, t) == actor = "user" \/ KindOf[t] = "application.transition"

\* Fault: the digest of the effect is not compared with the approved one.
ApprovesUnbound(a, b) ==
  /\ approval[a].state = "approved"
  /\ approval[a].binding.target = b.target
  /\ approval[a].interaction

\* requireApprovedEffect, for an approval inside its time.
Approves(a, b) ==
  /\ approval[a].state = "approved"
  /\ approval[a].binding = b
  /\ approval[a].interaction

\* The first half of an effect that names an approval: the approval is read,
\* and expired when it is past its time.
UseApproval(h, actor, a, b) ==
  /\ handler[h].step = "idle"
  /\ MayPerform(actor, b.target)
  /\ \/ /\ expired(a) /\ approval[a].state \in {"pending", "approved"}
        /\ handler' = [handler EXCEPT ![h] =
             [Idle EXCEPT !.step = "expire", !.approval = a,
                          !.approvalRevision = approval[a].revision]]
     \/ /\ ~expired(a) /\ Approves(a, b)
        /\ handler' = [handler EXCEPT ![h] =
             [Idle EXCEPT !.step = "checkTarget", !.actor = actor, !.approval = a,
                          !.approvalRevision = approval[a].revision, !.binding = b]]
  /\ UNCHANGED <<now, tables, correction, effects>>

\* transitionApplication by the user, who needs no approval for it.
ActAlone(h, t, d) ==
  /\ handler[h].step = "idle"
  /\ KindOf[t] = "application.transition"
  /\ handler' = [handler EXCEPT ![h] =
       [Idle EXCEPT !.step = "checkTarget",
                    !.binding = [target |-> t, revision |-> target[t].revision,
                                 details |-> d]]]
  /\ UNCHANGED <<now, tables, correction, effects>>

\* The second half: the target is read and has to be the one the caller means,
\* in a state that takes the effect; a comparison's inputs have to be current.
CheckTarget(h) ==
  LET call == handler[h]
      b == call.binding
      passes == /\ target[b.target].revision = b.revision
                /\ Allows(b)
                /\ KindOf[b.target] = "comparison.accept" => inputs = "completed"
  IN /\ call.step = "checkTarget"
     /\ IF passes THEN handler' = [handler EXCEPT ![h].step = "effect"] ELSE Finish(h)
     /\ UNCHANGED <<now, tables, correction, effects>>

\* Fault: the commit of an effect does not update the approval's row.
CommitEffectUnconsumed(h) ==
  LET call == handler[h]
      b == call.binding
  IN /\ call.step = "effect"
     /\ target[b.target].revision = b.revision
     /\ target' = [target EXCEPT ![b.target] = [state |-> Result(b), revision |-> @.revision + 1]]
     /\ effects' = effects \cup {[binding |-> b, approval |-> call.approval,
                                  actor |-> call.actor]}
     /\ Finish(h)
     /\ UNCHANGED <<now, inputs, correction, approval>>

\* Fault: the target's row is written without comparing its revision.
CommitEffectBlind(h) ==
  LET call == handler[h]
      b == call.binding
      a == call.approval
  IN /\ call.step = "effect"
     /\ a # NoApproval /\ approval[a].revision = call.approvalRevision
     /\ target' = [target EXCEPT ![b.target] = [state |-> Result(b), revision |-> @.revision + 1]]
     /\ approval' = [approval EXCEPT ![a].state = "consumed", ![a].revision = @ + 1]
     /\ effects' = effects \cup {[binding |-> b, approval |-> a, actor |-> call.actor]}
     /\ Finish(h)
     /\ UNCHANGED <<now, inputs, correction>>

\* One commit changes the target and consumes the approval, or does neither.
CommitEffect(h) ==
  LET call == handler[h]
      b == call.binding
      a == call.approval
      current == /\ target[b.target].revision = b.revision
                 /\ a # NoApproval => approval[a].revision = call.approvalRevision
  IN /\ call.step = "effect"
     /\ \/ /\ current
           /\ target' = [target EXCEPT ![b.target] =
                           [state |-> Result(b), revision |-> @.revision + 1]]
           /\ approval' = IF a = NoApproval THEN approval
                          ELSE [approval EXCEPT ![a].state = "consumed",
                                                ![a].revision = @ + 1]
           /\ effects' = effects \cup {[binding |-> b, approval |-> a,
                                        actor |-> call.actor]}
        \/ /\ ~current
           /\ UNCHANGED <<target, approval, effects>>
     /\ Finish(h)
     /\ UNCHANGED <<now, inputs, correction>>

-----------------------------------------------------------------------------
\* The insert of proposeComparison.  It read the evaluations as completed at an
\* earlier await, as they are in the initial state, and does not compare them.
InsertComparison(t) ==
  /\ KindOf[t] = "comparison.accept" /\ target[t].state = "absent"
  /\ target' = [target EXCEPT ![t] = [state |-> "proposed", revision |-> 1]]
  /\ UNCHANGED <<now, approval, inputs, correction, handler, effects>>

\* correctVerifiedFact for the fact the evaluations and the draft rest on.  It
\* lists the comparisons of evaluations that are completed ...  (Of several under
\* way at most one takes effect, because each updates the fact: it is this one.)
ListComparisons ==
  /\ correction.step = "none"
  /\ correction' = [step |-> "listArtifacts", listed |-> [t \in Targets |->
       IF KindOf[t] = "comparison.accept" /\ target[t].state \in {"proposed", "accepted"}
         THEN target[t].revision ELSE 0]]
  /\ UNCHANGED <<now, tables, handler, effects>>

\* ... then the sealed drafts, and not those that are staged ...
ListArtifacts ==
  /\ correction.step = "listArtifacts"
  /\ correction' = [step |-> "commit", listed |-> [t \in Targets |->
       IF KindOf[t] = "artifact.review" /\ target[t].state = "sealed"
         THEN target[t].revision ELSE correction.listed[t]]]
  /\ UNCHANGED <<now, tables, handler, effects>>

Listed(t) == correction.listed[t] # 0

\* ... and marks the evaluations and what it listed in one commit, which is
\* refused if any of it has changed.  What was not listed stays as it is.
CommitCorrection ==
  /\ correction.step = "commit"
  /\ IF \A t \in Targets : Listed(t) => target[t].revision = correction.listed[t]
       THEN /\ inputs' = "stale"
            /\ target' = [t \in Targets |->
                 IF Listed(t) THEN [state |-> "stale", revision |-> target[t].revision + 1]
                              ELSE target[t]]
            /\ correction' = [correction EXCEPT !.step = "done"]
       ELSE /\ correction' = NoCorrection
            /\ UNCHANGED <<inputs, target>>
  /\ UNCHANGED <<now, approval, handler, effects>>

Tick ==
  /\ now < MaxTime
  /\ now' = now + 1
  /\ UNCHANGED <<tables, correction, handler, effects>>

\* The process stops: what a handler had checked or listed is forgotten, what
\* was committed is not.
Crash ==
  /\ \E h \in Handlers : handler[h].step # "idle"
  /\ handler' = [h \in Handlers |-> Idle]
  /\ correction' = IF correction.step = "done" THEN correction ELSE NoCorrection
  /\ UNCHANGED <<now, tables, effects>>

\* The effects a caller may ask for: those on the targets as they are, and the
\* one an approval was given for, whatever has become of its target.
Current == UNION {{[target |-> t, revision |-> target[t].revision, details |-> d] :
                     d \in DetailsOf(t)} : t \in Targets}

Next ==
  \/ \E h \in Handlers :
       \/ \E a \in Approvals :
            \/ InsertApproval(h, a)
            \/ \E decision \in {"approved", "denied"} : DecideApproval(h, a, decision)
            \/ \E actor \in {"user", "agent"}, b \in {approval[a].binding} \cup Current :
                 UseApproval(h, actor, a, b)
       \/ \E t \in Targets : \E d \in DetailsOf(t) : RequestApproval(h, t, d) \/ ActAlone(h, t, d)
       \/ CommitDecision(h)
       \/ CommitExpiry(h)
       \/ CheckTarget(h)
       \/ CommitEffect(h)
  \/ \E t \in Targets : InsertComparison(t)
  \/ ListComparisons
  \/ ListArtifacts
  \/ CommitCorrection
  \/ Tick
  \/ Crash

Spec == Init /\ [][Next]_vars

-----------------------------------------------------------------------------
TypeOK ==
  /\ now \in Nat
  /\ approval \in [Approvals -> ApprovalRows]
  /\ target \in [Targets -> [state : TargetStates, revision : Nat]]
  /\ inputs \in {"completed", "stale"}
  /\ correction \in Corrections
  /\ handler \in [Handlers -> Calls]
  /\ effects \in SUBSET [binding : Bindings, approval : Approvals \cup {NoApproval},
                         actor : {"user", "agent"}]

\* An approval is consumed exactly if one effect has happened on its authority,
\* and it authorises no second one: neither two handlers that read it approved
\* nor a crash before the answer lets it be used again, or used up for nothing.
ConsumedOnce ==
  \A a \in Approvals :
    /\ \A e, f \in effects : e.approval = a /\ f.approval = a => e = f
    /\ approval[a].state = "consumed" <=> \E e \in effects : e.approval = a

\* Every effect is the one that was displayed and approved: a decision of the
\* user on that target, at the revision the effect found, with those details.
\* Without an approval only the user acts, and only on applications.
EffectIsTheApprovedOne ==
  \A e \in effects :
    IF e.approval = NoApproval
      THEN e.actor = "user" /\ KindOf[e.binding.target] = "application.transition"
      ELSE approval[e.approval].binding = e.binding /\ approval[e.approval].interaction

\* No two effects found their target at the same revision: of handlers that
\* checked the same target only one gets its effect.
OneEffectPerRevision ==
  \A e, f \in effects :
    e.binding.target = f.binding.target /\ e.binding.revision = f.binding.revision => e = f

\* A decision, an expiry and a consumption race; whichever commits first, no
\* approval leaves the graph of APPROVAL_TRANSITIONS.
ApprovalsFollowTheirGraph ==
  [][\A a \in Approvals :
       approval[a].state \notin {"absent", approval'[a].state}
         => approval'[a].state \in approvalTransitions[approval[a].state]]_vars

Accepts(t) == target'[t].state = "accepted" /\ target[t].state # "accepted"

\* A comparison that a correction found on record is never accepted on the
\* evaluations the correction has marked, though an acceptance checks them at an
\* earlier await and its commit compares the comparison and the approval alone:
\* whichever commits first, the other is refused or comes too late.
ListedIsAcceptedInTime ==
  [][\A t \in Targets : Accepts(t) /\ Listed(t) => inputs = "completed"]_vars

\* SPEC.md 8.5, of a comparison: "It MUST identify stale or incomparable inputs."
\* No comparison is accepted on stale ones.  The code accepts one that was
\* inserted after a correction had listed the comparisons, if the acceptance has
\* checked its inputs before the correction commits; no run checks this.
AcceptedOnCurrentInputs ==
  [][\A t \in Targets : Accepts(t) => inputs = "completed"]_vars
=============================================================================
