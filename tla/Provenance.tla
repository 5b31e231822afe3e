------------------------------ MODULE Provenance ------------------------------
(***************************************************************************)
(* What candidate facts carry: evidence that cites a fact, evaluations     *)
(* that rest on accepted evidence, comparisons of evaluations, reports and *)
(* drafts; and the correction of a fact, which marks what rests on it as   *)
(* stale.  A handler of workbench.ts reads at one await, or at several     *)
(* that are steps of their own where the rows read may change in between,  *)
(* and ends in one commit.  A commit compares the revisions of the rows it *)
(* updates and of no others.  No row but an undecided fact ever returns to *)
(* a state it has left, so that the states stand for the revisions.        *)
(*                                                                         *)
(* Approvals of effects are in module Approvals, the operations that carry *)
(* evaluations in module Operations.                                       *)
(***************************************************************************)
EXTENDS Naturals, FiniteSets

CONSTANTS
  Handlers,      \* requests the server can be serving at the same time
  Facts,         \* identities of profile facts
  Evidence,      \* identities of evidence items
  Evaluations,   \* identities of evaluations
  Comparisons,   \* identities of comparisons
  Artifacts,     \* identities of reports and drafts
  Given,         \* the facts a new workspace starts with
  NoFact,        \* what a fact supersedes that corrects none, and what
                 \* evidence cites that is not of kind candidate_fact
  Compared       \* how many evaluations a comparison takes

ASSUME ConstantsAssumption ==
  /\ Given \subseteq Facts /\ NoFact \notin Facts
  /\ Compared \in Nat \ {0}

\* An identity says what it is of (ids.ts, RandomIdFactory.entity).
ASSUME IdentitiesAssumption ==
  /\ Evaluations \cap Comparisons = {} /\ Evaluations \cap Artifacts = {}
  /\ Comparisons \cap Artifacts = {}

VARIABLES
  fact, evidence, evaluation, comparison, artifact,  \* the tables
  handler       \* what each handler has read and is about to do

outputs == <<evaluation, comparison, artifact>>
vars == <<fact, evidence, outputs, handler>>

-----------------------------------------------------------------------------
\* confirmed: confirmedByUserAt is set, the user has vouched for the fact.
FactRows == [status : {"absent", "proposed", "derived_unverified", "user_cannot_confirm",
                       "verified", "superseded"},
             confirmed : BOOLEAN,
             supersedes : Facts \cup {NoFact}]
EvidenceRows == [decision : {"absent", "proposed", "accepted", "rejected"},
                 fact : Facts \cup {NoFact}]
EvaluationRows == [state : {"absent", "running", "completed", "failed", "stale"},
                   evidence : SUBSET Evidence]
ComparisonRows == [state : {"absent", "proposed", "accepted", "stale"},
                   evaluations : SUBSET Evaluations]
ArtifactRows == [state : {"absent", "staged", "sealed", "stale"},
                 facts : SUBSET Facts, evaluations : SUBSET Evaluations]

Idle == [step |-> "idle"]
Undecided == {"proposed", "derived_unverified"}
Outcomes == {"verified", "derived_unverified", "user_cannot_confirm", "superseded"}

Calls ==
  {Idle}
  \cup [step : {"decideFact"}, fact : Facts, seen : Undecided, outcome : Outcomes]
  \cup [step : {"listEvidence", "listEvaluations", "listComparisons", "listArtifacts",
                "correctFact"},
        fact : Facts, evidence : SUBSET Evidence, evaluations : SUBSET Evaluations,
        comparisons : SUBSET (Comparisons \X {"proposed", "accepted"}),
        artifacts : SUBSET Artifacts, met : SUBSET (Evaluations \cup Comparisons \cup Artifacts)]
  \cup [step : {"listRejected", "decideEvidence"}, evidence : Evidence,
        decision : {"accepted", "rejected"}]
  \cup [step : {"score", "complete", "seal"}, evaluation : Evaluations]
  \cup [step : {"propose"}, evaluations : SUBSET Evaluations]
  \cup [step : {"accept"}, comparison : Comparisons]
  \cup [step : {"listAccepted", "stage"}, facts : SUBSET Facts]
  \cup [step : {"review"}, artifact : Artifacts]

Init ==
  /\ fact = [f \in Facts |-> [status |-> IF f \in Given THEN "verified" ELSE "absent",
                              confirmed |-> f \in Given, supersedes |-> NoFact]]
  /\ evidence = [v \in Evidence |-> [decision |-> "absent", fact |-> NoFact]]
  /\ evaluation = [e \in Evaluations |-> [state |-> "absent", evidence |-> {}]]
  /\ comparison = [c \in Comparisons |-> [state |-> "absent", evaluations |-> {}]]
  /\ artifact = [a \in Artifacts |-> [state |-> "absent", facts |-> {}, evaluations |-> {}]]
  /\ handler = [h \in Handlers |-> Idle]

\* A handler takes up a call, and a handler ends.
Takes(h, call) ==
  /\ handler[h] = Idle
  /\ handler' = [handler EXCEPT ![h] = call]
  /\ UNCHANGED <<fact, evidence, outputs>>
Finish(h) == handler' = [handler EXCEPT ![h] = Idle]

\* Fault: evidence that cites no fact is not filtered out.
FactsOfUnfiltered(e) == {evidence[v].fact : v \in evaluation[e].evidence}

\* The facts a report of the evaluation lists.
FactsOf(e) == {evidence[v].fact : v \in evaluation[e].evidence} \ {NoFact}

-----------------------------------------------------------------------------
\* proposeProfileFact, addCareerHistoryEntry and the import.
ProposeFact(f) ==
  /\ fact[f].status = "absent"
  /\ fact' = [fact EXCEPT ![f].status = "proposed"]
  /\ UNCHANGED <<evidence, outputs, handler>>

\* confirmProfileFact, up to its commit; the outcome "superseded" is a
\* suggestion the user corrects.
DecideFact(h, f, outcome) ==
  /\ fact[f].status \in Undecided
  /\ Takes(h, [step |-> "decideFact", fact |-> f, seen |-> fact[f].status,
               outcome |-> outcome])

\* The rows a correction leaves: the old fact, confirmed or not as it was, and a
\* fresh one that supersedes it.
Supersede(f) ==
  \E g \in Facts :
    /\ fact[g].status = "absent"
    /\ fact' = [fact EXCEPT ![f].status = "superseded",
                            ![g] = [status |-> "verified", confirmed |-> TRUE, supersedes |-> f]]

CommitFact(h) ==
  LET call == handler[h] IN
  /\ call.step = "decideFact"
  /\ \/ /\ fact[call.fact].status = call.seen
        /\ IF call.outcome = "superseded" THEN Supersede(call.fact)
           ELSE fact' = [fact EXCEPT ![call.fact].status = call.outcome,
                                     ![call.fact].confirmed = call.outcome = "verified"]
     \/ fact[call.fact].status # call.seen /\ UNCHANGED fact
  /\ Finish(h)
  /\ UNCHANGED <<evidence, outputs>>

RestsOn(e, f) == \E v \in evaluation[e].evidence : evidence[v].fact = f

\* What depends on a fact at the moment.
Dependents(f) ==
  LET current == {e \in Evaluations : evaluation[e].state = "completed" /\ RestsOn(e, f)} IN
  current
    \cup {c \in Comparisons : /\ comparison[c].state \in {"proposed", "accepted"}
                              /\ comparison[c].evaluations \cap current # {}}
    \cup {a \in Artifacts : /\ artifact[a].state = "sealed"
                            /\ \/ f \in artifact[a].facts
                               \/ artifact[a].evaluations \cap current # {}}

\* correctVerifiedFact reads the fact and then lists, one table at a time, what
\* rests on it.  (met is no part of the code: what depends on the fact at this
\* moment, for the property below.)
CorrectFact(h, f) ==
  /\ fact[f].status = "verified"
  /\ Takes(h, [step |-> "listEvidence", fact |-> f, evidence |-> {}, evaluations |-> {},
               comparisons |-> {}, artifacts |-> {}, met |-> Dependents(f)])

ListEvidence(h) ==
  /\ handler[h].step = "listEvidence"
  /\ handler' = [handler EXCEPT ![h].step = "listEvaluations",
       ![h].evidence = {v \in Evidence : /\ evidence[v].decision = "accepted"
                                         /\ evidence[v].fact = handler[h].fact}]
  /\ UNCHANGED <<fact, evidence, outputs>>

ListEvaluations(h) ==
  /\ handler[h].step = "listEvaluations"
  /\ handler' = [handler EXCEPT ![h].step = "listComparisons",
       ![h].evaluations = {e \in Evaluations :
                             /\ evaluation[e].state = "completed"
                             /\ evaluation[e].evidence \cap handler[h].evidence # {}}]
  /\ UNCHANGED <<fact, evidence, outputs>>

\* Fault: accepted comparisons are passed over.
ListComparisonsProposed(h) ==
  /\ handler[h].step = "listComparisons"
  /\ handler' = [handler EXCEPT ![h].step = "listArtifacts",
       ![h].comparisons = {<<c, "proposed">> : c \in
         {d \in Comparisons : /\ comparison[d].state = "proposed"
                              /\ comparison[d].evaluations \cap handler[h].evaluations # {}}}]
  /\ UNCHANGED <<fact, evidence, outputs>>

ListComparisons(h) ==
  /\ handler[h].step = "listComparisons"
  /\ handler' = [handler EXCEPT ![h].step = "listArtifacts",
       ![h].comparisons = {<<c, comparison[c].state>> : c \in
         {d \in Comparisons : /\ comparison[d].state \in {"proposed", "accepted"}
                              /\ comparison[d].evaluations \cap handler[h].evaluations # {}}}]
  /\ UNCHANGED <<fact, evidence, outputs>>

ListArtifacts(h) ==
  /\ handler[h].step = "listArtifacts"
  /\ handler' = [handler EXCEPT ![h].step = "correctFact",
       ![h].artifacts = {a \in Artifacts :
         /\ artifact[a].state = "sealed"
         /\ \/ handler[h].fact \in artifact[a].facts
            \/ artifact[a].evaluations \cap handler[h].evaluations # {}}]
  /\ UNCHANGED <<fact, evidence, outputs>>

\* Everything a correction found is marked, if nothing of it has changed.
Found(call) ==
  /\ \A e \in call.evaluations : evaluation[e].state = "completed"
  /\ \A pair \in call.comparisons : comparison[pair[1]].state = pair[2]
  /\ \A a \in call.artifacts : artifact[a].state = "sealed"

MarkStale(call) ==
  /\ evaluation' = [e \in Evaluations |->
       IF e \in call.evaluations THEN [evaluation[e] EXCEPT !.state = "stale"]
                                 ELSE evaluation[e]]
  /\ comparison' = [c \in Comparisons |->
       IF \E pair \in call.comparisons : pair[1] = c
         THEN [comparison[c] EXCEPT !.state = "stale"] ELSE comparison[c]]
  /\ artifact' = [a \in Artifacts |->
       IF a \in call.artifacts THEN [artifact[a] EXCEPT !.state = "stale"] ELSE artifact[a]]

\* Fault: the old fact's row is written without comparing its revision.
CommitCorrectionBlind(h) ==
  /\ handler[h].step = "correctFact"
  /\ Found(handler[h])
  /\ Supersede(handler[h].fact)
  /\ MarkStale(handler[h])
  /\ Finish(h)
  /\ UNCHANGED evidence

CommitCorrection(h) ==
  LET call == handler[h]
      current == fact[call.fact].status = "verified" /\ Found(call)
  IN /\ call.step = "correctFact"
     /\ \/ current /\ Supersede(call.fact) /\ MarkStale(call)
        \/ ~current /\ UNCHANGED <<fact, outputs>>
     /\ Finish(h)
     /\ UNCHANGED evidence

-----------------------------------------------------------------------------
\* proposeEvidence: the fact it cites is not looked at.
ProposeEvidence(v, f) ==
  /\ evidence[v].decision = "absent"
  /\ evidence' = [evidence EXCEPT ![v] = [decision |-> "proposed", fact |-> f]]
  /\ UNCHANGED <<fact, outputs, handler>>

\* Fault: a fact that was corrected supports the evidence that cites it, even if
\* it was corrected while it was a suggestion.
SupportedBySuperseded(f) == f # NoFact => fact[f].status \in {"verified", "superseded"}

\* validateEvidenceForAcceptance, as to the fact.
Supported(f) == f # NoFact => fact[f].status = "verified"

\* decideEvidence reads the evidence and the fact it cites.
DecideEvidence(h, v, decision) ==
  LET f == evidence[v].fact IN
  /\ evidence[v].decision = "proposed"
  /\ f # NoFact => fact[f].status # "absent"
  /\ decision = "accepted" => Supported(f)
  /\ Takes(h, [step |-> IF decision = "accepted" THEN "listRejected" ELSE "decideEvidence",
               evidence |-> v, decision |-> decision])

\* assertRejectedEvidenceNotRevived: the identity is made of claim and source,
\* so that evidence that cites the same fact may or may not share it.
ListRejected(h) ==
  LET v == handler[h].evidence
      alike == \E w \in Evidence : /\ evidence[w].decision = "rejected"
                                   /\ evidence[w].fact = evidence[v].fact
  IN /\ handler[h].step = "listRejected"
     /\ \/ handler' = [handler EXCEPT ![h].step = "decideEvidence"]
        \/ alike /\ Finish(h)
     /\ UNCHANGED <<fact, evidence, outputs>>

CommitEvidence(h) ==
  LET v == handler[h].evidence IN
  /\ handler[h].step = "decideEvidence"
  /\ IF evidence[v].decision = "proposed"
       THEN evidence' = [evidence EXCEPT ![v].decision = handler[h].decision]
       ELSE UNCHANGED evidence
  /\ Finish(h)
  /\ UNCHANGED <<fact, outputs>>

-----------------------------------------------------------------------------
\* evaluate admits the evaluation, reads the evidence it was given ...
Evaluate(h, e, items) ==
  /\ handler[h] = Idle
  /\ evaluation[e].state = "absent"
  /\ evaluation' = [evaluation EXCEPT ![e] = [state |-> "running", evidence |-> items]]
  /\ handler' = [handler EXCEPT ![h] = [step |-> "score", evaluation |-> e]]
  /\ UNCHANGED <<fact, evidence, comparison, artifact>>

\* ... scores if all of it is accepted ...
ScoreEvaluation(h) ==
  /\ handler[h].step = "score"
  /\ \A v \in evaluation[handler[h].evaluation].evidence : evidence[v].decision = "accepted"
  /\ handler' = [handler EXCEPT ![h].step = "complete"]
  /\ UNCHANGED <<fact, evidence, outputs>>

\* ... and completes; its evidence and the facts are not compared.
CompleteEvaluation(h) ==
  /\ handler[h].step = "complete"
  /\ evaluation' = [evaluation EXCEPT ![handler[h].evaluation].state = "completed"]
  /\ Finish(h)
  /\ UNCHANGED <<fact, evidence, comparison, artifact>>

\* The scoring or the completion fails, which failOperation may fail to record.
FailEvaluation(h) ==
  /\ handler[h].step \in {"score", "complete"}
  /\ \/ evaluation' = [evaluation EXCEPT ![handler[h].evaluation].state = "failed"]
     \/ UNCHANGED evaluation
  /\ Finish(h)
  /\ UNCHANGED <<fact, evidence, comparison, artifact>>

\* sealEvaluationReport: the bytes are sealed between the reads and the insert.
SealReport(h, e) ==
  /\ evaluation[e].state = "completed"
  /\ \A v \in evaluation[e].evidence : evidence[v].decision = "accepted"
  /\ Takes(h, [step |-> "seal", evaluation |-> e])

CommitReport(h, a) ==
  LET e == handler[h].evaluation IN
  /\ handler[h].step = "seal"
  /\ artifact[a].state = "absent"
  /\ artifact' = [artifact EXCEPT ![a] = [state |-> "sealed", facts |-> FactsOf(e),
                                          evaluations |-> {e}]]
  /\ Finish(h)
  /\ UNCHANGED <<fact, evidence, evaluation, comparison>>

\* proposeComparison reads the evaluations and inserts.
ProposeComparison(h, es) ==
  /\ Cardinality(es) = Compared
  /\ \A e \in es : evaluation[e].state = "completed"
  /\ Takes(h, [step |-> "propose", evaluations |-> es])

CommitComparison(h, c) ==
  /\ handler[h].step = "propose"
  /\ comparison[c].state = "absent"
  /\ comparison' = [comparison EXCEPT ![c] = [state |-> "proposed",
                                              evaluations |-> handler[h].evaluations]]
  /\ Finish(h)
  /\ UNCHANGED <<fact, evidence, evaluation, artifact>>

\* acceptComparison reads the comparison and its evaluations again.
AcceptComparison(h, c) ==
  /\ comparison[c].state = "proposed"
  /\ \A e \in comparison[c].evaluations : evaluation[e].state = "completed"
  /\ Takes(h, [step |-> "accept", comparison |-> c])

\* Fault: the comparison is written without comparing its revision.
CommitAcceptanceBlind(h) ==
  /\ handler[h].step = "accept"
  /\ comparison' = [comparison EXCEPT ![handler[h].comparison].state = "accepted"]
  /\ Finish(h)
  /\ UNCHANGED <<fact, evidence, evaluation, artifact>>

CommitAcceptance(h) ==
  LET c == handler[h].comparison IN
  /\ handler[h].step = "accept"
  /\ IF comparison[c].state = "proposed"
       THEN comparison' = [comparison EXCEPT ![c].state = "accepted"]
       ELSE UNCHANGED comparison
  /\ Finish(h)
  /\ UNCHANGED <<fact, evidence, evaluation, artifact>>

\* createCandidateArtifact reads the facts, which must be verified ...
StageDraft(h, fs) ==
  /\ fs # {}
  /\ \A f \in fs : fact[f].status = "verified"
  /\ Takes(h, [step |-> "listAccepted", facts |-> fs])

\* ... and then the evidence, which must be accepted for each of them.
Backed(f) == \E v \in Evidence : evidence[v] = [decision |-> "accepted", fact |-> f]
ListAccepted(h) ==
  /\ handler[h].step = "listAccepted"
  /\ handler' = [handler EXCEPT ![h] =
       IF \A f \in handler[h].facts : Backed(f)
         THEN [step |-> "stage", facts |-> handler[h].facts] ELSE Idle]
  /\ UNCHANGED <<fact, evidence, outputs>>

CommitDraft(h, a) ==
  /\ handler[h].step = "stage"
  /\ artifact[a].state = "absent"
  /\ artifact' = [artifact EXCEPT ![a] = [state |-> "staged", facts |-> handler[h].facts,
                                          evaluations |-> {}]]
  /\ Finish(h)
  /\ UNCHANGED <<fact, evidence, evaluation, comparison>>

\* reviewCandidateArtifact looks at the draft and not at its facts.
ReviewDraft(h, a) ==
  /\ artifact[a].state = "staged"
  /\ Takes(h, [step |-> "review", artifact |-> a])

CommitReview(h) ==
  LET a == handler[h].artifact IN
  /\ handler[h].step = "review"
  /\ IF artifact[a].state = "staged"
       THEN artifact' = [artifact EXCEPT ![a].state = "sealed"] ELSE UNCHANGED artifact
  /\ Finish(h)
  /\ UNCHANGED <<fact, evidence, evaluation, comparison>>

Next ==
  \/ \E f \in Facts : ProposeFact(f)
  \/ \E v \in Evidence, f \in Facts \cup {NoFact} : ProposeEvidence(v, f)
  \/ \E h \in Handlers :
       \/ \E f \in Facts : CorrectFact(h, f) \/ \E o \in Outcomes : DecideFact(h, f, o)
       \/ CommitFact(h)
       \/ ListEvidence(h) \/ ListEvaluations(h) \/ ListComparisons(h) \/ ListArtifacts(h)
       \/ CommitCorrection(h)
       \/ \E v \in Evidence, d \in {"accepted", "rejected"} : DecideEvidence(h, v, d)
       \/ ListRejected(h) \/ CommitEvidence(h)
       \/ \E e \in Evaluations, items \in SUBSET Evidence : Evaluate(h, e, items)
       \/ ScoreEvaluation(h) \/ CompleteEvaluation(h) \/ FailEvaluation(h)
       \/ \E e \in Evaluations : SealReport(h, e)
       \/ \E es \in SUBSET Evaluations : ProposeComparison(h, es)
       \/ \E c \in Comparisons : CommitComparison(h, c) \/ AcceptComparison(h, c)
       \/ CommitAcceptance(h)
       \/ \E fs \in SUBSET Facts : StageDraft(h, fs)
       \/ ListAccepted(h)
       \/ \E a \in Artifacts : CommitReport(h, a) \/ CommitDraft(h, a) \/ ReviewDraft(h, a)
       \/ CommitReview(h)

Spec == Init /\ [][Next]_vars

-----------------------------------------------------------------------------
TypeOK ==
  /\ fact \in [Facts -> FactRows]
  /\ evidence \in [Evidence -> EvidenceRows]
  /\ evaluation \in [Evaluations -> EvaluationRows]
  /\ comparison \in [Comparisons -> ComparisonRows]
  /\ artifact \in [Artifacts -> ArtifactRows]
  /\ handler \in [Handlers -> Calls]

\* Corrections form chains and never a fork: however many corrections of a fact
\* race, a superseded fact has one successor and no other fact has any.
OneSuccessor ==
  /\ \A f, g \in Facts : fact[f].supersedes = fact[g].supersedes /\ f # g
                           => fact[f].supersedes = NoFact
  /\ \A f \in Facts : fact[f].status = "superseded" <=> \E g \in Facts : fact[g].supersedes = f

\* A fact the user has verified, now or before it was corrected.  (A suggestion
\* that the user corrects instead is superseded and was never verified.)
EverVerified(f) == fact[f].confirmed

\* No claim gets into an output that the user has not vouched for: evaluations,
\* comparisons, reports and drafts rest on accepted evidence, and that on facts
\* that were verified, though no commit compares the rows it rests on.
OutputsAreGrounded ==
  /\ \A v \in Evidence :
       evidence[v].decision = "accepted" /\ evidence[v].fact # NoFact
         => EverVerified(evidence[v].fact)
  /\ \A e \in Evaluations : evaluation[e].state \in {"completed", "stale"} =>
       \A v \in evaluation[e].evidence : evidence[v].decision = "accepted"
  /\ \A c \in Comparisons : comparison[c].state # "absent" =>
       \A e \in comparison[c].evaluations : evaluation[e].state \in {"completed", "stale"}
  /\ \A a \in Artifacts : artifact[a].state # "absent" =>
       \A f \in artifact[a].facts : EverVerified(f) /\ Backed(f)

\* An output that a correction has marked is never taken for current again,
\* whatever was under way on it: an acceptance, a review, a second correction.
StaleIsFinal ==
  [][/\ \A e \in Evaluations : evaluation[e].state = "stale" => evaluation'[e].state = "stale"
     /\ \A c \in Comparisons : comparison[c].state = "stale" => comparison'[c].state = "stale"
     /\ \A a \in Artifacts : artifact[a].state = "stale" => artifact'[a].state = "stale"]_vars

Current(x) ==
  \/ x \in Evaluations /\ evaluation[x].state # "stale"
  \/ x \in Comparisons /\ comparison[x].state # "stale"
  \/ x \in Artifacts /\ artifact[x].state # "stale"

\* A correction lists four tables one after the other while other requests
\* complete, accept, seal and correct: when it takes effect it leaves nothing
\* current that depended on the fact when the correction began and still does,
\* through evidence, evaluations and comparisons alike.  (What depends on it
\* through an evaluation that another correction has marked in between need not
\* be found: that one answers for it, or has missed it.)
CorrectionReachesWhatItMet ==
  [][\A h \in Handlers :
       handler[h].step = "correctFact" /\ handler'[h] = Idle
         /\ fact[handler[h].fact].status = "verified"
         /\ fact'[handler[h].fact].status = "superseded"
           => \A x \in handler[h].met \cap Dependents(handler[h].fact) : ~Current(x)']_vars

\* SPEC.md 8.6, of the correction of a fact: "Any evaluation, comparison, or
\* artifact whose eligibility depended on the old fact becomes `stale`".  This is
\* more than the code does, and no run checks it: what is completed, proposed,
\* sealed or reviewed after a correction has listed its table is not marked.  If
\* that correction then marks the evaluation of such a comparison, no later
\* correction of another fact it rests on finds the comparison either.
CorrectionReachesAll ==
  [][\A f \in Facts : fact[f].status = "verified" /\ fact'[f].status = "superseded" =>
       \A x \in Dependents(f) : ~Current(x)']_vars

\* ARCHITECTURE.md:237, of the evidence for a corrected fact: "old evidence remains
\* auditable but cannot re-enter as accepted truth".  No evaluation completes on
\* evidence of a fact that is superseded by then.  The code lets one, and no run
\* checks this.
OldEvidenceStaysOut ==
  [][\A e \in Evaluations, f \in Facts :
       evaluation[e].state = "running" /\ evaluation'[e].state = "completed" /\ RestsOn(e, f)
         => fact[f].status # "superseded"]_vars
=============================================================================
