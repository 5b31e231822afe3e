--------------------------- MODULE ProvenanceProofs ---------------------------
(***************************************************************************)
(* For every number of handlers and records: corrections never fork,       *)
(* outputs rest on evidence and facts the user has vouched for, what is    *)
(* stale stays stale, and a correction reaches what it met.  No commit     *)
(* compares the rows it rests on, so that the argument is about rows that  *)
(* only move forward: what a handler has seen of a row that is decided     *)
(* remains true of it, whoever acts in between.                            *)
(***************************************************************************)
EXTENDS Provenance, TLAPS

Done == {"completed", "stale"}

FactInv ==
  /\ \A f \in Facts : /\ fact[f].status = "absent" => fact[f].supersedes = NoFact
                      /\ fact[f].status = "verified" => fact[f].confirmed
                      /\ fact[f].confirmed => fact[f].status \in {"verified", "superseded"}
  /\ OneSuccessor

\* What a handler may go on relying on.
Vouched(v) == /\ evidence[v].decision # "absent"
              /\ evidence[v].fact # NoFact => EverVerified(evidence[v].fact)
Accepted(e) == \A v \in evaluation[e].evidence : evidence[v].decision = "accepted"

HandlerInv ==
  \A h \in Handlers :
    LET call == handler[h] IN
    /\ call.step \in {"listRejected", "decideEvidence"} =>
         (call.decision = "accepted" => Vouched(call.evidence))
    /\ call.step = "complete" => Accepted(call.evaluation)
    /\ call.step = "seal" => evaluation[call.evaluation].state \in Done
    /\ call.step = "propose" => \A e \in call.evaluations : evaluation[e].state \in Done
    /\ call.step \in {"listAccepted", "stage"} => \A f \in call.facts : EverVerified(f)
    /\ call.step = "stage" => \A f \in call.facts : Backed(f)

\* An evaluation that is under way is known to the handler that runs it alone.
Evaluates(h) == handler[h].step \in {"score", "complete"}
RunsInv ==
  \A h \in Handlers : Evaluates(h) =>
    /\ evaluation[handler[h].evaluation].state = "running"
    /\ \A g \in Handlers \ {h} : Evaluates(g) => handler[g].evaluation # handler[h].evaluation

\* An evaluation that a correction of the fact would mark.
Affected(e, f) == evaluation[e].state = "completed" /\ RestsOn(e, f)

\* The tables that a correction has listed already.
Listed(step) == CASE step = "listEvaluations" -> {"evidence"}
                  [] step = "listComparisons" -> {"evidence", "evaluations"}
                  [] step = "listArtifacts"   -> {"evidence", "evaluations", "comparisons"}
                  [] step = "correctFact"     -> {"evidence", "evaluations", "comparisons",
                                                  "artifacts"}
                  [] OTHER -> {}

Corrects == {"listEvidence", "listEvaluations", "listComparisons", "listArtifacts",
             "correctFact"}

\* What a correction met is in its lists, table by table, unless something else
\* has marked it or the evaluation it depends through.
MetEvaluation(call, x) ==
  /\ evaluation[x].state \in Done /\ RestsOn(x, call.fact)
  /\ "evidence" \in Listed(call.step) => evaluation[x].evidence \cap call.evidence # {}
  /\ "evaluations" \in Listed(call.step) /\ evaluation[x].state = "completed" =>
       x \in call.evaluations

MetComparison(call, x) ==
  /\ comparison[x].state # "absent"
  /\ \A e \in comparison[x].evaluations : Affected(e, call.fact) => e \in call.met
  /\ /\ "comparisons" \in Listed(call.step) /\ comparison[x].state # "stale"
     /\ \E e \in comparison[x].evaluations : Affected(e, call.fact)
     => \E pair \in call.comparisons : pair[1] = x

MetArtifact(call, x) ==
  /\ artifact[x].state \in {"sealed", "stale"}
  /\ \A e \in artifact[x].evaluations : Affected(e, call.fact) => e \in call.met
  /\ /\ "artifacts" \in Listed(call.step) /\ artifact[x].state # "stale"
     /\ \/ call.fact \in artifact[x].facts
        \/ \E e \in artifact[x].evaluations : Affected(e, call.fact)
     => x \in call.artifacts

MetAll(call) ==
  \A x \in call.met :
    /\ x \in Evaluations => MetEvaluation(call, x)
    /\ x \in Comparisons => MetComparison(call, x)
    /\ x \in Artifacts => MetArtifact(call, x)

MetInv == \A h \in Handlers : handler[h].step \in Corrects => MetAll(handler[h])

\* Reports are of evaluations that are done.
ReportsInv == \A a \in Artifacts : artifact[a].state # "absent" =>
                \A e \in artifact[a].evaluations : evaluation[e].state \in Done

IInv ==
  /\ TypeOK /\ FactInv /\ OutputsAreGrounded /\ ReportsInv
  /\ HandlerInv /\ RunsInv /\ MetInv

-------------------------------------------------------------------------------
\* The forms of a call, by its step.
CorrectCalls ==
  [step : Corrects,
   fact : Facts, evidence : SUBSET Evidence, evaluations : SUBSET Evaluations,
   comparisons : SUBSET (Comparisons \X {"proposed", "accepted"}),
   artifacts : SUBSET Artifacts, met : SUBSET (Evaluations \cup Comparisons \cup Artifacts)]

LEMMA CallForms ==
  ASSUME NEW call \in Calls
  PROVE  /\ call.step = "idle" => call = Idle
         /\ call.step = "decideFact" =>
              call \in [step : {"decideFact"}, fact : Facts, seen : Undecided, outcome : Outcomes]
         /\ call.step \in Corrects => call \in CorrectCalls
         /\ call.step \in {"listRejected", "decideEvidence"} =>
              call \in [step : {"listRejected", "decideEvidence"}, evidence : Evidence,
                        decision : {"accepted", "rejected"}]
         /\ call.step \in {"score", "complete", "seal"} =>
              call \in [step : {"score", "complete", "seal"}, evaluation : Evaluations]
         /\ call.step = "propose" => call \in [step : {"propose"}, evaluations : SUBSET Evaluations]
         /\ call.step = "accept" => call \in [step : {"accept"}, comparison : Comparisons]
         /\ call.step \in {"listAccepted", "stage"} =>
              call \in [step : {"listAccepted", "stage"}, facts : SUBSET Facts]
         /\ call.step = "review" => call \in [step : {"review"}, artifact : Artifacts]
<1>1. CASE call = Idle
  BY <1>1 DEF Idle, Corrects
<1>2. CASE call \in [step : {"decideFact"}, fact : Facts, seen : Undecided, outcome : Outcomes]
  BY <1>2 DEF Corrects
<1>3. CASE call \in CorrectCalls
  BY <1>3 DEF CorrectCalls, Corrects
<1>4. CASE call \in [step : {"listRejected", "decideEvidence"}, evidence : Evidence,
                      decision : {"accepted", "rejected"}]
  BY <1>4 DEF Corrects
<1>5. CASE call \in [step : {"score", "complete", "seal"}, evaluation : Evaluations]
  BY <1>5 DEF Corrects
<1>6. CASE call \in [step : {"propose"}, evaluations : SUBSET Evaluations]
  BY <1>6 DEF Corrects
<1>7. CASE call \in [step : {"accept"}, comparison : Comparisons]
  BY <1>7 DEF Corrects
<1>8. CASE call \in [step : {"listAccepted", "stage"}, facts : SUBSET Facts]
  BY <1>8 DEF Corrects
<1>9. CASE call \in [step : {"review"}, artifact : Artifacts]
  BY <1>9 DEF Corrects
<1>10. QED
  BY <1>1, <1>2, <1>3, <1>4, <1>5, <1>6, <1>7, <1>8, <1>9 DEF Calls, CorrectCalls, Corrects

LEMMA InitType == Init => TypeOK
BY ConstantsAssumption
   DEF Init, TypeOK, FactRows, EvidenceRows, EvaluationRows, ComparisonRows, ArtifactRows, Calls

\* A handler that takes up a call, or goes on with one, and one that ends.
LEMMA HandlerType ==
  ASSUME TypeOK, NEW h \in Handlers, NEW call \in Calls, handler' = [handler EXCEPT ![h] = call]
  PROVE  handler' \in [Handlers -> Calls]
BY DEF TypeOK

LEMMA FinishType ==
  ASSUME TypeOK, NEW h \in Handlers, Finish(h)
  PROVE  handler' \in [Handlers -> Calls]
BY DEF TypeOK, Finish, Calls

LEMMA TakesType ==
  ASSUME TypeOK, NEW h \in Handlers, NEW call \in Calls, Takes(h, call)
  PROVE  TypeOK'
BY HandlerType DEF Takes, TypeOK, outputs

LEMMA TypeStep == TypeOK /\ [Next]_vars => TypeOK'
<1> SUFFICES ASSUME TypeOK, [Next]_vars PROVE TypeOK'
  OBVIOUS
<1>h. \A h \in Handlers : handler[h] \in Calls
  BY DEF TypeOK
<1>1. ASSUME NEW f \in Facts, ProposeFact(f) PROVE TypeOK'
  BY <1>1 DEF ProposeFact, TypeOK, FactRows, outputs
<1>2. ASSUME NEW v \in Evidence, NEW f \in Facts \cup {NoFact}, ProposeEvidence(v, f)
      PROVE  TypeOK'
  BY <1>2 DEF ProposeEvidence, TypeOK, EvidenceRows, outputs
<1>3. ASSUME NEW h \in Handlers, NEW f \in Facts, CorrectFact(h, f) PROVE TypeOK'
  <2> DEFINE call == [step |-> "listEvidence", fact |-> f, evidence |-> {}, evaluations |-> {},
                      comparisons |-> {}, artifacts |-> {}, met |-> Dependents(f)]
  <2>1. Dependents(f) \subseteq Evaluations \cup Comparisons \cup Artifacts
    BY DEF Dependents
  <2>2. call \in Calls
    BY <2>1 DEF Calls
  <2>3. QED
    BY <1>3, <2>2, TakesType DEF CorrectFact
<1>4. ASSUME NEW h \in Handlers, NEW f \in Facts, NEW o \in Outcomes, DecideFact(h, f, o)
      PROVE  TypeOK'
  <2>1. [step |-> "decideFact", fact |-> f, seen |-> fact[f].status, outcome |-> o] \in Calls
    BY <1>4 DEF Calls, DecideFact
  <2>2. QED
    BY <1>4, <2>1, TakesType DEF DecideFact
<1>s. ASSUME NEW f \in Facts, Supersede(f) PROVE fact' \in [Facts -> FactRows]
  <2>1. PICK g \in Facts : fact' = [fact EXCEPT ![f].status = "superseded",
                                    ![g] = [status |-> "verified", confirmed |-> TRUE,
                                            supersedes |-> f]]
    BY <1>s DEF Supersede
  <2>2. QED
    BY <2>1 DEF TypeOK, FactRows
<1>5. ASSUME NEW h \in Handlers, CommitFact(h) PROVE TypeOK'
  <2>1. handler[h].fact \in Facts /\ handler[h].outcome \in Outcomes
    BY <1>5, <1>h, CallForms DEF CommitFact
  <2>2. fact' \in [Facts -> FactRows]
    <3>1. CASE Supersede(handler[h].fact)
      BY <3>1, <2>1, <1>s
    <3>2. CASE fact' = [fact EXCEPT ![handler[h].fact].status = handler[h].outcome]
      BY <3>2, <2>1 DEF TypeOK, FactRows, Outcomes
    <3>3. CASE UNCHANGED fact
      BY <3>3 DEF TypeOK
    <3>4. QED
      BY <3>1, <3>2, <3>3, <1>5 DEF CommitFact
  <2>3. QED
    BY <1>5, <2>2, FinishType DEF CommitFact, TypeOK, outputs
<1>6. ASSUME NEW h \in Handlers,
             ListEvidence(h) \/ ListEvaluations(h) \/ ListComparisons(h) \/ ListArtifacts(h)
      PROVE  TypeOK'
  <2>1. handler[h] \in CorrectCalls
    BY <1>6, <1>h, CallForms DEF ListEvidence, ListEvaluations, ListComparisons, ListArtifacts,
                                 Corrects
  <2>2. UNCHANGED <<fact, evidence, outputs>>
    BY <1>6 DEF ListEvidence, ListEvaluations, ListComparisons, ListArtifacts
  <2>3. handler' \in [Handlers -> Calls]
    <3>1. CASE ListEvidence(h)
      <4>1. handler'[h] \in CorrectCalls
        BY <3>1, <2>1, <1>h DEF ListEvidence, CorrectCalls, Corrects, TypeOK
      <4>2. QED
        BY <3>1, <4>1, ZenonT(60) DEF ListEvidence, TypeOK, Calls, CorrectCalls, Corrects
    <3>2. CASE ListEvaluations(h)
      <4>1. handler'[h] \in CorrectCalls
        BY <3>2, <2>1, <1>h DEF ListEvaluations, CorrectCalls, Corrects, TypeOK
      <4>2. QED
        BY <3>2, <4>1, ZenonT(60) DEF ListEvaluations, TypeOK, Calls, CorrectCalls, Corrects
    <3>3. CASE ListComparisons(h)
      <4>1. {<<c, comparison[c].state>> : c \in
              {d \in Comparisons : /\ comparison[d].state \in {"proposed", "accepted"}
                                   /\ comparison[d].evaluations \cap handler[h].evaluations # {}}}
            \in SUBSET (Comparisons \X {"proposed", "accepted"})
        OBVIOUS
      <4>2. handler'[h] \in CorrectCalls
        BY <3>3, <4>1, <2>1, <1>h DEF ListComparisons, CorrectCalls, Corrects, TypeOK
      <4>3. QED
        BY <3>3, <4>2, ZenonT(60) DEF ListComparisons, TypeOK, Calls, CorrectCalls, Corrects
    <3>4. CASE ListArtifacts(h)
      <4>1. handler'[h] \in CorrectCalls
        BY <3>4, <2>1, <1>h DEF ListArtifacts, CorrectCalls, Corrects, TypeOK
      <4>2. QED
        BY <3>4, <4>1, ZenonT(60) DEF ListArtifacts, TypeOK, Calls, CorrectCalls, Corrects
    <3>5. QED
      BY <1>6, <3>1, <3>2, <3>3, <3>4
  <2>4. QED
    BY <2>2, <2>3 DEF TypeOK, outputs
<1>7. ASSUME NEW h \in Handlers, CommitCorrection(h) PROVE TypeOK'
  <2>1. handler[h] \in CorrectCalls
    BY <1>7, <1>h, CallForms DEF CommitCorrection, Corrects
  <2>2. fact' \in [Facts -> FactRows]
    BY <1>7, <1>s, <2>1 DEF CommitCorrection, CorrectCalls, TypeOK
  <2>3. /\ evaluation' \in [Evaluations -> EvaluationRows]
        /\ comparison' \in [Comparisons -> ComparisonRows]
        /\ artifact' \in [Artifacts -> ArtifactRows]
    <3>1. CASE MarkStale(handler[h])
      <4>1. evaluation' \in [Evaluations -> EvaluationRows]
        BY <3>1 DEF MarkStale, TypeOK, EvaluationRows
      <4>2. comparison' \in [Comparisons -> ComparisonRows]
        BY <3>1 DEF MarkStale, TypeOK, ComparisonRows
      <4>3. artifact' \in [Artifacts -> ArtifactRows]
        BY <3>1 DEF MarkStale, TypeOK, ArtifactRows
      <4>4. QED
        BY <4>1, <4>2, <4>3
    <3>2. CASE UNCHANGED outputs
      BY <3>2 DEF outputs, TypeOK
    <3>3. QED
      BY <1>7, <3>1, <3>2 DEF CommitCorrection
  <2>4. QED
    BY <1>7, <2>2, <2>3, FinishType DEF CommitCorrection, TypeOK
<1>8. ASSUME NEW h \in Handlers, NEW v \in Evidence, NEW d \in {"accepted", "rejected"},
             DecideEvidence(h, v, d)
      PROVE  TypeOK'
  <2>1. [step |-> IF d = "accepted" THEN "listRejected" ELSE "decideEvidence",
         evidence |-> v, decision |-> d] \in Calls
    BY DEF Calls
  <2>2. QED
    BY <1>8, <2>1, TakesType DEF DecideEvidence
<1>9. ASSUME NEW h \in Handlers, ListRejected(h) PROVE TypeOK'
  <2>1. [handler[h] EXCEPT !.step = "decideEvidence"] \in Calls
    <3>1. handler[h] \in [step : {"listRejected", "decideEvidence"}, evidence : Evidence,
                          decision : {"accepted", "rejected"}]
      BY <1>9, <1>h, CallForms DEF ListRejected
    <3>2. [handler[h] EXCEPT !.step = "decideEvidence"]
             \in [step : {"listRejected", "decideEvidence"}, evidence : Evidence,
                  decision : {"accepted", "rejected"}]
      BY <3>1
    <3>3. QED
      BY <3>2 DEF Calls
  <2>2. handler' \in [Handlers -> Calls]
    BY <1>9, <2>1, FinishType DEF ListRejected, TypeOK
  <2>3. QED
    BY <1>9, <2>2 DEF ListRejected, TypeOK, outputs
<1>10. ASSUME NEW h \in Handlers, CommitEvidence(h) PROVE TypeOK'
  <2>1. handler[h].evidence \in Evidence /\ handler[h].decision \in {"accepted", "rejected"}
    BY <1>10, <1>h, CallForms DEF CommitEvidence
  <2>2. evidence' \in [Evidence -> EvidenceRows]
    BY <1>10, <2>1 DEF CommitEvidence, TypeOK, EvidenceRows
  <2>3. QED
    BY <1>10, <2>2, FinishType DEF CommitEvidence, TypeOK, outputs
<1>11. ASSUME NEW h \in Handlers, NEW e \in Evaluations, NEW items \in SUBSET Evidence,
              Evaluate(h, e, items)
       PROVE  TypeOK'
  <2>1. [step |-> "score", evaluation |-> e] \in Calls
    BY DEF Calls
  <2>2. evaluation' \in [Evaluations -> EvaluationRows]
    BY <1>11 DEF Evaluate, TypeOK, EvaluationRows
  <2>3. QED
    BY <1>11, <2>1, <2>2, HandlerType DEF Evaluate, TypeOK
<1>12. ASSUME NEW h \in Handlers, ScoreEvaluation(h) PROVE TypeOK'
  <2>1. [handler[h] EXCEPT !.step = "complete"] \in Calls
    <3>1. handler[h] \in [step : {"score", "complete", "seal"}, evaluation : Evaluations]
      BY <1>12, <1>h, CallForms DEF ScoreEvaluation
    <3>2. [handler[h] EXCEPT !.step = "complete"]
             \in [step : {"score", "complete", "seal"}, evaluation : Evaluations]
      BY <3>1
    <3>3. QED
      BY <3>2 DEF Calls
  <2>2. QED
    BY <1>12, <2>1 DEF ScoreEvaluation, TypeOK, outputs
<1>13. ASSUME NEW h \in Handlers, CompleteEvaluation(h) \/ FailEvaluation(h) PROVE TypeOK'
  <2>1. evaluation' \in [Evaluations -> EvaluationRows]
    BY <1>13 DEF CompleteEvaluation, FailEvaluation, TypeOK, EvaluationRows
  <2>2. QED
    BY <1>13, <2>1, FinishType DEF CompleteEvaluation, FailEvaluation, TypeOK
<1>14. ASSUME NEW h \in Handlers, NEW e \in Evaluations, SealReport(h, e) PROVE TypeOK'
  <2>1. [step |-> "seal", evaluation |-> e] \in Calls
    BY DEF Calls
  <2>2. QED
    BY <1>14, <2>1, TakesType DEF SealReport
<1>15. ASSUME NEW h \in Handlers, NEW a \in Artifacts, CommitReport(h, a) PROVE TypeOK'
  <2>1. handler[h].evaluation \in Evaluations
    BY <1>15, <1>h, CallForms DEF CommitReport
  <2>2. FactsOf(handler[h].evaluation) \in SUBSET Facts
    BY <2>1 DEF FactsOf, TypeOK, EvaluationRows, EvidenceRows
  <2>3. artifact' \in [Artifacts -> ArtifactRows]
    BY <1>15, <2>1, <2>2 DEF CommitReport, TypeOK, ArtifactRows
  <2>4. QED
    BY <1>15, <2>3, FinishType DEF CommitReport, TypeOK
<1>16. ASSUME NEW h \in Handlers, NEW es \in SUBSET Evaluations, ProposeComparison(h, es)
       PROVE  TypeOK'
  <2>1. [step |-> "propose", evaluations |-> es] \in Calls
    BY DEF Calls
  <2>2. QED
    BY <1>16, <2>1, TakesType DEF ProposeComparison
<1>17. ASSUME NEW h \in Handlers, NEW c \in Comparisons, CommitComparison(h, c) PROVE TypeOK'
  <2>1. handler[h].evaluations \in SUBSET Evaluations
    BY <1>17, <1>h, CallForms DEF CommitComparison
  <2>2. comparison' \in [Comparisons -> ComparisonRows]
    BY <1>17, <2>1 DEF CommitComparison, TypeOK, ComparisonRows
  <2>3. QED
    BY <1>17, <2>2, FinishType DEF CommitComparison, TypeOK
<1>18. ASSUME NEW h \in Handlers, NEW c \in Comparisons, AcceptComparison(h, c) PROVE TypeOK'
  <2>1. [step |-> "accept", comparison |-> c] \in Calls
    BY DEF Calls
  <2>2. QED
    BY <1>18, <2>1, TakesType DEF AcceptComparison
<1>19. ASSUME NEW h \in Handlers, CommitAcceptance(h) PROVE TypeOK'
  <2>1. comparison' \in [Comparisons -> ComparisonRows]
    BY <1>19 DEF CommitAcceptance, TypeOK, ComparisonRows
  <2>2. QED
    BY <1>19, <2>1, FinishType DEF CommitAcceptance, TypeOK
<1>20. ASSUME NEW h \in Handlers, NEW fs \in SUBSET Facts, StageDraft(h, fs) PROVE TypeOK'
  <2>1. [step |-> "listAccepted", facts |-> fs] \in Calls
    BY DEF Calls
  <2>2. QED
    BY <1>20, <2>1, TakesType DEF StageDraft
<1>21. ASSUME NEW h \in Handlers, ListAccepted(h) PROVE TypeOK'
  <2>1. handler[h].facts \in SUBSET Facts
    BY <1>21, <1>h, CallForms DEF ListAccepted
  <2>2. [step |-> "stage", facts |-> handler[h].facts] \in Calls /\ Idle \in Calls
    BY <2>1 DEF Calls
  <2>3. QED
    BY <1>21, <2>2 DEF ListAccepted, TypeOK, outputs
<1>22. ASSUME NEW h \in Handlers, NEW a \in Artifacts, CommitDraft(h, a) PROVE TypeOK'
  <2>1. handler[h].facts \in SUBSET Facts
    BY <1>22, <1>h, CallForms DEF CommitDraft
  <2>2. artifact' \in [Artifacts -> ArtifactRows]
    BY <1>22, <2>1 DEF CommitDraft, TypeOK, ArtifactRows
  <2>3. QED
    BY <1>22, <2>2, FinishType DEF CommitDraft, TypeOK
<1>23. ASSUME NEW h \in Handlers, NEW a \in Artifacts, ReviewDraft(h, a) PROVE TypeOK'
  <2>1. [step |-> "review", artifact |-> a] \in Calls
    BY DEF Calls
  <2>2. QED
    BY <1>23, <2>1, TakesType DEF ReviewDraft
<1>24. ASSUME NEW h \in Handlers, CommitReview(h) PROVE TypeOK'
  <2>1. artifact' \in [Artifacts -> ArtifactRows]
    BY <1>24 DEF CommitReview, TypeOK, ArtifactRows
  <2>2. QED
    BY <1>24, <2>1, FinishType DEF CommitReview, TypeOK
<1>25. CASE UNCHANGED vars
  BY <1>25 DEF vars, outputs, TypeOK
<1>26. QED
  BY <1>1, <1>2, <1>3, <1>4, <1>5, <1>6, <1>7, <1>8, <1>9, <1>10, <1>11, <1>12, <1>13, <1>14,
     <1>15, <1>16, <1>17, <1>18, <1>19, <1>20, <1>21, <1>22, <1>23, <1>24, <1>25 DEF Next

-------------------------------------------------------------------------------
\* Which steps write which table.
LEMMA Writers ==
  ASSUME [Next]_vars
  PROVE  /\ \/ fact' = fact
            \/ \E f \in Facts : ProposeFact(f)
            \/ \E h \in Handlers : CommitFact(h) \/ CommitCorrection(h)
         /\ \/ evidence' = evidence
            \/ \E v \in Evidence, f \in Facts \cup {NoFact} : ProposeEvidence(v, f)
            \/ \E h \in Handlers : CommitEvidence(h)
         /\ \/ evaluation' = evaluation
            \/ \E h \in Handlers :
                 \/ \E e \in Evaluations, items \in SUBSET Evidence : Evaluate(h, e, items)
                 \/ CompleteEvaluation(h) \/ FailEvaluation(h) \/ CommitCorrection(h)
         /\ \/ comparison' = comparison
            \/ \E h \in Handlers :
                 \/ \E c \in Comparisons : CommitComparison(h, c)
                 \/ CommitAcceptance(h) \/ CommitCorrection(h)
         /\ \/ artifact' = artifact
            \/ \E h \in Handlers :
                 \/ \E a \in Artifacts : CommitReport(h, a) \/ CommitDraft(h, a)
                 \/ CommitReview(h) \/ CommitCorrection(h)
<1> DEFINE Goal ==
         /\ \/ fact' = fact
            \/ \E f \in Facts : ProposeFact(f)
            \/ \E h \in Handlers : CommitFact(h) \/ CommitCorrection(h)
         /\ \/ evidence' = evidence
            \/ \E v \in Evidence, f \in Facts \cup {NoFact} : ProposeEvidence(v, f)
            \/ \E h \in Handlers : CommitEvidence(h)
         /\ \/ evaluation' = evaluation
            \/ \E h \in Handlers :
                 \/ \E e \in Evaluations, items \in SUBSET Evidence : Evaluate(h, e, items)
                 \/ CompleteEvaluation(h) \/ FailEvaluation(h) \/ CommitCorrection(h)
         /\ \/ comparison' = comparison
            \/ \E h \in Handlers :
                 \/ \E c \in Comparisons : CommitComparison(h, c)
                 \/ CommitAcceptance(h) \/ CommitCorrection(h)
         /\ \/ artifact' = artifact
            \/ \E h \in Handlers :
                 \/ \E a \in Artifacts : CommitReport(h, a) \/ CommitDraft(h, a)
                 \/ CommitReview(h) \/ CommitCorrection(h)
<1>1. CASE UNCHANGED <<fact, evidence, outputs>>
  BY <1>1 DEF outputs
<1>2. ASSUME NEW h \in Handlers,
             \/ \E f \in Facts : CorrectFact(h, f) \/ \E o \in Outcomes : DecideFact(h, f, o)
             \/ \E v \in Evidence, d \in {"accepted", "rejected"} : DecideEvidence(h, v, d)
             \/ \E e \in Evaluations : SealReport(h, e)
             \/ \E es \in SUBSET Evaluations : ProposeComparison(h, es)
             \/ \E c \in Comparisons : AcceptComparison(h, c)
             \/ \E fs \in SUBSET Facts : StageDraft(h, fs)
             \/ \E a \in Artifacts : ReviewDraft(h, a)
      PROVE  UNCHANGED <<fact, evidence, outputs>>
  BY <1>2 DEF CorrectFact, DecideFact, DecideEvidence, SealReport, ProposeComparison,
              AcceptComparison, StageDraft, ReviewDraft, Takes
<1>3. ASSUME NEW h \in Handlers,
             \/ ListEvidence(h) \/ ListEvaluations(h) \/ ListComparisons(h) \/ ListArtifacts(h)
             \/ ListRejected(h) \/ ScoreEvaluation(h) \/ ListAccepted(h)
      PROVE  UNCHANGED <<fact, evidence, outputs>>
  BY <1>3 DEF ListEvidence, ListEvaluations, ListComparisons, ListArtifacts, ListRejected,
              ScoreEvaluation, ListAccepted
<1>4. ASSUME NEW h \in Handlers, CommitFact(h) PROVE Goal
  BY <1>4 DEF CommitFact, outputs
<1>5. ASSUME NEW h \in Handlers, CommitCorrection(h) PROVE Goal
  BY <1>5 DEF CommitCorrection
<1>6. ASSUME NEW h \in Handlers, CommitEvidence(h) PROVE Goal
  BY <1>6 DEF CommitEvidence, outputs
<1>7. ASSUME NEW h \in Handlers, NEW e \in Evaluations, NEW items \in SUBSET Evidence,
             Evaluate(h, e, items)
      PROVE  Goal
  BY <1>7 DEF Evaluate
<1>8. ASSUME NEW h \in Handlers, CompleteEvaluation(h) \/ FailEvaluation(h) PROVE Goal
  BY <1>8 DEF CompleteEvaluation, FailEvaluation
<1>9. ASSUME NEW h \in Handlers, NEW c \in Comparisons, CommitComparison(h, c) PROVE Goal
  BY <1>9 DEF CommitComparison
<1>10. ASSUME NEW h \in Handlers, CommitAcceptance(h) PROVE Goal
  BY <1>10 DEF CommitAcceptance
<1>11. ASSUME NEW h \in Handlers, NEW a \in Artifacts, CommitReport(h, a) \/ CommitDraft(h, a)
       PROVE  Goal
  BY <1>11 DEF CommitReport, CommitDraft
<1>12. ASSUME NEW h \in Handlers, CommitReview(h) PROVE Goal
  BY <1>12 DEF CommitReview
<1>13. ASSUME NEW f \in Facts, ProposeFact(f) PROVE Goal
  BY <1>13 DEF ProposeFact, outputs
<1>14. ASSUME NEW v \in Evidence, NEW f \in Facts \cup {NoFact}, ProposeEvidence(v, f) PROVE Goal
  BY <1>14 DEF ProposeEvidence, outputs
<1>15. CASE UNCHANGED vars
  BY <1>1, <1>15 DEF vars
<1>16. QED
  BY <1>1, <1>2, <1>3, <1>4, <1>5, <1>6, <1>7, <1>8, <1>9, <1>10, <1>11, <1>12, <1>13, <1>14,
     <1>15 DEF Next

\* A fact that is decided changes only when a verified one is superseded, and
\* stays confirmed.
FactAdvances(f) ==
  \/ fact'[f] = fact[f]
  \/ fact[f].status = "absent"
  \/ fact[f].status \in Undecided
  \/ /\ fact[f].status = "verified" /\ fact'[f].status = "superseded"
     /\ fact'[f].confirmed = fact[f].confirmed

\* Evidence is decided once, and keeps the fact it cites.
EvidenceAdvances(v) ==
  \/ evidence'[v] = evidence[v]
  \/ evidence[v].decision = "absent" /\ evidence'[v].decision = "proposed"
  \/ /\ evidence[v].decision = "proposed" /\ evidence'[v].decision \in {"accepted", "rejected"}
     /\ evidence'[v].fact = evidence[v].fact
     /\ evidence'[v].decision = "accepted" => Vouched(v)

EvaluationAdvances(e) ==
  \/ evaluation'[e] = evaluation[e]
  \/ evaluation[e].state = "absent" /\ evaluation'[e].state = "running"
  \/ /\ evaluation[e].state = "running" /\ evaluation'[e].state \in {"completed", "failed"}
     /\ evaluation'[e].evidence = evaluation[e].evidence
     /\ evaluation'[e].state = "completed" => Accepted(e)
  \/ /\ evaluation[e].state = "completed" /\ evaluation'[e].state = "stale"
     /\ evaluation'[e].evidence = evaluation[e].evidence

ComparisonAdvances(c) ==
  \/ comparison'[c] = comparison[c]
  \/ /\ comparison[c].state = "absent" /\ comparison'[c].state = "proposed"
     /\ \A e \in comparison'[c].evaluations : evaluation[e].state \in Done
  \/ /\ comparison[c].state \in {"proposed", "accepted"}
     /\ comparison'[c].state \in {"accepted", "stale"}
     /\ comparison'[c].evaluations = comparison[c].evaluations

ArtifactAdvances(a) ==
  \/ artifact'[a] = artifact[a]
  \/ /\ artifact[a].state = "absent" /\ artifact'[a].state \in {"staged", "sealed"}
     /\ \A f \in artifact'[a].facts : EverVerified(f) /\ Backed(f)
     /\ \A e \in artifact'[a].evaluations : evaluation[e].state \in Done
  \/ /\ \/ artifact[a].state = "staged" /\ artifact'[a].state = "sealed"
        \/ artifact[a].state = "sealed" /\ artifact'[a].state = "stale"
     /\ artifact'[a].facts = artifact[a].facts
     /\ artifact'[a].evaluations = artifact[a].evaluations

\* What a correction writes, if it writes.
LEMMA CorrectionWrites ==
  ASSUME IInv, NEW h \in Handlers, CommitCorrection(h)
  PROVE  /\ handler[h] \in CorrectCalls
         /\ \/ UNCHANGED <<fact, outputs>>
            \/ /\ fact[handler[h].fact].status = "verified" /\ Supersede(handler[h].fact)
               /\ Found(handler[h]) /\ MarkStale(handler[h])
<1>1. handler[h] \in CorrectCalls
  BY CallForms DEF IInv, TypeOK, CommitCorrection, Corrects
<1>2. QED
  BY <1>1 DEF CommitCorrection

LEMMA FactsAdvance == ASSUME IInv, [Next]_vars, NEW f \in Facts PROVE FactAdvances(f)
<1>t. fact \in [Facts -> FactRows]
  BY DEF IInv, TypeOK
<1>1. ASSUME NEW g \in Facts, ProposeFact(g) PROVE FactAdvances(f)
  BY <1>1, <1>t DEF ProposeFact, FactAdvances
<1>2. ASSUME NEW g \in Facts, Supersede(g), fact[g].status \in Undecided \cup {"verified"}
      PROVE  FactAdvances(f)
  BY <1>2, <1>t DEF Supersede, FactAdvances, FactRows
<1>3. ASSUME NEW h \in Handlers, CommitFact(h) PROVE FactAdvances(f)
  <2>1. handler[h].fact \in Facts /\ handler[h].seen \in Undecided
    BY <1>3, CallForms DEF CommitFact, IInv, TypeOK
  <2>2. QED
    BY <1>2, <1>3, <1>t, <2>1 DEF CommitFact, FactAdvances
<1>4. ASSUME NEW h \in Handlers, CommitCorrection(h) PROVE FactAdvances(f)
  BY <1>2, <1>4, CorrectionWrites DEF FactAdvances, CorrectCalls
<1>5. QED
  BY <1>1, <1>3, <1>4, Writers DEF FactAdvances

LEMMA EvidenceAdvance == ASSUME IInv, [Next]_vars, NEW v \in Evidence PROVE EvidenceAdvances(v)
<1>t. evidence \in [Evidence -> EvidenceRows]
  BY DEF IInv, TypeOK
<1>1. ASSUME NEW w \in Evidence, NEW f \in Facts \cup {NoFact}, ProposeEvidence(w, f)
      PROVE  EvidenceAdvances(v)
  BY <1>1, <1>t DEF ProposeEvidence, EvidenceAdvances
<1>2. ASSUME NEW h \in Handlers, CommitEvidence(h) PROVE EvidenceAdvances(v)
  <2>1. handler[h].evidence \in Evidence /\ handler[h].decision \in {"accepted", "rejected"}
    BY <1>2, CallForms DEF CommitEvidence, IInv, TypeOK
  <2>2. handler[h].decision = "accepted" => Vouched(handler[h].evidence)
    BY <1>2 DEF CommitEvidence, IInv, HandlerInv
  <2>3. QED
    BY <1>2, <1>t, <2>1, <2>2 DEF CommitEvidence, EvidenceAdvances, EvidenceRows
<1>3. QED
  BY <1>1, <1>2, Writers DEF EvidenceAdvances

LEMMA EvaluationsAdvance ==
  ASSUME IInv, [Next]_vars, NEW e \in Evaluations PROVE EvaluationAdvances(e)
<1>t. evaluation \in [Evaluations -> EvaluationRows]
  BY DEF IInv, TypeOK
<1>1. ASSUME NEW h \in Handlers, NEW d \in Evaluations, NEW items \in SUBSET Evidence,
             Evaluate(h, d, items)
      PROVE  EvaluationAdvances(e)
  BY <1>1, <1>t DEF Evaluate, EvaluationAdvances
<1>2. ASSUME NEW h \in Handlers, CompleteEvaluation(h) \/ FailEvaluation(h)
      PROVE  EvaluationAdvances(e)
  <2>1. evaluation[handler[h].evaluation].state = "running"
    BY <1>2 DEF CompleteEvaluation, FailEvaluation, IInv, RunsInv, Evaluates
  <2>2. CompleteEvaluation(h) => Accepted(handler[h].evaluation)
    BY DEF CompleteEvaluation, IInv, HandlerInv
  <2>3. QED
    BY <1>2, <1>t, <2>1, <2>2
       DEF CompleteEvaluation, FailEvaluation, EvaluationAdvances, EvaluationRows
<1>3. ASSUME NEW h \in Handlers, CommitCorrection(h) PROVE EvaluationAdvances(e)
  BY <1>3, <1>t, CorrectionWrites
     DEF MarkStale, Found, outputs, EvaluationAdvances, EvaluationRows
<1>4. QED
  BY <1>1, <1>2, <1>3, Writers DEF EvaluationAdvances

LEMMA ComparisonsAdvance ==
  ASSUME IInv, [Next]_vars, NEW c \in Comparisons PROVE ComparisonAdvances(c)
<1>t. comparison \in [Comparisons -> ComparisonRows]
  BY DEF IInv, TypeOK
<1>1. ASSUME NEW h \in Handlers, NEW d \in Comparisons, CommitComparison(h, d)
      PROVE  ComparisonAdvances(c)
  <2>1. \A e \in handler[h].evaluations : evaluation[e].state \in Done
    BY <1>1 DEF CommitComparison, IInv, HandlerInv
  <2>2. QED
    BY <1>1, <1>t, <2>1 DEF CommitComparison, ComparisonAdvances
<1>2. ASSUME NEW h \in Handlers, CommitAcceptance(h) PROVE ComparisonAdvances(c)
  BY <1>2, <1>t DEF CommitAcceptance, ComparisonAdvances, ComparisonRows
<1>3. ASSUME NEW h \in Handlers, CommitCorrection(h) PROVE ComparisonAdvances(c)
  <2>1. CASE UNCHANGED comparison
    BY <2>1 DEF ComparisonAdvances
  <2>2. CASE Found(handler[h]) /\ MarkStale(handler[h])
    <3>1. ASSUME NEW pair \in handler[h].comparisons, pair[1] = c
          PROVE  comparison[c].state \in {"proposed", "accepted"}
      BY <1>3, <2>2, <3>1, CorrectionWrites DEF Found, CorrectCalls
    <3>2. comparison'[c] = IF \E pair \in handler[h].comparisons : pair[1] = c
                             THEN [comparison[c] EXCEPT !.state = "stale"] ELSE comparison[c]
      BY <2>2 DEF MarkStale
    <3>3. QED
      BY <3>1, <3>2, <1>t DEF ComparisonAdvances, ComparisonRows
  <2>3. QED
    BY <1>3, <2>1, <2>2, CorrectionWrites DEF outputs
<1>4. QED
  BY <1>1, <1>2, <1>3, Writers DEF ComparisonAdvances

\* The facts of a report were verified, and evidence for them accepted.
LEMMA ReportIsGrounded ==
  ASSUME IInv, NEW e \in Evaluations, evaluation[e].state \in Done, NEW f \in FactsOf(e)
  PROVE  EverVerified(f) /\ Backed(f)
<1>1. PICK v \in evaluation[e].evidence : f = evidence[v].fact /\ f # NoFact
  BY DEF FactsOf
<1>2. v \in Evidence /\ evidence[v] \in EvidenceRows
  BY DEF IInv, TypeOK, EvaluationRows
<1>3. evidence[v].decision = "accepted"
  BY DEF IInv, OutputsAreGrounded, Done
<1>4. EverVerified(f)
  BY <1>1, <1>2, <1>3 DEF IInv, OutputsAreGrounded
<1>5. evidence[v] = [decision |-> "accepted", fact |-> f]
  BY <1>1, <1>2, <1>3 DEF EvidenceRows
<1>6. QED
  BY <1>2, <1>4, <1>5 DEF Backed

LEMMA ArtifactsAdvance ==
  ASSUME IInv, [Next]_vars, NEW a \in Artifacts PROVE ArtifactAdvances(a)
<1>t. artifact \in [Artifacts -> ArtifactRows]
  BY DEF IInv, TypeOK
<1>1. ASSUME NEW h \in Handlers, NEW b \in Artifacts, CommitReport(h, b)
      PROVE  ArtifactAdvances(a)
  <2> DEFINE e == handler[h].evaluation
  <2>1. e \in Evaluations /\ evaluation[e].state \in Done
    BY <1>1, CallForms DEF CommitReport, IInv, TypeOK, HandlerInv
  <2>2. \A f \in FactsOf(e) : EverVerified(f) /\ Backed(f)
    BY <2>1, ReportIsGrounded
  <2>3. QED
    BY <1>1, <1>t, <2>1, <2>2 DEF CommitReport, ArtifactAdvances
<1>2. ASSUME NEW h \in Handlers, NEW b \in Artifacts, CommitDraft(h, b)
      PROVE  ArtifactAdvances(a)
  <2>1. \A f \in handler[h].facts : EverVerified(f) /\ Backed(f)
    BY <1>2 DEF CommitDraft, IInv, HandlerInv
  <2>2. QED
    BY <1>2, <1>t, <2>1 DEF CommitDraft, ArtifactAdvances
<1>3. ASSUME NEW h \in Handlers, CommitReview(h) PROVE ArtifactAdvances(a)
  BY <1>3, <1>t DEF CommitReview, ArtifactAdvances, ArtifactRows
<1>4. ASSUME NEW h \in Handlers, CommitCorrection(h) PROVE ArtifactAdvances(a)
  BY <1>4, <1>t, CorrectionWrites DEF MarkStale, Found, outputs, ArtifactAdvances, ArtifactRows
<1>5. QED
  BY <1>1, <1>2, <1>3, <1>4, Writers DEF ArtifactAdvances

-------------------------------------------------------------------------------
\* A verified fact is confirmed, and what is confirmed is decided.
LEMMA Confirmed ==
  ASSUME IInv, NEW f \in Facts
  PROVE  /\ fact[f].status = "verified" => EverVerified(f)
         /\ EverVerified(f) => fact[f].status \in {"verified", "superseded"}
BY DEF IInv, FactInv, EverVerified

\* What has been seen of a decided row stays true.
LEMMA VerifiedKept ==
  ASSUME IInv, [Next]_vars, NEW f \in Facts, EverVerified(f)
  PROVE  EverVerified(f)'
<1>1. fact[f].status \in {"verified", "superseded"}
  BY Confirmed
<1>2. fact'[f] = fact[f] \/ fact'[f].confirmed = fact[f].confirmed
  BY <1>1, FactsAdvance DEF FactAdvances, Undecided
<1>3. QED
  BY <1>2 DEF EverVerified

LEMMA BackedKept ==
  ASSUME IInv, [Next]_vars, NEW f, Backed(f)
  PROVE  Backed(f)'
<1>1. PICK v \in Evidence : evidence[v] = [decision |-> "accepted", fact |-> f]
  BY DEF Backed
<1>2. evidence'[v] = evidence[v]
  BY <1>1, EvidenceAdvance DEF EvidenceAdvances
<1>3. QED
  BY <1>1, <1>2 DEF Backed

LEMMA VouchedKept ==
  ASSUME IInv, [Next]_vars, NEW v \in Evidence, Vouched(v)
  PROVE  Vouched(v)'
<1>1. evidence[v].fact # NoFact => evidence[v].fact \in Facts
  BY DEF IInv, TypeOK, EvidenceRows
<1>2. evidence'[v].fact = evidence[v].fact /\ evidence'[v].decision # "absent"
  BY EvidenceAdvance DEF EvidenceAdvances, Vouched
<1>3. QED
  BY <1>1, <1>2, VerifiedKept DEF Vouched, EverVerified

LEMMA EvaluationKept ==
  ASSUME IInv, [Next]_vars, NEW e \in Evaluations, evaluation[e].state # "absent"
  PROVE  /\ evaluation'[e].evidence = evaluation[e].evidence
         /\ Accepted(e) => Accepted(e)'
         /\ evaluation[e].state \in Done => evaluation'[e].state \in Done
<1>1. evaluation'[e].evidence = evaluation[e].evidence
  BY EvaluationsAdvance DEF EvaluationAdvances
<1>2. evaluation[e].evidence \subseteq Evidence
  BY DEF IInv, TypeOK, EvaluationRows
<1>3. Accepted(e) => Accepted(e)'
  BY <1>1, <1>2, EvidenceAdvance DEF Accepted, EvidenceAdvances
<1>4. evaluation[e].state \in Done => evaluation'[e].state \in Done
  BY EvaluationsAdvance DEF EvaluationAdvances, Done
<1>5. QED
  BY <1>1, <1>3, <1>4

\* An evaluation that is done rests on the same facts for ever.
LEMMA RestsKept ==
  ASSUME IInv, [Next]_vars, NEW e \in Evaluations, NEW f, evaluation[e].state \in Done
  PROVE  /\ RestsOn(e, f)' <=> RestsOn(e, f)
         /\ Affected(e, f)' => Affected(e, f)
<1>1. evaluation'[e].evidence = evaluation[e].evidence
  BY EvaluationKept DEF Done
<1>2. \A v \in evaluation[e].evidence : v \in Evidence /\ evidence[v].decision = "accepted"
  BY DEF IInv, TypeOK, EvaluationRows, OutputsAreGrounded, Done
<1>3. \A v \in evaluation[e].evidence : evidence'[v] = evidence[v]
  BY <1>2, EvidenceAdvance DEF EvidenceAdvances
<1>4. RestsOn(e, f)' <=> RestsOn(e, f)
  BY <1>1, <1>3 DEF RestsOn
<1>5. evaluation'[e].state = "completed" => evaluation[e].state = "completed"
  BY EvaluationsAdvance DEF EvaluationAdvances, Done
<1>6. QED
  BY <1>4, <1>5 DEF Affected

-------------------------------------------------------------------------------
\* A fact gets a successor in the step that supersedes it, and no other.
LEMMA SupersedeStep ==
  ASSUME IInv, NEW f \in Facts, fact[f].status \in Undecided \cup {"verified"}, Supersede(f)
  PROVE  FactInv'
<1>1. PICK g \in Facts :
        /\ fact[g].status = "absent"
        /\ fact' = [fact EXCEPT ![f].status = "superseded",
                                ![g] = [status |-> "verified", confirmed |-> TRUE,
                                        supersedes |-> f]]
  BY DEF Supersede
<1>t. fact \in [Facts -> FactRows]
  BY DEF IInv, TypeOK
<1>2. f # g
  BY <1>1 DEF Undecided
<1>3. /\ fact'[f].status = "superseded" /\ fact'[f].supersedes = fact[f].supersedes
      /\ fact'[g].status = "verified" /\ fact'[g].supersedes = f
      /\ \A x \in Facts \ {f, g} : fact'[x] = fact[x]
  BY <1>1, <1>2, <1>t DEF FactRows
<1>4. fact[g].supersedes = NoFact
  BY <1>1 DEF IInv, FactInv
<1>5. \A x \in Facts : fact[x].supersedes # f /\ fact[x].supersedes # g
  BY <1>1, <1>t DEF IInv, FactInv, OneSuccessor, Undecided
<1>6. \A x \in Facts : fact'[x].status = "absent" => fact'[x].supersedes = NoFact
  BY <1>3, <1>2 DEF IInv, FactInv
<1>7. \A x, y \in Facts : fact'[x].supersedes = fact'[y].supersedes /\ x # y
                             => fact'[x].supersedes = NoFact
  BY <1>3, <1>5 DEF IInv, FactInv, OneSuccessor
<1>8. ASSUME NEW x \in Facts
      PROVE  fact'[x].status = "superseded" <=> \E y \in Facts : fact'[y].supersedes = x
  <2>1. CASE x = f
    BY <2>1, <1>3
  <2>2. CASE x = g
    <3>1. \A y \in Facts : fact'[y].supersedes # g
      BY <1>2, <1>3, <1>5
    <3>2. QED
      BY <2>2, <1>3, <3>1
  <2>3. CASE x \notin {f, g}
    <3>1. fact[x].status = "superseded" <=> \E y \in Facts : fact[y].supersedes = x
      BY DEF IInv, FactInv, OneSuccessor
    <3>2. \A y \in Facts : fact'[y].supersedes = x <=> fact[y].supersedes = x
      BY <2>3, <1>3, <1>4, ConstantsAssumption
    <3>3. QED
      BY <2>3, <1>3, <3>1, <3>2
  <2>4. QED
    BY <2>1, <2>2, <2>3
<1>9. /\ fact'[f].confirmed = fact[f].confirmed /\ fact'[g].confirmed = TRUE
      /\ fact[f].confirmed => fact[f].status \in {"verified", "superseded"}
  BY <1>1, <1>2, <1>t DEF FactRows, IInv, FactInv
<1>10. ASSUME NEW x \in Facts
       PROVE  /\ fact'[x].status = "verified" => fact'[x].confirmed
              /\ fact'[x].confirmed => fact'[x].status \in {"verified", "superseded"}
  <2>1. CASE x = f
    BY <2>1, <1>3
  <2>2. CASE x = g
    BY <2>2, <1>3, <1>9
  <2>3. CASE x \notin {f, g}
    BY <2>3, <1>3 DEF IInv, FactInv
  <2>4. QED
    BY <2>1, <2>2, <2>3
<1>11. QED
  BY <1>6, <1>7, <1>8, <1>10 DEF FactInv, OneSuccessor

LEMMA FactStep == IInv /\ [Next]_vars => FactInv'
<1> SUFFICES ASSUME IInv, [Next]_vars PROVE FactInv'
  OBVIOUS
<1>t. fact \in [Facts -> FactRows]
  BY DEF IInv, TypeOK
<1>1. CASE fact' = fact
  BY <1>1 DEF IInv, FactInv, OneSuccessor
\* A status that changes between two others than "superseded".
<1>2. ASSUME NEW f \in Facts, NEW status, NEW confirmed \in BOOLEAN,
             fact'[f].status = status, fact'[f].confirmed = confirmed,
             fact'[f].supersedes = fact[f].supersedes,
             \A x \in Facts \ {f} : fact'[x] = fact[x],
             fact[f].status # "superseded", status \notin {"superseded", "absent"},
             confirmed <=> status = "verified"
      PROVE  FactInv'
  <2>1. \A x \in Facts : fact'[x].supersedes = fact[x].supersedes
    BY <1>2
  <2>2. \A x \in Facts : /\ fact'[x].status = "superseded" <=> fact[x].status = "superseded"
                         /\ fact'[x].status = "absent" => fact[x].status = "absent"
    BY <1>2
  <2>3. \A x \in Facts : fact'[x].status = "absent" => fact'[x].supersedes = NoFact
    BY <2>1, <2>2 DEF IInv, FactInv
  <2>4. \A x, y \in Facts : fact'[x].supersedes = fact'[y].supersedes /\ x # y
                             => fact'[x].supersedes = NoFact
    BY <2>1 DEF IInv, FactInv, OneSuccessor
  <2>5. ASSUME NEW x \in Facts
        PROVE  fact'[x].status = "superseded" <=> \E y \in Facts : fact'[y].supersedes = x
    <3>1. fact[x].status = "superseded" <=> \E y \in Facts : fact[y].supersedes = x
      BY DEF IInv, FactInv, OneSuccessor
    <3>2. \A y \in Facts : fact'[y].supersedes = x <=> fact[y].supersedes = x
      BY <2>1
    <3>3. QED
      BY <2>2, <3>1, <3>2
  <2>6. ASSUME NEW x \in Facts
        PROVE  /\ fact'[x].status = "verified" => fact'[x].confirmed
               /\ fact'[x].confirmed => fact'[x].status \in {"verified", "superseded"}
    <3>1. CASE x = f
      BY <1>2, <3>1
    <3>2. CASE x # f
      BY <1>2, <3>2 DEF IInv, FactInv
    <3>3. QED
      BY <3>1, <3>2
  <2>7. QED
    BY <2>3, <2>4, <2>5, <2>6 DEF FactInv, OneSuccessor
<1>3. ASSUME NEW f \in Facts, ProposeFact(f) PROVE FactInv'
  <2>1. fact' = [fact EXCEPT ![f].status = "proposed"] /\ fact[f].status = "absent"
    BY <1>3 DEF ProposeFact
  <2>2. /\ fact'[f].status = "proposed" /\ fact'[f].confirmed = fact[f].confirmed
        /\ fact'[f].supersedes = fact[f].supersedes
        /\ \A x \in Facts \ {f} : fact'[x] = fact[x]
    BY <2>1, <1>t DEF FactRows
  <2>3. ~ fact[f].confirmed /\ fact[f].confirmed \in BOOLEAN
    BY <2>1, <1>t DEF IInv, FactInv, FactRows
  <2>4. QED
    BY <1>2, <2>1, <2>2, <2>3
<1>4. ASSUME NEW h \in Handlers, CommitFact(h) PROVE FactInv'
  <2>1. /\ handler[h].fact \in Facts /\ handler[h].seen \in Undecided
        /\ handler[h].outcome \in Outcomes
    BY <1>4, CallForms DEF CommitFact, IInv, TypeOK
  <2>2. CASE fact[handler[h].fact].status = handler[h].seen /\ handler[h].outcome = "superseded"
    BY <1>1, <1>4, <2>1, <2>2, SupersedeStep DEF CommitFact
  <2>3. CASE /\ fact[handler[h].fact].status = handler[h].seen
             /\ handler[h].outcome # "superseded"
    <3> DEFINE f == handler[h].fact
               status == handler[h].outcome
               confirmed == handler[h].outcome = "verified"
    <3>1. fact' = [fact EXCEPT ![f].status = status, ![f].confirmed = confirmed]
      BY <1>4, <2>1, <2>3 DEF CommitFact, Undecided
    <3>2. f \in Facts /\ fact[f].status \in Undecided /\ status \in Outcomes \ {"superseded"}
      BY <2>1, <2>3
    <3>3. confirmed \in BOOLEAN /\ (confirmed <=> status = "verified")
      OBVIOUS
    <3> HIDE DEF f, status, confirmed
    <3>4. /\ fact'[f].status = status /\ fact'[f].confirmed = confirmed
          /\ fact'[f].supersedes = fact[f].supersedes
          /\ \A x \in Facts \ {f} : fact'[x] = fact[x]
      BY <3>1, <3>2, <1>t DEF FactRows
    <3>5. fact[f].status # "superseded" /\ status \notin {"superseded", "absent"}
      BY <3>2 DEF Undecided, Outcomes
    <3>6. QED
      BY <1>2, <3>2, <3>3, <3>4, <3>5
  <2>4. QED
    BY <1>1, <1>4, <2>2, <2>3 DEF CommitFact
<1>5. ASSUME NEW h \in Handlers, CommitCorrection(h) PROVE FactInv'
  BY <1>1, <1>5, CorrectionWrites, SupersedeStep DEF CorrectCalls
<1>6. QED
  BY <1>1, <1>3, <1>4, <1>5, Writers

LEMMA GroundedStep == IInv /\ [Next]_vars => OutputsAreGrounded' /\ ReportsInv'
<1> SUFFICES ASSUME IInv, [Next]_vars PROVE OutputsAreGrounded' /\ ReportsInv'
  OBVIOUS
<1>1. ASSUME NEW v \in Evidence, evidence'[v].decision = "accepted", evidence'[v].fact # NoFact
      PROVE  EverVerified(evidence[v].fact)'
  <2>1. CASE evidence'[v] = evidence[v]
    <3>1. EverVerified(evidence[v].fact) /\ evidence[v].fact \in Facts
      BY <1>1, <2>1 DEF IInv, OutputsAreGrounded, TypeOK, EvidenceRows
    <3>2. QED
      BY <2>1, <3>1, VerifiedKept DEF EverVerified
  <2>2. CASE evidence'[v] # evidence[v]
    <3>1. Vouched(v) /\ evidence'[v].fact = evidence[v].fact
      BY <1>1, <2>2, EvidenceAdvance DEF EvidenceAdvances
    <3>2. EverVerified(evidence[v].fact) /\ evidence[v].fact \in Facts
      BY <1>1, <3>1 DEF Vouched, IInv, TypeOK, EvidenceRows
    <3>3. QED
      BY <3>1, <3>2, VerifiedKept DEF EverVerified
  <2>3. QED
    BY <2>1, <2>2
<1>2. ASSUME NEW e \in Evaluations, evaluation'[e].state \in Done
      PROVE  \A v \in evaluation'[e].evidence : evidence'[v].decision = "accepted"
  <2>1. evaluation[e].state # "absent" /\ Accepted(e)
    BY <1>2, EvaluationsAdvance DEF EvaluationAdvances, Accepted, IInv, OutputsAreGrounded, Done
  <2>2. QED
    BY <2>1, EvaluationKept DEF Accepted
<1>3. ASSUME NEW c \in Comparisons, comparison'[c].state # "absent"
      PROVE  \A e \in comparison'[c].evaluations : evaluation'[e].state \in Done
  <2>1. \A e \in comparison'[c].evaluations : e \in Evaluations /\ evaluation[e].state \in Done
    BY <1>3, ComparisonsAdvance, TypeStep
       DEF ComparisonAdvances, IInv, OutputsAreGrounded, TypeOK, ComparisonRows, Done
  <2>2. QED
    BY <2>1, EvaluationKept DEF Done
<1>4. ASSUME NEW a \in Artifacts, artifact'[a].state # "absent"
      PROVE  /\ \A f \in artifact'[a].facts : EverVerified(f)' /\ Backed(f)'
             /\ \A e \in artifact'[a].evaluations : evaluation'[e].state \in Done
  <2>t. artifact'[a].facts \subseteq Facts /\ artifact'[a].evaluations \subseteq Evaluations
    BY TypeStep DEF IInv, TypeOK, ArtifactRows
  <2>1. \A f \in artifact'[a].facts : EverVerified(f) /\ Backed(f)
    BY <1>4, ArtifactsAdvance DEF ArtifactAdvances, IInv, OutputsAreGrounded
  <2>2. \A e \in artifact'[a].evaluations : evaluation[e].state \in Done
    BY <1>4, ArtifactsAdvance DEF ArtifactAdvances, IInv, ReportsInv
  <2>3. \A f \in artifact'[a].facts : EverVerified(f)' /\ Backed(f)'
    BY <2>t, <2>1, VerifiedKept, BackedKept
  <2>4. QED
    BY <2>t, <2>2, <2>3, EvaluationKept DEF Done
<1>5. OutputsAreGrounded'
  BY <1>1, <1>2, <1>3, <1>4 DEF OutputsAreGrounded, Done
<1>6. ReportsInv'
  BY <1>4 DEF ReportsInv, Done
<1>7. QED
  BY <1>5, <1>6

-------------------------------------------------------------------------------
\* A handler is what it was, or idle, or has taken one of these steps.
TakesUp(h) ==
  \/ \E f \in Facts : CorrectFact(h, f) \/ \E o \in Outcomes : DecideFact(h, f, o)
  \/ \E v \in Evidence, d \in {"accepted", "rejected"} : DecideEvidence(h, v, d)
  \/ \E e \in Evaluations : SealReport(h, e)
  \/ \E es \in SUBSET Evaluations : ProposeComparison(h, es)
  \/ \E c \in Comparisons : AcceptComparison(h, c)
  \/ \E fs \in SUBSET Facts : StageDraft(h, fs)
  \/ \E a \in Artifacts : ReviewDraft(h, a)

Lists(h) == ListEvidence(h) \/ ListEvaluations(h) \/ ListComparisons(h) \/ ListArtifacts(h)

GoesOn(h) == ListRejected(h) \/ ScoreEvaluation(h) \/ ListAccepted(h)

Admits(h) == \E e \in Evaluations, items \in SUBSET Evidence : Evaluate(h, e, items)

LEMMA Acts ==
  ASSUME TypeOK, [Next]_vars, NEW g \in Handlers
  PROVE  \/ handler'[g] = handler[g]
         \/ handler'[g] = Idle
         \/ TakesUp(g) \/ Lists(g) \/ GoesOn(g) \/ Admits(g)
<1>t. handler \in [Handlers -> Calls]
  BY DEF TypeOK
<1> DEFINE Rests == handler'[g] = handler[g] \/ handler'[g] = Idle
<1>1. ASSUME NEW h \in Handlers, h # g, TakesUp(h) PROVE Rests
  BY <1>1, <1>t DEF TakesUp, CorrectFact, DecideFact, DecideEvidence, SealReport,
                    ProposeComparison, AcceptComparison, StageDraft, ReviewDraft, Takes
<1>2. ASSUME NEW h \in Handlers, h # g, Lists(h) PROVE Rests
  BY <1>2, <1>t DEF Lists, ListEvidence, ListEvaluations, ListComparisons, ListArtifacts
<1>3. ASSUME NEW h \in Handlers, h # g, GoesOn(h) \/ Admits(h) PROVE Rests
  BY <1>3, <1>t DEF GoesOn, Admits, ListRejected, ScoreEvaluation, ListAccepted, Evaluate, Finish
<1>4. ASSUME NEW h \in Handlers, Finish(h) PROVE Rests
  BY <1>4, <1>t DEF Finish
<1>5. ASSUME NEW h \in Handlers,
             \/ CommitFact(h) \/ CommitCorrection(h) \/ CommitEvidence(h)
             \/ CompleteEvaluation(h) \/ FailEvaluation(h) \/ CommitAcceptance(h)
             \/ \E c \in Comparisons : CommitComparison(h, c)
             \/ \E a \in Artifacts : CommitReport(h, a) \/ CommitDraft(h, a)
             \/ CommitReview(h)
      PROVE  Finish(h)
  BY <1>5 DEF CommitFact, CommitCorrection, CommitEvidence, CompleteEvaluation, FailEvaluation,
              CommitAcceptance, CommitComparison, CommitReport, CommitDraft, CommitReview
<1>6. ASSUME \/ \E f \in Facts : ProposeFact(f)
             \/ \E v \in Evidence, f \in Facts \cup {NoFact} : ProposeEvidence(v, f)
             \/ UNCHANGED vars
      PROVE  Rests
  BY <1>6 DEF ProposeFact, ProposeEvidence, vars
<1>7. QED
  BY <1>1, <1>2, <1>3, <1>4, <1>5, <1>6 DEF Next, TakesUp, Lists, GoesOn, Admits

\* What is known of a call that is taken up or goes on; the tables are as they were.
LEMMA HandlerStep == IInv /\ [Next]_vars => HandlerInv'
<1> SUFFICES ASSUME IInv, [Next]_vars, NEW g \in Handlers
             PROVE
      /\ handler'[g].step \in {"listRejected", "decideEvidence"} =>
           (handler'[g].decision = "accepted" => Vouched(handler[g].evidence)')
      /\ handler'[g].step = "complete" => Accepted(handler[g].evaluation)'
      /\ handler'[g].step = "seal" => evaluation'[handler'[g].evaluation].state \in Done
      /\ handler'[g].step = "propose" =>
           \A e \in handler'[g].evaluations : evaluation'[e].state \in Done
      /\ handler'[g].step \in {"listAccepted", "stage"} =>
           \A f \in handler'[g].facts : EverVerified(f)'
      /\ handler'[g].step = "stage" => \A f \in handler'[g].facts : Backed(f)'
  BY DEF HandlerInv
<1> DEFINE Goal ==
      /\ handler'[g].step \in {"listRejected", "decideEvidence"} =>
           (handler'[g].decision = "accepted" => Vouched(handler[g].evidence)')
      /\ handler'[g].step = "complete" => Accepted(handler[g].evaluation)'
      /\ handler'[g].step = "seal" => evaluation'[handler'[g].evaluation].state \in Done
      /\ handler'[g].step = "propose" =>
           \A e \in handler'[g].evaluations : evaluation'[e].state \in Done
      /\ handler'[g].step \in {"listAccepted", "stage"} =>
           \A f \in handler'[g].facts : EverVerified(f)'
      /\ handler'[g].step = "stage" => \A f \in handler'[g].facts : Backed(f)'
<1>t. handler \in [Handlers -> Calls] /\ handler[g] \in Calls /\ TypeOK
  BY DEF IInv, TypeOK
<1>1. CASE handler'[g] = handler[g]
  <2>1. ASSUME handler[g].step \in {"listRejected", "decideEvidence"},
               handler[g].decision = "accepted"
        PROVE  Vouched(handler[g].evidence)'
    <3>1. handler[g].evidence \in Evidence /\ Vouched(handler[g].evidence)
      BY <2>1, <1>t, CallForms DEF IInv, HandlerInv
    <3>2. QED
      BY <3>1, <1>1, VouchedKept DEF Vouched, EverVerified
  <2>2. ASSUME handler[g].step = "complete" PROVE Accepted(handler[g].evaluation)'
    <3>1. /\ handler[g].evaluation \in Evaluations /\ Accepted(handler[g].evaluation)
          /\ evaluation[handler[g].evaluation].state # "absent"
      BY <2>2, <1>t, CallForms DEF IInv, HandlerInv, RunsInv, Evaluates
    <3>2. QED
      BY <3>1, <1>1, EvaluationKept DEF Accepted
  <2>3. ASSUME handler[g].step = "seal"
        PROVE  evaluation'[handler[g].evaluation].state \in Done
    <3>1. /\ handler[g].evaluation \in Evaluations
          /\ evaluation[handler[g].evaluation].state \in Done
      BY <2>3, <1>t, CallForms DEF IInv, HandlerInv
    <3>2. QED
      BY <3>1, EvaluationKept DEF Done
  <2>4. ASSUME handler[g].step = "propose", NEW e \in handler[g].evaluations
        PROVE  evaluation'[e].state \in Done
    <3>1. e \in Evaluations /\ evaluation[e].state \in Done
      BY <2>4, <1>t, CallForms DEF IInv, HandlerInv
    <3>2. QED
      BY <3>1, EvaluationKept DEF Done
  <2>5. ASSUME handler[g].step \in {"listAccepted", "stage"}, NEW f \in handler[g].facts
        PROVE  EverVerified(f)'
    <3>1. f \in Facts /\ EverVerified(f)
      BY <2>5, <1>t, CallForms DEF IInv, HandlerInv
    <3>2. QED
      BY <3>1, VerifiedKept
  <2>6. ASSUME handler[g].step = "stage", NEW f \in handler[g].facts PROVE Backed(f)'
    BY <2>6, BackedKept DEF IInv, HandlerInv
  <2>7. QED
    BY <1>1, <2>1, <2>2, <2>3, <2>4, <2>5, <2>6
<1>2. CASE handler'[g] = Idle
  BY <1>2 DEF Idle
<1>3. ASSUME NEW f \in Facts, CorrectFact(g, f) PROVE Goal
  BY <1>3, <1>t DEF CorrectFact, Takes
<1>4. ASSUME NEW f \in Facts, NEW o \in Outcomes, DecideFact(g, f, o) PROVE Goal
  BY <1>4, <1>t DEF DecideFact, Takes
<1>5. ASSUME NEW v \in Evidence, NEW d \in {"accepted", "rejected"}, DecideEvidence(g, v, d)
      PROVE  Goal
  <2>1. /\ handler'[g].step \in {"listRejected", "decideEvidence"}
        /\ handler'[g].evidence = v /\ handler'[g].decision = d
        /\ UNCHANGED <<fact, evidence>>
    BY <1>5, <1>t DEF DecideEvidence, Takes
  <2>2. d = "accepted" => Vouched(v)
    <3>1. evidence[v].fact # NoFact => evidence[v].fact \in Facts
      BY DEF IInv, TypeOK, EvidenceRows
    <3>2. QED
      BY <1>5, <3>1, Confirmed DEF DecideEvidence, Supported, Vouched
  <2>3. QED
    BY <2>1, <2>2 DEF Vouched, EverVerified
<1>6. ASSUME NEW e \in Evaluations, SealReport(g, e) PROVE Goal
  BY <1>6, <1>t DEF SealReport, Takes, outputs, Done
<1>7. ASSUME NEW es \in SUBSET Evaluations, ProposeComparison(g, es) PROVE Goal
  BY <1>7, <1>t DEF ProposeComparison, Takes, outputs, Done
<1>8. ASSUME NEW c \in Comparisons, AcceptComparison(g, c) PROVE Goal
  BY <1>8, <1>t DEF AcceptComparison, Takes
<1>9. ASSUME NEW fs \in SUBSET Facts, StageDraft(g, fs) PROVE Goal
  <2>1. /\ handler'[g].step = "listAccepted" /\ handler'[g].facts = fs /\ UNCHANGED fact
        /\ \A f \in fs : f \in Facts /\ fact[f].status = "verified"
    BY <1>9, <1>t DEF StageDraft, Takes
  <2>2. QED
    BY <2>1, Confirmed DEF EverVerified
<1>10. ASSUME NEW a \in Artifacts, ReviewDraft(g, a) PROVE Goal
  BY <1>10, <1>t DEF ReviewDraft, Takes
<1>11. CASE Lists(g)
  <2>1. handler[g] \in CorrectCalls
    BY <1>11, <1>t, CallForms DEF Lists, ListEvidence, ListEvaluations, ListComparisons,
                                 ListArtifacts, Corrects
  <2>2. handler'[g].step \in Corrects
    BY <1>11, <1>t, <2>1 DEF Lists, ListEvidence, ListEvaluations, ListComparisons,
                             ListArtifacts, Corrects, CorrectCalls
  <2>3. QED
    BY <2>2 DEF Corrects
<1>12. CASE ListRejected(g)
  <2>1. /\ UNCHANGED <<fact, evidence>> /\ handler[g].step = "listRejected"
        /\ handler'[g] \in {Idle, [handler[g] EXCEPT !.step = "decideEvidence"]}
    BY <1>12, <1>t DEF ListRejected, Finish
  <2>2. handler[g] \in [step : {"listRejected", "decideEvidence"}, evidence : Evidence,
                        decision : {"accepted", "rejected"}]
    BY <2>1, <1>t, CallForms
  <2>3. CASE handler'[g] = [handler[g] EXCEPT !.step = "decideEvidence"]
    <3>1. /\ handler'[g].step = "decideEvidence" /\ handler'[g].decision = handler[g].decision
          /\ handler'[g].evidence = handler[g].evidence
      BY <2>2, <2>3
    <3>2. handler[g].decision = "accepted" => Vouched(handler[g].evidence)
      BY <2>1 DEF IInv, HandlerInv
    <3>3. QED
      BY <2>1, <3>1, <3>2 DEF Vouched, EverVerified
  <2>4. QED
    BY <1>2, <2>1, <2>3
<1>13. CASE ScoreEvaluation(g)
  <2>1. /\ UNCHANGED <<fact, evidence, outputs>> /\ handler[g].step = "score"
        /\ handler'[g] = [handler[g] EXCEPT !.step = "complete"]
        /\ Accepted(handler[g].evaluation)
    BY <1>13, <1>t DEF ScoreEvaluation, Accepted
  <2>2. handler[g] \in [step : {"score", "complete", "seal"}, evaluation : Evaluations]
    BY <2>1, <1>t, CallForms
  <2>3. handler'[g].step = "complete" /\ handler'[g].evaluation = handler[g].evaluation
    BY <2>1, <2>2
  <2>4. QED
    BY <2>1, <2>3 DEF Accepted, outputs
<1>14. CASE ListAccepted(g)
  <2>1. /\ UNCHANGED <<fact, evidence>> /\ handler[g].step = "listAccepted"
        /\ \/ handler'[g] = Idle
           \/ /\ handler'[g] = [step |-> "stage", facts |-> handler[g].facts]
              /\ \A f \in handler[g].facts : Backed(f)
    BY <1>14, <1>t DEF ListAccepted
  <2>2. \A f \in handler[g].facts : EverVerified(f)
    BY <2>1 DEF IInv, HandlerInv
  <2>3. QED
    BY <1>2, <2>1, <2>2 DEF EverVerified, Backed
<1>15. CASE Admits(g)
  BY <1>15, <1>t DEF Admits, Evaluate
<1>16. QED
  BY <1>t, <1>1, <1>2, <1>3, <1>4, <1>5, <1>6, <1>7, <1>8, <1>9, <1>10, <1>11, <1>12, <1>13,
     <1>14, <1>15, Acts DEF TakesUp, GoesOn

-------------------------------------------------------------------------------
\* The handler that runs an evaluation is the only one to end it.
LEMMA RunsStep == IInv /\ [Next]_vars => RunsInv'
<1> SUFFICES ASSUME IInv, [Next]_vars PROVE RunsInv'
  OBVIOUS
<1>t. /\ handler \in [Handlers -> Calls] /\ evaluation \in [Evaluations -> EvaluationRows]
      /\ TypeOK
  BY DEF IInv, TypeOK
<1>r. RunsInv
  BY DEF IInv
<1>e. \A h \in Handlers : Evaluates(h) => handler[h].evaluation \in Evaluations
  BY <1>t, CallForms DEF Evaluates
\* Whoever runs one either ran it before, or has just admitted it.
<1>1. ASSUME NEW g \in Handlers, Evaluates(g)'
      PROVE  \/ Evaluates(g) /\ handler'[g].evaluation = handler[g].evaluation
             \/ \E e \in Evaluations, items \in SUBSET Evidence : Evaluate(g, e, items)
  <2>1. CASE handler'[g] = handler[g]
    BY <1>1, <2>1 DEF Evaluates
  <2>2. CASE handler'[g] = Idle
    BY <1>1, <2>2 DEF Evaluates, Idle
  <2>3. CASE TakesUp(g)
    BY <1>1, <1>t, <2>3 DEF TakesUp, CorrectFact, DecideFact, DecideEvidence, SealReport,
       ProposeComparison, AcceptComparison, StageDraft, ReviewDraft, Takes, Evaluates
  <2>4. CASE Lists(g)
    <3>1. handler[g] \in CorrectCalls
      BY <2>4, <1>t, CallForms DEF Lists, ListEvidence, ListEvaluations, ListComparisons,
                                   ListArtifacts, Corrects
    <3>2. handler'[g].step \in Corrects
      BY <2>4, <1>t, <3>1 DEF Lists, ListEvidence, ListEvaluations, ListComparisons,
                              ListArtifacts, Corrects, CorrectCalls
    <3>3. QED
      BY <1>1, <3>2 DEF Evaluates, Corrects
  <2>5. CASE ListRejected(g)
    <3>1. handler[g] \in [step : {"listRejected", "decideEvidence"}, evidence : Evidence,
                          decision : {"accepted", "rejected"}]
      BY <2>5, <1>t, CallForms DEF ListRejected
    <3>2. handler'[g].step \in {"decideEvidence", "idle"}
      BY <2>5, <1>t, <3>1 DEF ListRejected, Finish, Idle
    <3>3. QED
      BY <1>1, <3>2 DEF Evaluates
  <2>6. CASE ScoreEvaluation(g)
    <3>1. handler[g] \in [step : {"score", "complete", "seal"}, evaluation : Evaluations]
      BY <2>6, <1>t, CallForms DEF ScoreEvaluation
    <3>2. handler'[g].evaluation = handler[g].evaluation
      BY <2>6, <1>t, <3>1 DEF ScoreEvaluation
    <3>3. QED
      BY <2>6, <3>2 DEF ScoreEvaluation, Evaluates
  <2>7. CASE ListAccepted(g)
    BY <1>1, <1>t, <2>7 DEF ListAccepted, Evaluates, Idle
  <2>8. CASE Admits(g)
    BY <2>8 DEF Admits
  <2>9. QED
    BY <1>t, <2>1, <2>2, <2>3, <2>4, <2>5, <2>6, <2>7, <2>8, Acts DEF GoesOn
\* A handler that admits one leaves the others as they are.
<1>2. ASSUME NEW g \in Handlers, NEW e \in Evaluations, NEW items \in SUBSET Evidence,
             Evaluate(g, e, items)
      PROVE  RunsInv'
  <2>1. /\ evaluation[e].state = "absent" /\ evaluation'[e].state = "running"
        /\ \A d \in Evaluations \ {e} : evaluation'[d] = evaluation[d]
        /\ handler'[g].evaluation = e
        /\ \A h \in Handlers \ {g} : handler'[h] = handler[h]
    BY <1>2, <1>t DEF Evaluate
  <2>2. \A h \in Handlers : Evaluates(h) => handler[h].evaluation # e
    BY <1>r, <2>1 DEF RunsInv
  <2>3. ASSUME NEW h \in Handlers, Evaluates(h)'
        PROVE  /\ evaluation'[handler'[h].evaluation].state = "running"
               /\ \A k \in Handlers \ {h} :
                    Evaluates(k)' => handler'[k].evaluation # handler'[h].evaluation
    <3>1. CASE h = g
      BY <2>1, <2>2, <3>1 DEF Evaluates
    <3>2. CASE h # g
      <4>1. Evaluates(h) /\ handler'[h] = handler[h]
        BY <2>1, <2>3, <3>2 DEF Evaluates
      <4>2. evaluation'[handler'[h].evaluation].state = "running"
        BY <1>e, <1>r, <2>1, <2>2, <4>1 DEF RunsInv
      <4>3. ASSUME NEW k \in Handlers \ {h}, Evaluates(k)'
            PROVE  handler'[k].evaluation # handler'[h].evaluation
        <5>1. CASE k = g
          BY <2>1, <2>2, <4>1, <5>1
        <5>2. CASE k # g
          BY <1>r, <2>1, <4>1, <4>3, <5>2 DEF RunsInv, Evaluates
        <5>3. QED
          BY <5>1, <5>2
      <4>4. QED
        BY <4>2, <4>3
    <3>3. QED
      BY <3>1, <3>2
  <2>4. QED
    BY <2>3 DEF RunsInv
<1>3. ASSUME \A g \in Handlers, e \in Evaluations, items \in SUBSET Evidence :
               ~Evaluate(g, e, items)
      PROVE  RunsInv'
  <2>1. ASSUME NEW g \in Handlers, Evaluates(g)'
        PROVE  Evaluates(g) /\ handler'[g].evaluation = handler[g].evaluation
    BY <1>1, <1>3, <2>1
  <2>2. ASSUME NEW g \in Handlers, Evaluates(g)'
        PROVE  evaluation'[handler[g].evaluation].state = "running"
    <3>1. /\ evaluation[handler[g].evaluation].state = "running"
          /\ handler[g].evaluation \in Evaluations /\ Evaluates(g)
      BY <2>1, <2>2, <1>e, <1>r DEF RunsInv
    <3>2. CASE evaluation' = evaluation
      BY <3>1, <3>2
    <3>3. ASSUME NEW h \in Handlers, CompleteEvaluation(h) \/ FailEvaluation(h)
          PROVE  evaluation'[handler[g].evaluation].state = "running"
      <4>1. Evaluates(h) /\ handler'[h] = Idle
        BY <3>3, <1>t DEF CompleteEvaluation, FailEvaluation, Evaluates, Finish
      <4>2. h # g
        BY <2>2, <4>1 DEF Evaluates, Idle
      <4>3. handler[h].evaluation # handler[g].evaluation
        BY <1>r, <3>1, <4>1, <4>2 DEF RunsInv
      <4>4. QED
        BY <1>t, <3>1, <3>3, <4>3 DEF CompleteEvaluation, FailEvaluation
    <3>4. ASSUME NEW h \in Handlers, CommitCorrection(h)
          PROVE  evaluation'[handler[g].evaluation].state = "running"
      BY <3>1, <3>4, CorrectionWrites DEF MarkStale, Found, outputs
    <3>5. QED
      BY <1>3, <3>2, <3>3, <3>4, Writers
  <2>3. QED
    BY <1>r, <2>1, <2>2 DEF RunsInv
<1>4. QED
  BY <1>2, <1>3
-------------------------------------------------------------------------------
LEMMA ListedSoFar ==
  /\ Listed("listEvidence") = {}
  /\ Listed("listEvaluations") = {"evidence"}
  /\ Listed("listComparisons") = {"evidence", "evaluations"}
  /\ Listed("listArtifacts") = {"evidence", "evaluations", "comparisons"}
  /\ Listed("correctFact") = {"evidence", "evaluations", "comparisons", "artifacts"}
BY DEF Listed

\* What was met and is listed stays so, whoever acts.
LEMMA MetKept ==
  ASSUME IInv, [Next]_vars, NEW call \in CorrectCalls, MetAll(call)
  PROVE  MetAll(call)'
<1> SUFFICES ASSUME NEW x \in call.met
             PROVE  /\ x \in Evaluations => MetEvaluation(call, x)'
                    /\ x \in Comparisons => MetComparison(call, x)'
                    /\ x \in Artifacts => MetArtifact(call, x)'
  BY DEF MetAll
<1>1. ASSUME x \in Evaluations PROVE MetEvaluation(call, x)'
  <2>1. MetEvaluation(call, x)
    BY <1>1 DEF MetAll
  <2>2. /\ evaluation'[x].state \in Done /\ evaluation'[x].evidence = evaluation[x].evidence
        /\ evaluation'[x].state = "completed" => evaluation[x].state = "completed"
    BY <1>1, <2>1, EvaluationKept, EvaluationsAdvance DEF MetEvaluation, Done, EvaluationAdvances
  <2>3. RestsOn(x, call.fact)'
    BY <1>1, <2>1, RestsKept DEF MetEvaluation
  <2>4. QED
    BY <2>1, <2>2, <2>3 DEF MetEvaluation
<1>2. ASSUME x \in Comparisons PROVE MetComparison(call, x)'
  <2>1. MetComparison(call, x)
    BY <1>2 DEF MetAll
  <2>2. /\ comparison'[x].state # "absent"
        /\ comparison'[x].evaluations = comparison[x].evaluations
        /\ comparison'[x].state # "stale" => comparison[x].state # "stale"
    BY <1>2, <2>1, ComparisonsAdvance DEF MetComparison, ComparisonAdvances
  <2>3. \A e \in comparison[x].evaluations : e \in Evaluations /\ evaluation[e].state \in Done
    BY <1>2, <2>1 DEF MetComparison, IInv, TypeOK, ComparisonRows, OutputsAreGrounded, Done
  <2>4. \A e \in comparison[x].evaluations : Affected(e, call.fact)' => Affected(e, call.fact)
    BY <2>3, RestsKept
  <2>5. QED
    BY <2>1, <2>2, <2>4 DEF MetComparison
<1>3. ASSUME x \in Artifacts PROVE MetArtifact(call, x)'
  <2>1. MetArtifact(call, x)
    BY <1>3 DEF MetAll
  <2>2. /\ artifact'[x].state \in {"sealed", "stale"}
        /\ artifact'[x].evaluations = artifact[x].evaluations
        /\ artifact'[x].facts = artifact[x].facts
        /\ artifact'[x].state # "stale" => artifact[x].state # "stale"
    BY <1>3, <2>1, ArtifactsAdvance DEF MetArtifact, ArtifactAdvances
  <2>3. \A e \in artifact[x].evaluations : e \in Evaluations /\ evaluation[e].state \in Done
    BY <1>3, <2>1 DEF MetArtifact, IInv, TypeOK, ArtifactRows, ReportsInv
  <2>4. \A e \in artifact[x].evaluations : Affected(e, call.fact)' => Affected(e, call.fact)
    BY <2>3, RestsKept
  <2>5. QED
    BY <2>1, <2>2, <2>4 DEF MetArtifact
<1>4. QED
  BY <1>1, <1>2, <1>3

\* A correction that begins meets what depends on the fact.
LEMMA MetFirst ==
  ASSUME IInv, NEW call \in CorrectCalls, call.step = "listEvidence",
         call.met = Dependents(call.fact)
  PROVE  MetAll(call)
<1> SUFFICES ASSUME NEW x \in call.met
             PROVE  /\ x \in Evaluations => MetEvaluation(call, x)
                    /\ x \in Comparisons => MetComparison(call, x)
                    /\ x \in Artifacts => MetArtifact(call, x)
  BY DEF MetAll
<1> DEFINE f == call.fact
<1>1. Listed(call.step) = {}
  BY ListedSoFar
<1>2. \A e \in Evaluations : Affected(e, f) => e \in call.met
  BY DEF Dependents, Affected
<1>3. ASSUME x \in Evaluations PROVE MetEvaluation(call, x)
  <2>1. x \notin Comparisons /\ x \notin Artifacts
    BY <1>3, IdentitiesAssumption
  <2>2. evaluation[x].state = "completed" /\ RestsOn(x, f)
    BY <2>1 DEF Dependents
  <2>3. QED
    BY <1>1, <2>2 DEF MetEvaluation, Done
<1>4. ASSUME x \in Comparisons PROVE MetComparison(call, x)
  <2>1. x \notin Evaluations /\ x \notin Artifacts
    BY <1>4, IdentitiesAssumption
  <2>2. comparison[x].state \in {"proposed", "accepted"}
    BY <2>1 DEF Dependents
  <2>3. comparison[x].evaluations \subseteq Evaluations
    BY <1>4 DEF IInv, TypeOK, ComparisonRows
  <2>4. QED
    BY <1>1, <1>2, <2>2, <2>3 DEF MetComparison
<1>5. ASSUME x \in Artifacts PROVE MetArtifact(call, x)
  <2>1. x \notin Evaluations /\ x \notin Comparisons
    BY <1>5, IdentitiesAssumption
  <2>2. artifact[x].state = "sealed"
    BY <2>1 DEF Dependents
  <2>3. artifact[x].evaluations \subseteq Evaluations
    BY <1>5 DEF IInv, TypeOK, ArtifactRows
  <2>4. QED
    BY <1>1, <1>2, <2>2, <2>3 DEF MetArtifact
<1>6. QED
  BY <1>3, <1>4, <1>5

\* What a listing finds: it is in the call's list, and the rest of the call is kept.
LEMMA MetLists ==
  ASSUME IInv, NEW call \in CorrectCalls, NEW next \in CorrectCalls, MetAll(call),
         next.fact = call.fact, next.met = call.met,
         \/ /\ call.step = "listEvidence" /\ next.step = "listEvaluations"
            /\ next.evidence = {v \in Evidence : /\ evidence[v].decision = "accepted"
                                                 /\ evidence[v].fact = call.fact}
         \/ /\ call.step = "listEvaluations" /\ next.step = "listComparisons"
            /\ next.evidence = call.evidence
            /\ next.evaluations = {e \in Evaluations :
                                     /\ evaluation[e].state = "completed"
                                     /\ evaluation[e].evidence \cap call.evidence # {}}
         \/ /\ call.step = "listComparisons" /\ next.step = "listArtifacts"
            /\ next.evidence = call.evidence /\ next.evaluations = call.evaluations
            /\ next.comparisons = {<<c, comparison[c].state>> : c \in
                 {d \in Comparisons : /\ comparison[d].state \in {"proposed", "accepted"}
                                      /\ comparison[d].evaluations \cap call.evaluations # {}}}
         \/ /\ call.step = "listArtifacts" /\ next.step = "correctFact"
            /\ next.evidence = call.evidence /\ next.evaluations = call.evaluations
            /\ next.comparisons = call.comparisons
            /\ next.artifacts = {a \in Artifacts :
                 /\ artifact[a].state = "sealed"
                 /\ \/ call.fact \in artifact[a].facts
                    \/ artifact[a].evaluations \cap call.evaluations # {}}
  PROVE  MetAll(next)
<1> SUFFICES ASSUME NEW x \in call.met
             PROVE  /\ x \in Evaluations => MetEvaluation(next, x)
                    /\ x \in Comparisons => MetComparison(next, x)
                    /\ x \in Artifacts => MetArtifact(next, x)
  BY DEF MetAll
<1> DEFINE f == call.fact
\* An evaluation the fact affects is in the list of evaluations, once there is one.
<1>1. ASSUME NEW e \in call.met, e \in Evaluations, Affected(e, f),
             call.step \in {"listComparisons", "listArtifacts"}
      PROVE  e \in call.evaluations
  <2>1. MetEvaluation(call, e)
    BY <1>1 DEF MetAll
  <2>2. "evaluations" \in Listed(call.step)
    BY <1>1, ListedSoFar
  <2>3. QED
    BY <1>1, <2>1, <2>2 DEF MetEvaluation, Affected
<1>2. ASSUME x \in Evaluations PROVE MetEvaluation(next, x)
  <2>1. MetEvaluation(call, x)
    BY <1>2 DEF MetAll
  <2>2. CASE call.step = "listEvidence"
    <3>1. PICK v \in evaluation[x].evidence : evidence[v].fact = f
      BY <2>1 DEF MetEvaluation, RestsOn
    <3>2. v \in Evidence /\ evidence[v].decision = "accepted"
      BY <1>2, <2>1 DEF MetEvaluation, IInv, TypeOK, EvaluationRows, OutputsAreGrounded, Done
    <3>3. v \in next.evidence
      BY <2>2, <3>1, <3>2
    <3>4. Listed(next.step) = {"evidence"}
      BY <2>2, ListedSoFar
    <3>5. QED
      BY <2>1, <3>1, <3>3, <3>4 DEF MetEvaluation
  <2>3. CASE call.step = "listEvaluations"
    <3>1. evaluation[x].evidence \cap call.evidence # {} /\ next.evidence = call.evidence
      BY <2>1, <2>3, ListedSoFar DEF MetEvaluation
    <3>2. evaluation[x].state = "completed" => x \in next.evaluations
      BY <1>2, <2>3, <3>1
    <3>3. QED
      BY <2>1, <3>1, <3>2 DEF MetEvaluation
  <2>4. CASE call.step \in {"listComparisons", "listArtifacts"}
    <3>1. {"evidence", "evaluations"} \subseteq Listed(call.step)
      BY <2>4, ListedSoFar
    <3>2. next.evidence = call.evidence /\ next.evaluations = call.evaluations
      BY <2>4
    <3>3. QED
      BY <2>1, <3>1, <3>2 DEF MetEvaluation
  <2>5. QED
    BY <2>2, <2>3, <2>4
<1>3. ASSUME x \in Comparisons PROVE MetComparison(next, x)
  <2>1. MetComparison(call, x)
    BY <1>3 DEF MetAll
  <2>t. comparison[x].evaluations \subseteq Evaluations /\ comparison[x] \in ComparisonRows
    BY <1>3 DEF IInv, TypeOK, ComparisonRows
  <2>2. CASE call.step \in {"listEvidence", "listEvaluations"}
    <3>1. "comparisons" \notin Listed(next.step)
      BY <2>2, ListedSoFar
    <3>2. QED
      BY <2>1, <3>1 DEF MetComparison
  <2>3. CASE call.step = "listComparisons"
    <3>1. ASSUME comparison[x].state # "stale", NEW e \in comparison[x].evaluations,
                 Affected(e, f)
          PROVE  <<x, comparison[x].state>> \in next.comparisons
      <4>1. e \in call.evaluations
        BY <1>1, <2>1, <2>3, <2>t, <3>1 DEF MetComparison
      <4>2. comparison[x].state \in {"proposed", "accepted"}
        BY <2>1, <2>t, <3>1 DEF MetComparison, ComparisonRows
      <4>3. QED
        BY <1>3, <2>3, <4>1, <4>2
    <3>2. <<x, comparison[x].state>>[1] = x
      OBVIOUS
    <3>3. QED
      BY <2>1, <3>1, <3>2 DEF MetComparison
  <2>4. CASE call.step = "listArtifacts"
    <3>1. "comparisons" \in Listed(call.step) /\ next.comparisons = call.comparisons
      BY <2>4, ListedSoFar
    <3>2. QED
      BY <2>1, <3>1 DEF MetComparison
  <2>5. QED
    BY <2>2, <2>3, <2>4
<1>4. ASSUME x \in Artifacts PROVE MetArtifact(next, x)
  <2>1. MetArtifact(call, x)
    BY <1>4 DEF MetAll
  <2>t. artifact[x].evaluations \subseteq Evaluations
    BY <1>4 DEF IInv, TypeOK, ArtifactRows
  <2>2. CASE call.step # "listArtifacts"
    <3>1. "artifacts" \notin Listed(next.step)
      BY <2>2, ListedSoFar
    <3>2. QED
      BY <2>1, <3>1 DEF MetArtifact
  <2>3. CASE call.step = "listArtifacts"
    <3>1. ASSUME artifact[x].state # "stale",
                 \/ f \in artifact[x].facts
                 \/ \E e \in artifact[x].evaluations : Affected(e, f)
          PROVE  x \in next.artifacts
      <4>1. artifact[x].state = "sealed"
        BY <2>1, <3>1 DEF MetArtifact
      <4>2. \/ f \in artifact[x].facts
            \/ artifact[x].evaluations \cap call.evaluations # {}
        BY <1>1, <2>1, <2>3, <2>t, <3>1 DEF MetArtifact
      <4>3. QED
        BY <1>4, <2>3, <4>1, <4>2
    <3>2. QED
      BY <2>1, <3>1 DEF MetArtifact
  <2>4. QED
    BY <2>2, <2>3
<1>5. QED
  BY <1>2, <1>3, <1>4
LEMMA MetStep == IInv /\ [Next]_vars => MetInv'
<1> SUFFICES ASSUME IInv, [Next]_vars, NEW g \in Handlers, handler'[g].step \in Corrects
             PROVE  MetAll(handler[g])'
  BY DEF MetInv
<1>t. handler \in [Handlers -> Calls] /\ TypeOK
  BY DEF IInv, TypeOK
<1>1. ASSUME NEW call, MetAll(call)', handler'[g] = call PROVE MetAll(handler[g])'
  BY <1>1 DEF MetAll, MetEvaluation, MetComparison, MetArtifact, Affected, RestsOn
<1>2. ASSUME NEW call, MetAll(call), UNCHANGED <<fact, evidence, outputs>> PROVE MetAll(call)'
  BY <1>2 DEF MetAll, MetEvaluation, MetComparison, MetArtifact, Affected, RestsOn, outputs
<1>3. PICK call \in Calls : call = handler[g]
  BY <1>t
<1>4. PICK next \in CorrectCalls : next = handler'[g]
  BY TypeStep, <1>t, CallForms DEF TypeOK
<1>m. call.step \in Corrects => MetAll(call) /\ call \in CorrectCalls
  <2>1. ASSUME call.step \in Corrects PROVE MetAll(handler[g])
    BY <1>3, <2>1 DEF IInv, MetInv
  <2>2. QED
    BY <1>3, <2>1, CallForms
    DEF MetAll, MetEvaluation, MetComparison, MetArtifact, Affected, RestsOn
<1>5. CASE handler'[g] = handler[g]
  <2>1. call \in CorrectCalls /\ MetAll(call)
    BY <1>3, <1>5, <1>m
  <2>2. MetAll(call)'
    BY <2>1, MetKept
  <2>3. QED
    BY <1>1, <1>3, <1>5, <2>2
<1>6. ASSUME NEW f \in Facts, CorrectFact(g, f) PROVE MetAll(handler[g])'
  <2>1. /\ next.step = "listEvidence" /\ next.fact = f /\ next.met = Dependents(f)
        /\ UNCHANGED <<fact, evidence, outputs>>
    BY <1>4, <1>6, <1>t DEF CorrectFact, Takes
  <2>2. MetAll(next)
    BY <2>1, MetFirst
  <2>3. MetAll(next)'
    BY <1>2, <2>1, <2>2
  <2>4. QED
    BY <1>1, <1>4, <2>3
<1>7. CASE TakesUp(g)
  <2>1. \/ \E f \in Facts : CorrectFact(g, f)
        \/ handler'[g].step \in {"decideFact", "listRejected", "decideEvidence", "seal", "propose",
                                 "accept", "listAccepted", "review"}
    BY <1>7, <1>t DEF TakesUp, DecideFact, DecideEvidence, SealReport, ProposeComparison,
                      AcceptComparison, StageDraft, ReviewDraft, Takes
  <2>2. QED
    BY <1>6, <2>1 DEF Corrects
<1>8. CASE Lists(g)
  <2>1. call \in CorrectCalls /\ MetAll(call)
    BY <1>3, <1>8, <1>m DEF Lists, ListEvidence, ListEvaluations, ListComparisons, ListArtifacts,
                            Corrects
  <2>2. UNCHANGED <<fact, evidence, outputs>>
    BY <1>8 DEF Lists, ListEvidence, ListEvaluations, ListComparisons, ListArtifacts
  <2>3. MetAll(next)
    <3>1. CASE ListEvidence(g)
      <4>1. /\ call.step = "listEvidence" /\ next.step = "listEvaluations"
            /\ next.fact = call.fact /\ next.met = call.met
            /\ next.evidence = {v \in Evidence : /\ evidence[v].decision = "accepted"
                                                 /\ evidence[v].fact = call.fact}
        BY <1>3, <1>4, <1>t, <2>1, <3>1 DEF ListEvidence, CorrectCalls
      <4>2. QED
        BY <2>1, <4>1, MetLists
    <3>2. CASE ListEvaluations(g)
      <4>1. /\ call.step = "listEvaluations" /\ next.step = "listComparisons"
            /\ next.fact = call.fact /\ next.met = call.met /\ next.evidence = call.evidence
            /\ next.evaluations = {e \in Evaluations :
                                     /\ evaluation[e].state = "completed"
                                     /\ evaluation[e].evidence \cap call.evidence # {}}
        BY <1>3, <1>4, <1>t, <2>1, <3>2 DEF ListEvaluations, CorrectCalls
      <4>2. QED
        BY <2>1, <4>1, MetLists
    <3>3. CASE ListComparisons(g)
      <4>1. /\ call.step = "listComparisons" /\ next.step = "listArtifacts"
            /\ next.fact = call.fact /\ next.met = call.met /\ next.evidence = call.evidence
            /\ next.evaluations = call.evaluations
            /\ next.comparisons = {<<c, comparison[c].state>> : c \in
                 {d \in Comparisons : /\ comparison[d].state \in {"proposed", "accepted"}
                                      /\ comparison[d].evaluations \cap call.evaluations # {}}}
        BY <1>3, <1>4, <1>t, <2>1, <3>3 DEF ListComparisons, CorrectCalls
      <4>2. QED
        BY <2>1, <4>1, MetLists
    <3>4. CASE ListArtifacts(g)
      <4>1. /\ call.step = "listArtifacts" /\ next.step = "correctFact"
            /\ next.fact = call.fact /\ next.met = call.met /\ next.evidence = call.evidence
            /\ next.evaluations = call.evaluations /\ next.comparisons = call.comparisons
            /\ next.artifacts = {a \in Artifacts :
                 /\ artifact[a].state = "sealed"
                 /\ \/ call.fact \in artifact[a].facts
                    \/ artifact[a].evaluations \cap call.evaluations # {}}
        BY <1>3, <1>4, <1>t, <2>1, <3>4 DEF ListArtifacts, CorrectCalls
      <4>2. QED
        BY <2>1, <4>1, MetLists
    <3>5. QED
      BY <1>8, <3>1, <3>2, <3>3, <3>4 DEF Lists
  <2>4. MetAll(next)'
    BY <1>2, <2>2, <2>3
  <2>5. QED
    BY <1>1, <1>4, <2>4
<1>9. ~(GoesOn(g) \/ Admits(g))
  <2>1. CASE ListRejected(g)
    <3>1. handler[g] \in [step : {"listRejected", "decideEvidence"}, evidence : Evidence,
                          decision : {"accepted", "rejected"}]
      BY <2>1, <1>t, CallForms DEF ListRejected
    <3>2. handler'[g].step \in {"decideEvidence", "idle"}
      BY <2>1, <1>t, <3>1 DEF ListRejected, Finish, Idle
    <3>3. QED
      BY <3>2 DEF Corrects
  <2>2. CASE ScoreEvaluation(g)
    <3>1. handler[g] \in [step : {"score", "complete", "seal"}, evaluation : Evaluations]
      BY <2>2, <1>t, CallForms DEF ScoreEvaluation
    <3>2. handler'[g].step = "complete"
      BY <2>2, <1>t, <3>1 DEF ScoreEvaluation
    <3>3. QED
      BY <3>2 DEF Corrects
  <2>3. CASE ListAccepted(g) \/ Admits(g)
    BY <2>3, <1>t DEF ListAccepted, Admits, Evaluate, Idle, Corrects
  <2>4. QED
    BY <2>1, <2>2, <2>3 DEF GoesOn
<1>10. CASE handler'[g] = Idle
  BY <1>10 DEF Idle, Corrects
<1>11. QED
  BY <1>t, <1>5, <1>7, <1>8, <1>9, <1>10, Acts

LEMMA InitIInv == Init => IInv
<1> SUFFICES ASSUME Init PROVE IInv
  OBVIOUS
<1>1. TypeOK
  BY InitType
<1>2. FactInv
  BY ConstantsAssumption DEF Init, FactInv, OneSuccessor
<1>3. OutputsAreGrounded /\ ReportsInv
  BY DEF Init, OutputsAreGrounded, ReportsInv
<1>4. HandlerInv /\ RunsInv /\ MetInv
  BY DEF Init, HandlerInv, RunsInv, MetInv, Idle, Evaluates, Corrects
<1>5. QED
  BY <1>1, <1>2, <1>3, <1>4 DEF IInv

\* The rows that a handler relies on move forward only, and what a correction
\* met is in its lists: the inductive invariant of the module.
THEOREM Invariant == Spec => []IInv
<1>1. IInv /\ [Next]_vars => IInv'
  <2>1. IInv => TypeOK
    BY DEF IInv
  <2>2. QED
    BY <2>1, TypeStep, FactStep, GroundedStep, HandlerStep, RunsStep, MetStep DEF IInv
<1>2. QED
  BY InitIInv, <1>1, PTL DEF Spec

\* Every row and every call of a handler has the form the code gives it.
THEOREM TypeCorrect == Spec => []TypeOK
BY Invariant, PTL DEF IInv

\* confirmProfileFact and correctVerifiedFact: however many corrections of a
\* fact race, it gets one successor, and none that is not superseded has any.
THEOREM CorrectionsNeverFork == Spec => []OneSuccessor
BY Invariant, PTL DEF IInv, FactInv

\* evaluate, proposeComparison, sealEvaluationReport, createCandidateArtifact
\* and decideEvidence: nothing is in an output that the user has not vouched
\* for, though none of their commits compares the rows the output rests on.
THEOREM NothingUnvouchedGetsOut == Spec => []OutputsAreGrounded
BY Invariant, PTL DEF IInv

\* acceptComparison, reviewCandidateArtifact and correctVerifiedFact: no commit
\* takes an output that a correction has marked for current again.
THEOREM MarkedForGood == Spec => StaleIsFinal
<1> DEFINE Kept ==
      /\ \A e \in Evaluations : evaluation[e].state = "stale" => evaluation'[e].state = "stale"
      /\ \A c \in Comparisons : comparison[c].state = "stale" => comparison'[c].state = "stale"
      /\ \A a \in Artifacts : artifact[a].state = "stale" => artifact'[a].state = "stale"
<1>1. ASSUME IInv, [Next]_vars PROVE Kept
  BY <1>1, EvaluationsAdvance, ComparisonsAdvance, ArtifactsAdvance
     DEF EvaluationAdvances, ComparisonAdvances, ArtifactAdvances
<1>2. IInv /\ [Next]_vars => [Kept]_vars
  BY <1>1
<1> HIDE DEF Kept
<1>3. Spec => [][Kept]_vars
  BY Invariant, <1>2, PTL DEF Spec
<1>4. QED
  BY <1>3 DEF Kept, StaleIsFinal

-------------------------------------------------------------------------------
\* A correction that has listed everything ends by its own commit.
LEMMA EndsByItself ==
  ASSUME TypeOK, [Next]_vars, NEW g \in Handlers, handler[g].step = "correctFact",
         handler'[g] # handler[g]
  PROVE  CommitCorrection(g)
<1>t. handler \in [Handlers -> Calls]
  BY DEF TypeOK
<1>1. ASSUME NEW h \in Handlers, TakesUp(h) PROVE FALSE
  BY <1>1, <1>t DEF TakesUp, CorrectFact, DecideFact, DecideEvidence, SealReport,
     ProposeComparison, AcceptComparison, StageDraft, ReviewDraft, Takes, Idle
<1>2. ASSUME NEW h \in Handlers, Lists(h) PROVE FALSE
  BY <1>2, <1>t DEF Lists, ListEvidence, ListEvaluations, ListComparisons, ListArtifacts
<1>3. ASSUME NEW h \in Handlers, GoesOn(h) \/ Admits(h) PROVE FALSE
  BY <1>3, <1>t DEF GoesOn, Admits, ListRejected, ScoreEvaluation, ListAccepted, Evaluate,
                    Finish, Idle
<1>4. ASSUME NEW h \in Handlers, CommitCorrection(h) PROVE h = g
  BY <1>4, <1>t DEF CommitCorrection, Finish
<1>5. ASSUME NEW h \in Handlers,
             \/ CommitFact(h) \/ CommitEvidence(h)
             \/ CompleteEvaluation(h) \/ FailEvaluation(h) \/ CommitAcceptance(h)
             \/ \E c \in Comparisons : CommitComparison(h, c)
             \/ \E a \in Artifacts : CommitReport(h, a) \/ CommitDraft(h, a)
             \/ CommitReview(h)
      PROVE  FALSE
  BY <1>5, <1>t DEF CommitFact, CommitEvidence, CompleteEvaluation, FailEvaluation,
     CommitAcceptance, CommitComparison, CommitReport, CommitDraft, CommitReview, Finish
<1>6. ASSUME \/ \E f \in Facts : ProposeFact(f)
             \/ \E v \in Evidence, f \in Facts \cup {NoFact} : ProposeEvidence(v, f)
             \/ UNCHANGED vars
      PROVE  FALSE
  BY <1>6 DEF ProposeFact, ProposeEvidence, vars
<1>7. QED
  BY <1>1, <1>2, <1>3, <1>4, <1>5, <1>6 DEF Next, TakesUp, Lists, GoesOn, Admits

\* correctVerifiedFact, which lists four tables at four awaits: what depended on
\* the fact at the beginning and does so at the commit is in its lists, and is
\* marked by the commit that supersedes the fact.
THEOREM CorrectionReaches == Spec => CorrectionReachesWhatItMet
<1> DEFINE Reached ==
      \A h \in Handlers :
        handler[h].step = "correctFact" /\ handler'[h] = Idle
          /\ fact[handler[h].fact].status = "verified"
          /\ fact'[handler[h].fact].status = "superseded"
            => \A x \in handler[h].met \cap Dependents(handler[h].fact) : ~Current(x)'
<1>1. IInv /\ [Next]_vars => Reached
  <2> SUFFICES ASSUME IInv, [Next]_vars, NEW h \in Handlers,
                      handler[h].step = "correctFact", handler'[h] = Idle,
                      fact[handler[h].fact].status = "verified",
                      fact'[handler[h].fact].status = "superseded",
                      NEW x \in handler[h].met \cap Dependents(handler[h].fact)
               PROVE  ~Current(x)'
    OBVIOUS
  <2> DEFINE call == handler[h]
             f == handler[h].fact
  <2>1. CommitCorrection(h)
    BY EndsByItself DEF IInv, Idle
  <2>2. call \in CorrectCalls /\ Found(call) /\ MarkStale(call)
    BY <2>1, CorrectionWrites
  <2>3. MetAll(call) /\ Listed(call.step) = {"evidence", "evaluations", "comparisons", "artifacts"}
    BY ListedSoFar DEF IInv, MetInv, Corrects
  <2>4. CASE x \in Evaluations
    <3>1. x \notin Comparisons /\ x \notin Artifacts
      BY <2>4, IdentitiesAssumption
    <3>2. x \in call.evaluations
      BY <2>3, <2>4, <3>1 DEF MetAll, MetEvaluation, Dependents
    <3>3. evaluation'[x].state = "stale"
      BY <2>2, <2>4, <3>2 DEF MarkStale, IInv, TypeOK, EvaluationRows
    <3>4. QED
      BY <3>1, <3>3 DEF Current
  <2>5. CASE x \in Comparisons
    <3>1. x \notin Evaluations /\ x \notin Artifacts
      BY <2>5, IdentitiesAssumption
    <3>2. /\ comparison[x].state # "stale"
          /\ \E e \in comparison[x].evaluations : Affected(e, f)
      BY <3>1 DEF Dependents, Affected
    <3>3. MetComparison(call, x)
      BY <2>3, <2>5 DEF MetAll
    <3>4. \E pair \in call.comparisons : pair[1] = x
      BY <2>3, <3>2, <3>3 DEF MetComparison
    <3>5. comparison'[x].state = "stale"
      BY <2>2, <2>5, <3>4 DEF MarkStale, IInv, TypeOK, ComparisonRows
    <3>6. QED
      BY <3>1, <3>5 DEF Current
  <2>6. CASE x \in Artifacts
    <3>1. x \notin Evaluations /\ x \notin Comparisons
      BY <2>6, IdentitiesAssumption
    <3>2. /\ artifact[x].state # "stale"
          /\ \/ f \in artifact[x].facts
             \/ \E e \in artifact[x].evaluations : Affected(e, f)
      BY <3>1 DEF Dependents, Affected
    <3>3. MetArtifact(call, x)
      BY <2>3, <2>6 DEF MetAll
    <3>4. x \in call.artifacts
      BY <2>3, <3>2, <3>3 DEF MetArtifact
    <3>5. artifact'[x].state = "stale"
      BY <2>2, <2>6, <3>4 DEF MarkStale, IInv, TypeOK, ArtifactRows
    <3>6. QED
      BY <3>1, <3>5 DEF Current
  <2>7. QED
    BY <2>4, <2>5, <2>6 DEF Dependents
<1>2. IInv /\ [Next]_vars => [Reached]_vars
  BY <1>1
<1> HIDE DEF Reached
<1>3. Spec => [][Reached]_vars
  BY Invariant, <1>2, PTL DEF Spec
<1>4. QED
  BY <1>3 DEF Reached, CorrectionReachesWhatItMet
===============================================================================
