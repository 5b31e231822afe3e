-------------------------------- MODULE Career --------------------------------
(***************************************************************************)
(* The career record: sources and suggested facts, and how the user decides *)
(* on them (captureSource, uploadCandidateSource, addCareerHistoryEntry,     *)
(* proposeProfileFact and confirmProfileFact of workbench.ts, their routes   *)
(* and the correction route, and the pages Overview, Profile and Settings    *)
(* of App.tsx).  A page decides from the snapshot it last received; one      *)
(* press of Continue is a request per suggested fact, one after the other,   *)
(* and saved preferences are a source and two requests per preference: a     *)
(* request that fails ends such a sequence where it is.                      *)
(* What an organization run may do is the subject of module AgentRuns, what  *)
(* a correction makes stale of Provenance; here a run only suggests facts    *)
(* and ends.                                                                 *)
(***************************************************************************)
EXTENDS Naturals, Sequences, FiniteSets, FiniteSetsExt

CONSTANTS
  OpenTabs,      \* tabs of the browser; each has one sequence of requests at a time
  Organizations, \* operations that organize a source
  Nobody,        \* the author of no fact
  MaxFacts,      \* bound: facts
  Wishes,        \* preferences that Settings saves at once
  MaxDeeds       \* bound: what the user does and requests that fail, together

ASSUME CareerAssumption ==
  /\ "user" \notin Organizations /\ Nobody \notin Organizations \cup {"user"}
  /\ MaxFacts \in Nat \ {0} /\ Wishes \in Nat \ {0} /\ MaxDeeds \in Nat

VARIABLES
  sources,      \* the sources in order of capture: what each was captured for
  fact,         \* the table of facts, by order of insertion
  organization, \* the operations of profile organization
  snapshot,     \* the snapshot a tab shows
  out,          \* the suggestions the user left out in a tab (excludedSummaryFactIds)
  work,         \* the mutation a tab is in
  request,      \* its request under way, as its handler
  agreed,       \* facts the user has agreed to, each with the revision shown
  deeds         \* how often the user did something or a request failed

careerTables == <<sources, fact, organization>>
careerVars == <<careerTables, snapshot, out, work, request, agreed, deeds>>

-----------------------------------------------------------------------------
Facts == 1..MaxFacts
Statuses == {"absent", "proposed", "verified", "derived_unverified", "user_cannot_confirm",
             "superseded"}
Outcomes == {"confirm", "narrative_only", "cannot_confirm"}
Purposes == {"material", "correction", "preference"}
FactRows == [status : Statuses, revision : 0..3, preference : BOOLEAN, source : Nat,
         by : Organizations \cup {"user", Nobody}]
TabRequests == [step : {"free", "sent", "captured", "read", "accepted", "refused"},
          kind : {"none", "capture", "entry", "propose", "correct"} \cup Outcomes,
          fact : 0..MaxFacts, revision : 0..3, preference : BOOLEAN, source : Nat]
Works == [kind : {"none", "one", "review", "preferences"}, left : SUBSET Facts,
          shown : [Facts -> 0..3], out : SUBSET Facts, wishes : 0..Wishes]

NoFact == [status |-> "absent", revision |-> 0, preference |-> FALSE, source |-> 0, by |-> Nobody]
NoRequest == [step |-> "free", kind |-> "none", fact |-> 0, revision |-> 0, preference |-> FALSE,
           source |-> 0]
NoWork == [kind |-> "none", left |-> {}, shown |-> [f \in Facts |-> 0], out |-> {}, wishes |-> 0]

NoOrganization == [state |-> "absent", source |-> 0, results |-> {}]

\* There is one source of career material.  It waits to be organized, or its
\* organization has succeeded in an earlier session with one fact, which was
\* confirmed.
CareerInit ==
  /\ sources = <<"material">>
  /\ \/ /\ fact = [f \in Facts |-> NoFact]
        /\ organization = [o \in Organizations |-> NoOrganization]
        /\ agreed = {}
     \/ \E o \in Organizations :
          /\ fact = [f \in Facts |-> IF f > 1 THEN NoFact ELSE
                       [NoFact EXCEPT !.status = "verified", !.revision = 2, !.source = 1, !.by = o]]
          /\ organization = [p \in Organizations |-> IF p # o THEN NoOrganization ELSE
                               [state |-> "succeeded", source |-> 1, results |-> {1}]]
          /\ agreed = {<<1, 1>>}
  /\ snapshot = [t \in OpenTabs |-> [sources |-> 1, fact |-> fact, organization |-> organization]]
  /\ out = [t \in OpenTabs |-> {}]
  /\ work = [t \in OpenTabs |-> NoWork]
  /\ request = [t \in OpenTabs |-> NoRequest]
  /\ deeds = 0

-----------------------------------------------------------------------------
\* What a tab makes of its snapshot.

\* The facts of organizations that have succeeded.
Organized(t) ==
  UNION {snapshot[t].organization[o].results :
           o \in {p \in Organizations : snapshot[t].organization[p].state = "succeeded"}}

\* Suggestions for the career record.  Those of an agent are shown when their
\* organization has completed with them.
Suggested(t) ==
  {f \in Facts : LET row == snapshot[t].fact[f] IN
     row.status = "proposed" /\ ~row.preference /\ (row.by \notin Organizations \/ f \in Organized(t))}

\* Fault: a result that the snapshot does not hold counts as decided.
SetupCompleteWithGaps(t) ==
  \E o \in Organizations : LET seen == snapshot[t].organization[o] IN
    /\ seen.state = "succeeded" /\ seen.results # {}
    /\ \A f \in seen.results : snapshot[t].fact[f].status # "proposed"

\* One organization has succeeded with results, and every one is decided.
SetupComplete(t) ==
  \E o \in Organizations : LET seen == snapshot[t].organization[o] IN
    /\ seen.state = "succeeded" /\ seen.results # {}
    /\ \A f \in seen.results : snapshot[t].fact[f].status \notin {"absent", "proposed"}

\* The page is then nothing but the review, with a box to uncheck per fact.
Guided(t) == ~SetupComplete(t) /\ Suggested(t) # {}

\* The latest source no preference is known to rest on: a correction's text too.
CareerSources(t) ==
  1..snapshot[t].sources \
    {snapshot[t].fact[f].source : f \in {g \in Facts : snapshot[t].fact[g].preference}}

-----------------------------------------------------------------------------
\* Snapshots.  Their lists are read one by one: sources and facts, then
\* operations.  (One that comes when nothing further is to be clicked decides
\* nothing, unless a review is under way.)

SeeFacts(t) ==
  /\ deeds < MaxDeeds \/ work[t].kind = "review"
  /\ <<snapshot[t].sources, snapshot[t].fact>> # <<Len(sources), fact>>
  /\ snapshot' = [snapshot EXCEPT ![t].sources = Len(sources), ![t].fact = fact]
  /\ UNCHANGED <<careerTables, out, work, request, agreed, deeds>>

SeeOrganizations(t) ==
  /\ deeds < MaxDeeds
  /\ snapshot[t].organization # organization
  /\ snapshot' = [snapshot EXCEPT ![t].organization = organization]
  /\ UNCHANGED <<careerTables, out, work, request, agreed, deeds>>

-----------------------------------------------------------------------------
\* What the user does.

Click(t) ==
  /\ work[t].kind = "none" /\ deeds < MaxDeeds
  /\ deeds' = deeds + 1
Submit(t, c) ==
  /\ work' = [work EXCEPT ![t].kind = "one"]
  /\ request' = [request EXCEPT ![t] = c]

\* A file, a pasted text or a story becomes a source; a role becomes a source
\* and the facts it says.
AddMaterial(t) ==
  /\ Click(t)
  /\ Submit(t, [NoRequest EXCEPT !.step = "sent", !.kind = "capture"])
  /\ UNCHANGED <<careerTables, snapshot, out, agreed>>
AddEntry(t) ==
  /\ Click(t)
  /\ Submit(t, [NoRequest EXCEPT !.step = "sent", !.kind = "entry"])
  /\ UNCHANGED <<careerTables, snapshot, out, agreed>>

\* A statement of a saved source is suggested by the user.
ProposeStatement(t) ==
  /\ Click(t) /\ ~Guided(t)
  /\ \E s \in CareerSources(t) :
       Submit(t, [NoRequest EXCEPT !.step = "sent", !.kind = "propose", !.source = s])
  /\ UNCHANGED <<careerTables, snapshot, out, agreed>>

\* A box of the review is unchecked, also while the review is being saved.
LeaveOut(t) ==
  /\ Guided(t) /\ deeds < MaxDeeds
  /\ \E f \in Suggested(t) \ out[t] : out' = [out EXCEPT ![t] = @ \cup {f}]
  /\ deeds' = deeds + 1
  /\ UNCHANGED <<careerTables, snapshot, work, request, agreed>>

\* Continue, or Keep all: what is shown now is decided, fact by fact.
Review(t) ==
  /\ Click(t) /\ Suggested(t) # {}
  /\ work' = [work EXCEPT ![t] =
       [NoWork EXCEPT !.kind = "review", !.left = Suggested(t), !.out = out[t] \cap Suggested(t),
                      !.shown = [f \in Facts |-> IF f \in Suggested(t) THEN snapshot[t].fact[f].revision
                                                 ELSE 0]]]
  /\ agreed' = agreed \cup {<<f, snapshot[t].fact[f].revision>> : f \in Suggested(t) \ out[t]}
  /\ UNCHANGED <<careerTables, snapshot, out, request>>

\* The choices of one suggestion.
Decide(t, f, outcome) ==
  LET revision == snapshot[t].fact[f].revision IN
  /\ Click(t)
  /\ f \in Suggested(t) /\ ~Guided(t)
  /\ Submit(t, [NoRequest EXCEPT !.step = "sent", !.kind = outcome, !.fact = f,
                                 !.revision = revision])
  /\ agreed' = IF outcome = "confirm" THEN agreed \cup {<<f, revision>>} ELSE agreed
  /\ UNCHANGED <<careerTables, snapshot, out>>

\* A suggestion or a detail of the record gets another text.
Correct(t, f) ==
  LET row == snapshot[t].fact[f] IN
  /\ Click(t)
  /\ f \in Suggested(t) \/ (row.status = "verified" /\ ~row.preference /\ ~Guided(t))
  /\ Submit(t, [NoRequest EXCEPT !.step = "sent", !.kind = "correct", !.fact = f,
                                 !.revision = row.revision])
  /\ UNCHANGED <<careerTables, snapshot, out, agreed>>

\* Settings uses or edits a preference, a half-saved one too.
UseSetting(t, f) ==
  LET row == snapshot[t].fact[f] IN
  /\ Click(t)
  /\ row.preference /\ row.status \in {"proposed", "verified"}
  /\ \E kind \in {"confirm", "correct"} :
       /\ kind = "confirm" => row.status = "proposed"
       /\ Submit(t, [NoRequest EXCEPT !.step = "sent", !.kind = kind, !.fact = f,
                                      !.revision = row.revision])
       /\ agreed' = IF kind = "confirm" THEN agreed \cup {<<f, row.revision>>} ELSE agreed
  /\ UNCHANGED <<careerTables, snapshot, out>>

\* The preferences of Settings begin with the source of all of them.
SavePreferences(t) ==
  /\ Click(t)
  /\ work' = [work EXCEPT ![t] = [NoWork EXCEPT !.kind = "preferences", !.wishes = Wishes]]
  /\ request' = [request EXCEPT ![t] = [NoRequest EXCEPT !.step = "sent", !.kind = "capture",
                                                         !.preference = TRUE]]
  /\ UNCHANGED <<careerTables, snapshot, out, agreed>>

\* Continue with AI sends the latest source.
Organize(t, o) ==
  /\ Click(t) /\ ~Guided(t)
  /\ organization[o].state = "absent" /\ CareerSources(t) # {}
  /\ organization' = [organization EXCEPT ![o].state = "running",
                                          ![o].source = Max(CareerSources(t))]
  /\ UNCHANGED <<sources, fact, snapshot, out, work, request, agreed>>

-----------------------------------------------------------------------------
\* Sequences of requests.

\* Fault: the review goes on with what is suggested by now.
NextFactOfNow(t) ==
  /\ work[t].kind = "review" /\ request[t].step = "free"
  /\ LET f == Min(work[t].left \cup Suggested(t)) IN
     request' = [request EXCEPT ![t] =
       [NoRequest EXCEPT !.step = "sent", !.fact = f, !.revision = snapshot[t].fact[f].revision,
                         !.kind = IF f \in work[t].out THEN "cannot_confirm" ELSE "confirm"]]
  /\ UNCHANGED <<careerTables, snapshot, out, work, agreed, deeds>>

\* The next fact of a review, with the revision the click was shown.
NextFact(t) ==
  /\ work[t].kind = "review" /\ request[t].step = "free"
  /\ LET f == Min(work[t].left) IN
     request' = [request EXCEPT ![t] =
       [NoRequest EXCEPT !.step = "sent", !.fact = f, !.revision = work[t].shown[f],
                         !.kind = IF f \in work[t].out THEN "cannot_confirm" ELSE "confirm"]]
  /\ UNCHANGED <<careerTables, snapshot, out, work, agreed, deeds>>

\* After the last fact the page is left, and what it left out is forgotten.
FactDecided(t) ==
  /\ work[t].kind = "review" /\ request[t].step = "accepted"
  /\ request' = [request EXCEPT ![t] = NoRequest]
  /\ LET left == work[t].left \ {request[t].fact} IN
     IF left = {} THEN work' = [work EXCEPT ![t] = NoWork] /\ out' = [out EXCEPT ![t] = {}]
                  ELSE work' = [work EXCEPT ![t].left = left] /\ UNCHANGED out
  /\ UNCHANGED <<careerTables, snapshot, agreed, deeds>>

\* A preference is suggested from the source, and what was suggested is
\* confirmed; then the next one.
NextWish(t) ==
  /\ work[t].kind = "preferences" /\ request[t].step = "accepted"
  /\ LET more == [NoRequest EXCEPT !.step = "sent", !.source = request[t].source, !.preference = TRUE]
         left == IF request[t].kind = "confirm" THEN work[t].wishes - 1 ELSE work[t].wishes IN
     IF left = 0
     THEN work' = [work EXCEPT ![t] = NoWork] /\ request' = [request EXCEPT ![t] = NoRequest]
     ELSE /\ work' = [work EXCEPT ![t].wishes = left]
          /\ request' = [request EXCEPT ![t] =
               IF request[t].kind = "propose"
               THEN [more EXCEPT !.kind = "confirm", !.fact = request[t].fact, !.revision = 1]
               ELSE [more EXCEPT !.kind = "propose"]]
  /\ UNCHANGED <<careerTables, snapshot, out, agreed, deeds>>

\* A single request is answered, or a request of a sequence is refused: the
\* rest of the sequence is not sent.
Finish(t) ==
  /\ \/ work[t].kind = "one" /\ request[t].step \in {"accepted", "refused"}
     \/ work[t].kind \in {"review", "preferences"} /\ request[t].step = "refused"
  /\ work' = [work EXCEPT ![t] = NoWork]
  /\ request' = [request EXCEPT ![t] = NoRequest]
  /\ UNCHANGED <<careerTables, snapshot, out, agreed, deeds>>

\* A request does not arrive, or its answer does not.
FailRequest(t) ==
  /\ request[t].step \in {"sent", "accepted"} /\ deeds < MaxDeeds
  /\ deeds' = deeds + 1
  /\ request' = [request EXCEPT ![t].step = "refused"]
  /\ UNCHANGED <<careerTables, snapshot, out, work, agreed>>

-----------------------------------------------------------------------------
\* The handlers.

FreshFact == Min({f \in Facts : fact[f].status = "absent"})
Room == \E f \in Facts : fact[f].status = "absent"
Reply(t, step) == request' = [request EXCEPT ![t].step = step]
Handles(t, step, kinds) == request[t].step = step /\ request[t].kind \in kinds

CaptureSource(t) ==
  /\ Handles(t, "sent", {"capture"})
  /\ sources' = Append(sources, IF request[t].preference THEN "preference" ELSE "material")
  /\ request' = [request EXCEPT ![t].step = "accepted", ![t].source = Len(sources) + 1]
  /\ UNCHANGED <<fact, organization, snapshot, out, work, agreed, deeds>>

\* Fault: the facts of a role are committed ahead of their source.
AddFactsFirst(t) ==
  /\ Handles(t, "sent", {"entry"}) /\ Room
  /\ fact' = [fact EXCEPT ![FreshFact] = [NoFact EXCEPT !.status = "proposed", !.revision = 1,
                                                        !.source = Len(sources) + 1, !.by = "user"]]
  /\ request' = [request EXCEPT ![t].step = "sent", ![t].kind = "capture"]
  /\ UNCHANGED <<sources, organization, snapshot, out, work, agreed, deeds>>

\* The source of a role and its facts are one commit.
AddCareerHistoryEntry(t) ==
  /\ Handles(t, "sent", {"entry"}) /\ Room
  /\ sources' = Append(sources, "material")
  /\ fact' = [fact EXCEPT ![FreshFact] = [NoFact EXCEPT !.status = "proposed", !.revision = 1,
                                                        !.source = Len(sources) + 1, !.by = "user"]]
  /\ Reply(t, "accepted")
  /\ UNCHANGED <<organization, snapshot, out, work, agreed, deeds>>

ProposeProfileFact(t) ==
  /\ Handles(t, "sent", {"propose"}) /\ Room
  /\ fact' = [fact EXCEPT ![FreshFact] =
       [NoFact EXCEPT !.status = "proposed", !.revision = 1, !.preference = request[t].preference,
                      !.source = request[t].source, !.by = "user"]]
  /\ request' = [request EXCEPT ![t].step = "accepted", ![t].fact = FreshFact]
  /\ UNCHANGED <<sources, organization, snapshot, out, work, agreed, deeds>>

\* The route of a correction finds the fact current and captures the new text,
\* before the correction itself is asked for.
CaptureCorrection(t) ==
  /\ Handles(t, "sent", {"correct"})
  /\ LET row == fact[request[t].fact] IN
     IF /\ row.revision = request[t].revision
        /\ row.status \in {"verified", "proposed", "derived_unverified"}
     THEN /\ sources' = Append(sources, "correction")
          /\ request' = [request EXCEPT ![t].step = "captured", ![t].source = Len(sources) + 1]
     ELSE Reply(t, "refused") /\ UNCHANGED sources
  /\ UNCHANGED <<fact, organization, snapshot, out, work, agreed, deeds>>

\* A fact is decided on at the revision it has, from the statuses that are open.
\* (The path of a correction is chosen by the status its route has read; a
\* status changes only with the revision.)
ReadFact(t) ==
  /\ Handles(t, "captured", {"correct"}) \/ Handles(t, "sent", Outcomes)
  /\ LET row == fact[request[t].fact] IN
     Reply(t, IF /\ row.revision = request[t].revision
                 /\ \/ row.status \in {"proposed", "derived_unverified"}
                    \/ row.status = "verified" /\ request[t].kind = "correct"
              THEN "read" ELSE "refused")
  /\ UNCHANGED <<careerTables, snapshot, out, work, agreed, deeds>>

\* The commit compares the revision again.
CommitDecision(t) ==
  /\ Handles(t, "read", Outcomes)
  /\ LET f == request[t].fact IN
     IF fact[f].revision = request[t].revision
     THEN /\ fact' = [fact EXCEPT ![f].revision = @ + 1,
                        ![f].status = CASE request[t].kind = "confirm" -> "verified"
                                        [] request[t].kind = "narrative_only" -> "derived_unverified"
                                        [] OTHER -> "user_cannot_confirm"]
          /\ Reply(t, "accepted")
     ELSE Reply(t, "refused") /\ UNCHANGED fact
  /\ UNCHANGED <<sources, organization, snapshot, out, work, agreed, deeds>>

\* The fact is superseded by one with the user's text.
CommitCorrection(t) ==
  /\ Handles(t, "read", {"correct"}) /\ Room
  /\ LET f == request[t].fact IN
     IF fact[f].revision = request[t].revision
     THEN /\ fact' = [fact EXCEPT ![f].revision = @ + 1, ![f].status = "superseded",
                        ![FreshFact] = [fact[f] EXCEPT !.status = "verified", !.revision = 1,
                                                       !.source = request[t].source, !.by = "user"]]
          /\ agreed' = agreed \cup {<<FreshFact, 0>>}
          /\ Reply(t, "accepted")
     ELSE Reply(t, "refused") /\ UNCHANGED <<fact, agreed>>
  /\ UNCHANGED <<sources, organization, snapshot, out, work, deeds>>

-----------------------------------------------------------------------------
\* Organization runs.

\* An agent suggests a fact.  The code checks the operation at a read before the
\* insert, which may thus come when the operation has ended.
SuggestFact(o) ==
  /\ organization[o].state # "absent" /\ Room
  /\ fact' = [fact EXCEPT ![FreshFact] = [NoFact EXCEPT !.status = "proposed", !.revision = 1,
                                                        !.source = organization[o].source, !.by = o]]
  /\ UNCHANGED <<sources, organization, snapshot, out, work, request, agreed, deeds>>

\* It completes with suggestions of an agent from its source, or fails; what it
\* has recorded stays in the table.
EndOrganization(o) ==
  /\ organization[o].state = "running"
  /\ \/ \E results \in SUBSET {f \in Facts : /\ fact[f].status = "proposed"
                                             /\ fact[f].by \in Organizations
                                             /\ fact[f].source = organization[o].source} :
          organization' = [organization EXCEPT ![o].state = "succeeded", ![o].results = results]
     \/ organization' = [organization EXCEPT ![o].state = "failed"]
  /\ UNCHANGED <<sources, fact, snapshot, out, work, request, agreed, deeds>>

-----------------------------------------------------------------------------
TabNext(t) ==
  \/ SeeFacts(t) \/ SeeOrganizations(t)
  \/ AddMaterial(t) \/ AddEntry(t) \/ ProposeStatement(t)
  \/ LeaveOut(t) \/ Review(t) \/ SavePreferences(t)
  \/ \E f \in Facts : \/ Correct(t, f) \/ UseSetting(t, f)
                      \/ \E outcome \in Outcomes : Decide(t, f, outcome)
  \/ \E o \in Organizations : Organize(t, o)
  \/ NextFact(t) \/ FactDecided(t) \/ NextWish(t) \/ Finish(t) \/ FailRequest(t)
HandlerNext(t) ==
  \/ CaptureSource(t) \/ AddCareerHistoryEntry(t) \/ ProposeProfileFact(t)
  \/ CaptureCorrection(t) \/ ReadFact(t)
  \/ CommitDecision(t) \/ CommitCorrection(t)

CareerNext ==
  \/ \E t \in OpenTabs : TabNext(t) \/ HandlerNext(t)
  \/ \E o \in Organizations : SuggestFact(o) \/ EndOrganization(o)

CareerSpec == CareerInit /\ [][CareerNext]_careerVars

-----------------------------------------------------------------------------
(* Properties. *)

\* Rows, organizations, snapshots and requests have the shape of their
\* schemas; a fact that exists names a source that exists and somebody who
\* suggested it.
CareerTypeOK ==
  /\ sources \in Seq(Purposes)
  /\ fact \in [Facts -> FactRows]
  /\ \A f \in Facts : fact[f].status # "absent" =>
       fact[f].source \in 1..Len(sources) /\ fact[f].by # Nobody
  /\ \A o \in Organizations : /\ organization[o].state \in {"absent", "running", "succeeded", "failed"}
                              /\ organization[o].source \in 0..Len(sources)
                              /\ organization[o].results \subseteq Facts
  /\ \A t \in OpenTabs : /\ snapshot[t].sources \in 0..Len(sources)
                         /\ snapshot[t].fact \in [Facts -> FactRows]
  /\ out \in [OpenTabs -> SUBSET Facts]
  /\ work \in [OpenTabs -> Works]
  /\ request \in [OpenTabs -> TabRequests]
  /\ agreed \subseteq Facts \X (0..3)
  /\ deeds \in 0..MaxDeeds

\* "You review every proposed detail before it enters your record" (Overview):
\* a detail of the record is verified at the revision at which a page had shown
\* it when the user agreed to it, left in; one of an agent moreover is a result
\* of a completed organization.  Facts are suggested while the review of others
\* is being saved, tabs decide at the same time, and a run that fails leaves
\* its suggestions in the table.
VerifiedWasReviewed ==
  \A f \in Facts : fact[f].status = "verified" /\ ~fact[f].preference =>
    /\ <<f, fact[f].revision - 1>> \in agreed
    /\ fact[f].by \in Organizations =>
         \E o \in Organizations : organization[o].state = "succeeded" /\ f \in organization[o].results

\* A tab that shows the setup as complete is right, although its operations
\* may have been read after its facts: some organization has succeeded and each
\* of its results is decided (careerSetupComplete).
CompleteMeansDecided ==
  (\E t \in OpenTabs : SetupComplete(t)) =>
    \E o \in Organizations :
      /\ organization[o].state = "succeeded" /\ organization[o].results # {}
      /\ \A f \in organization[o].results : fact[f].status # "proposed"

===============================================================================
