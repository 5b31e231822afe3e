--------------------------------- MODULE Inbox ---------------------------------
(***************************************************************************)
(* The review inbox: the saved search, the leads that job discoveries       *)
(* record, the user's triage of them, saved opportunities and the pipeline  *)
(* (workbench.ts, their endpoints in routes.ts, and the pages Discover,      *)
(* Opportunities and Pipeline of App.tsx).  Discoveries record leads, and    *)
(* several tabs of the browser decide on them, each from the snapshot it    *)
(* last received.  A handler reads and checks first and commits later; the   *)
(* commit compares the revision of every row it updates.                    *)
(* How an operation is admitted, cancelled and settled is the subject of     *)
(* modules Operations and AgentRuns; what a commit is, of WorkspaceStore.    *)
(***************************************************************************)
EXTENDS Naturals, FiniteSets

CONSTANTS
  Tabs,          \* tabs of the browser; each has one request at a time
  Discoveries,   \* operations of job discovery; each records one lead at a time
  Criteria,      \* what a saved search asks for
  Paused,        \* the criteria that are saved as not active
  Urls,          \* normalized addresses of listings
  Contents,      \* texts a listing can have
  RequisitionOf, \* the requisition and organization a listing names, or Unknown
  Unknown,       \* no requisition
  Leads,         \* identities of discovery leads
  Opportunities, \* identities of opportunities
  Nothing,       \* no lead, opportunity, operation or content
  MaxLeads,      \* limit on the leads of one operation (64, and 20 per host)
  MaxWorkspaceLeads, \* limit on the leads of the workspace
  MaxOffers,     \* bound: listings offered, all discoveries together
  MaxRequests    \* bound: requests of the user, all tabs together

ASSUME ConstantsAssumption ==
  /\ Tabs \cap Discoveries = {}
  /\ Paused \subseteq Criteria
  /\ DOMAIN RequisitionOf = Urls
  /\ Nothing \notin Leads \cup Opportunities \cup Discoveries \cup Contents \cup Criteria
  /\ "user" \notin Leads \cup {Nothing}
  /\ MaxLeads \in Nat /\ MaxWorkspaceLeads \in Nat
  /\ MaxOffers \in Nat /\ MaxRequests \in Nat

VARIABLES
  search,      \* the saved search: its revision, its criteria, and the revision
               \* whose criteria its author had edited
  discovery,   \* the operations of job discovery
  lead,        \* the table of leads; decidedOn is the content the user was shown
  opportunity, \* the table of opportunities
  tracked,     \* how many applications an opportunity has
  view,        \* the snapshot a tab shows
  draft,       \* the search editor of a tab
  call,        \* the request of a tab or a discovery, as its handler
  spent        \* how many listings were offered and requests made

tables == <<search, lead, opportunity, tracked>>
pages == <<view, draft>>
vars == <<tables, discovery, pages, call, spent>>

-----------------------------------------------------------------------------
States == {"absent", "new", "shortlisted", "dismissed"}
Searches == [revision : Nat, criteria : Criteria \cup {Nothing}, from : Nat]
Rows == [revision : Nat, state : States, url : Urls \cup {Nothing},
         content : Contents \cup {Nothing}, operation : Discoveries \cup {Nothing},
         opportunity : Opportunities \cup {Nothing}, decidedOn : Contents \cup {Nothing}]
Saved == [url : Urls \cup {Nothing}, content : Contents \cup {Nothing},
          from : Leads \cup {"user", Nothing}]
Calls == [step : {"free", "sent", "checked", "read"},
          kind : {"save", "record", "triage", "capture", "track"},
          lead : Leads \cup {Nothing}, revision : Nat,
          criteria : Criteria \cup {Nothing}, url : Urls \cup {Nothing},
          content : Contents \cup {Nothing}, decision : States,
          opportunity : Opportunities \cup {Nothing}]

NoLead == [revision |-> 0, state |-> "absent", url |-> Nothing, content |-> Nothing,
           operation |-> Nothing, opportunity |-> Nothing, decidedOn |-> Nothing]
NoOpportunity == [url |-> Nothing, content |-> Nothing, from |-> Nothing]
NoCall == [step |-> "free", kind |-> "save", lead |-> Nothing, revision |-> 0,
           criteria |-> Nothing, url |-> Nothing, content |-> Nothing, decision |-> "absent",
           opportunity |-> Nothing]

\* What a tab is told of a lead.
Shown(row) == [revision |-> row.revision, state |-> row.state, content |-> row.content]

\* Existing rows of the tables.
Listed == {l \in Leads : lead[l].state # "absent"}
Kept == {o \in Opportunities : opportunity[o].from # Nothing}
Fresh(all, used) == CHOOSE x \in all : x \notin used

\* There may be a saved search of an earlier session.
Init ==
  /\ search \in {[revision |-> 0, criteria |-> Nothing, from |-> 0]} \cup
                [revision : {1}, criteria : Criteria \ Paused, from : {0}]
  /\ discovery = [d \in Discoveries |-> [state |-> "absent", revision |-> 0]]
  /\ lead = [l \in Leads |-> NoLead]
  /\ opportunity = [o \in Opportunities |-> NoOpportunity]
  /\ tracked = [o \in Opportunities |-> 0]
  /\ view = [t \in Tabs |-> [search |-> search.revision, lead |-> [l \in Leads |-> Shown(NoLead)]]]
  /\ draft = [t \in Tabs |-> [criteria |-> Nothing, from |-> 0]]
  /\ call = [c \in Tabs \cup Discoveries |-> NoCall]
  /\ spent = [offers |-> 0, requests |-> 0]

Ask(c, what, request) ==
  /\ call[c].step = "free"
  /\ call' = [call EXCEPT ![c] = request]
  /\ spent' = [spent EXCEPT ![what] = @ + 1]
\* The handler goes on to the next step, or refuses the request.
Pass(c, step) == call' = [call EXCEPT ![c].step = step]
Refuse(c) == call' = [call EXCEPT ![c] = NoCall]
\* A commit ends the handler, whether it is accepted or not.
Commit(c, kind) ==
  /\ call[c].step = "read" /\ call[c].kind = kind
  /\ Refuse(c)

-----------------------------------------------------------------------------
\* The tabs.

\* A snapshot arrives.  Its lists were read one by one, the search and the
\* leads among them: each part is as new as the moment it was read.  (One that
\* comes when no further request is to be made changes nothing.)
SeeSearch(t) ==
  /\ view[t].search # search.revision /\ spent.requests < MaxRequests
  /\ view' = [view EXCEPT ![t].search = search.revision]
  /\ UNCHANGED <<tables, discovery, draft, call, spent>>
SeeInbox(t) ==
  LET shown == [l \in Leads |-> Shown(lead[l])] IN
  /\ view[t].lead # shown /\ spent.requests < MaxRequests
  /\ view' = [view EXCEPT ![t].lead = shown]
  /\ UNCHANGED <<tables, discovery, draft, call, spent>>

\* The page is opened: its editor takes the criteria of the snapshot, once,
\* and later holds those it saved itself.  What the user then types is one
\* step with it.
EditSearch(t) ==
  /\ draft[t].criteria = Nothing /\ spent.requests < MaxRequests
  /\ \E k \in Criteria : draft' = [draft EXCEPT ![t] =
       [criteria |-> k, from |-> IF draft[t].from > 0 THEN draft[t].from ELSE view[t].search]]
  /\ UNCHANGED <<tables, discovery, view, call, spent>>

\* The save names the revision of the latest snapshot, whatever the editor
\* was filled from.
SaveSearch(t) ==
  /\ draft[t].criteria # Nothing /\ spent.requests < MaxRequests
  /\ Ask(t, "requests", [NoCall EXCEPT !.step = "sent", !.kind = "save",
                        !.criteria = draft[t].criteria, !.revision = view[t].search])
  /\ UNCHANGED <<tables, discovery, pages>>

\* Save, Pass and Move to New, on the lead as it is shown.
Triage(t, l, decision) ==
  LET shown == view[t].lead[l] IN
  /\ spent.requests < MaxRequests
  /\ \/ shown.state = "new" /\ decision \in {"shortlisted", "dismissed"}
     \/ shown.state = "dismissed" /\ decision = "new"
  /\ Ask(t, "requests", [NoCall EXCEPT !.step = "sent", !.kind = "triage", !.lead = l,
                            !.revision = shown.revision, !.content = shown.content,
                            !.decision = decision])
  /\ UNCHANGED <<tables, discovery, pages>>

\* A posting is pasted: its source is saved, which nothing refuses, and the
\* opportunity is asked for.
Capture(t, u) ==
  /\ spent.requests < MaxRequests
  /\ Ask(t, "requests", [NoCall EXCEPT !.step = "sent", !.kind = "capture", !.url = u])
  /\ UNCHANGED <<tables, discovery, pages>>

\* The pipeline offers the opportunities that have no application in its
\* snapshot; every opportunity was one of them when it was saved.
Track(t, o) ==
  /\ spent.requests < MaxRequests
  /\ o \in Kept
  /\ Ask(t, "requests", [NoCall EXCEPT !.step = "sent", !.kind = "track", !.opportunity = o])
  /\ UNCHANGED <<tables, discovery, pages>>

-----------------------------------------------------------------------------
\* Discoveries.

\* The operation is bound to the search as it is when it is admitted.
StartDiscovery(d) ==
  /\ discovery[d].state = "absent" /\ spent.offers < MaxOffers
  /\ search.revision > 0 /\ search.criteria \notin Paused
  /\ discovery' = [discovery EXCEPT ![d].state = "running", ![d].revision = search.revision]
  /\ UNCHANGED <<tables, pages, call, spent>>

\* It is settled, or the user asks for its end, whatever its calls are doing:
\* either way it takes no further lead, so that an end without a call under
\* way is as good as an operation that makes no further call.
EndDiscovery(d) ==
  /\ discovery[d].state = "running" /\ call[d].step = "sent"
  /\ discovery' = [discovery EXCEPT ![d].state = "over"]
  /\ UNCHANGED <<tables, pages, call, spent>>

Offer(d, u, text) ==
  /\ discovery[d].state = "running" /\ spent.offers < MaxOffers
  /\ Ask(d, "offers", [NoCall EXCEPT !.step = "sent", !.kind = "record", !.url = u,
                                     !.content = text])
  /\ UNCHANGED <<tables, discovery, pages>>

-----------------------------------------------------------------------------
\* recordDiscoveryLead.

\* The operation runs, and the search is still the one it was admitted for.
CheckDiscovery(d) ==
  /\ call[d].step = "sent"
  /\ IF /\ discovery[d].state = "running"
        /\ search.criteria \notin Paused /\ search.revision = discovery[d].revision
       THEN Pass(d, "checked")
       ELSE Refuse(d)
  /\ UNCHANGED <<tables, discovery, pages, spent>>

\* A known listing is taken again when it has changed, in a later run, and
\* unless the user has shortlisted it.
Rediscoverable(d, l) ==
  /\ lead[l].content # call[d].content
  /\ lead[l].state # "shortlisted"
  /\ lead[l].operation # d

\* The leads are listed: a known one, and the limits.
ReadLeads(d) ==
  LET known == {l \in Listed : lead[l].url = call[d].url}
      own == {l \in Listed \ known : lead[l].operation = d} IN
  /\ call[d].step = "checked"
  /\ IF /\ \A l \in known : Rediscoverable(d, l)
        /\ Cardinality(own) < MaxLeads
        /\ Cardinality(Listed) < MaxWorkspaceLeads \/ known # {}
       THEN call' = IF known = {}
              THEN [call EXCEPT ![d].step = "read"]
              ELSE LET l == CHOOSE l \in known : TRUE IN
                   [call EXCEPT ![d].step = "read", ![d].lead = l, ![d].revision = lead[l].revision]
       ELSE Refuse(d)
  /\ UNCHANGED <<tables, discovery, pages, spent>>

\* The row of the lead, new or again in the inbox.
Recorded(d, l) ==
  [NoLead EXCEPT !.revision = lead[l].revision + 1, !.state = "new", !.url = call[d].url,
                 !.content = call[d].content, !.operation = d]

\* The unique index on the address refuses a second lead, the revision a lead
\* that has changed.
CommitLead(d) ==
  LET c == call[d] IN
  /\ Commit(d, "record")
  /\ IF c.lead = Nothing
       THEN IF Listed = Leads \/ \E l \in Listed : lead[l].url = c.url THEN UNCHANGED lead
            ELSE LET l == Fresh(Leads, Listed) IN lead' = [lead EXCEPT ![l] = Recorded(d, l)]
       ELSE IF lead[c.lead].revision # c.revision THEN UNCHANGED lead
            ELSE lead' = [lead EXCEPT ![c.lead] = Recorded(d, c.lead)]
  /\ UNCHANGED <<search, opportunity, tracked, discovery, pages, spent>>

-----------------------------------------------------------------------------
\* triageDiscoveryLead.

\* Fault: the expected revision is not compared.
TriageableAny(t) ==
  LET c == call[t] IN
  lead[c.lead].state = (IF c.decision = "new" THEN "dismissed" ELSE "new")
Triageable(t) ==
  LET c == call[t] IN
  /\ lead[c.lead].revision = c.revision
  /\ lead[c.lead].state = (IF c.decision = "new" THEN "dismissed" ELSE "new")

\* An opportunity that is the same position, by requisition or by address.
SamePosition(l, o) ==
  \/ /\ RequisitionOf[lead[l].url] # Unknown
     /\ RequisitionOf[opportunity[o].url] = RequisitionOf[lead[l].url]
  \/ opportunity[o].url = lead[l].url

\* The lead is checked and, to shortlist it, an opportunity looked for.
ReadTriage(t) ==
  LET c == call[t]
      same == {o \in Kept : SamePosition(c.lead, o)} IN
  /\ c.step = "sent" /\ c.kind = "triage"
  /\ IF Triageable(t)
       THEN \E o \in IF c.decision = "shortlisted" /\ same # {} THEN same ELSE {Nothing} :
              call' = [call EXCEPT ![t].step = "read", ![t].opportunity = o,
                                   ![t].revision = lead[c.lead].revision]
       ELSE Refuse(t)
  /\ UNCHANGED <<tables, discovery, pages, spent>>

\* Fault: the lead names only an opportunity that was made for it.
DecidedForgetful(t, o) ==
  [lead[call[t].lead] EXCEPT !.revision = @ + 1, !.state = call[t].decision,
                             !.opportunity = IF o \in Kept THEN Nothing ELSE o,
                             !.decidedOn = call[t].content]
Decided(t, o) ==
  [lead[call[t].lead] EXCEPT !.revision = @ + 1, !.state = call[t].decision, !.opportunity = o,
                             !.decidedOn = call[t].content]

\* Fault: the commit does not compare the revision of the lead.
CommitTriageBlind(t) ==
  LET c == call[t] IN
  /\ Commit(t, "triage")
  /\ IF c.decision = "shortlisted" /\ c.opportunity = Nothing
       THEN IF Kept = Opportunities THEN UNCHANGED <<lead, opportunity>>
            ELSE LET o == Fresh(Opportunities, Kept) IN
                 /\ lead' = [lead EXCEPT ![c.lead] = Decided(t, o)]
                 /\ opportunity' = [opportunity EXCEPT ![o] =
                      [url |-> lead[c.lead].url, content |-> lead[c.lead].content, from |-> c.lead]]
       ELSE /\ lead' = [lead EXCEPT ![c.lead] = Decided(t, c.opportunity)]
            /\ UNCHANGED opportunity
  /\ UNCHANGED <<search, tracked, discovery, pages, spent>>

\* One transaction updates the lead and inserts the opportunity.
CommitTriage(t) ==
  LET c == call[t] IN
  /\ Commit(t, "triage")
  /\ IF lead[c.lead].revision # c.revision THEN UNCHANGED <<lead, opportunity>>
     ELSE IF c.decision = "shortlisted" /\ c.opportunity = Nothing
       THEN IF Kept = Opportunities THEN UNCHANGED <<lead, opportunity>>
            ELSE LET o == Fresh(Opportunities, Kept) IN
                 /\ lead' = [lead EXCEPT ![c.lead] = Decided(t, o)]
                 /\ opportunity' = [opportunity EXCEPT ![o] =
                      [url |-> lead[c.lead].url, content |-> lead[c.lead].content, from |-> c.lead]]
       ELSE /\ lead' = [lead EXCEPT ![c.lead] = Decided(t, c.opportunity)]
            /\ UNCHANGED opportunity
  /\ UNCHANGED <<search, tracked, discovery, pages, spent>>

-----------------------------------------------------------------------------
\* upsertSearchProfile.

ReadSearch(t) ==
  /\ call[t].step = "sent" /\ call[t].kind = "save"
  /\ IF call[t].revision = search.revision THEN Pass(t, "read") ELSE Refuse(t)
  /\ UNCHANGED <<tables, discovery, pages, spent>>

\* A first search is inserted under a unique index, a later one compared.
CommitSearch(t) ==
  /\ Commit(t, "save")
  /\ IF search.revision # call[t].revision THEN UNCHANGED <<search, draft>>
     ELSE /\ search' = [revision |-> search.revision + 1, criteria |-> call[t].criteria,
                        from |-> draft[t].from]
          /\ draft' = [draft EXCEPT ![t] = [criteria |-> Nothing, from |-> search'.revision]]
  /\ UNCHANGED <<lead, opportunity, tracked, discovery, view, spent>>

-----------------------------------------------------------------------------
\* captureOpportunity and createApplication: both look for a duplicate at the
\* read, and nothing looks for one at the commit.

ReadCapture(t) ==
  LET job == RequisitionOf[call[t].url] IN
  /\ call[t].step = "sent" /\ call[t].kind = "capture"
  /\ IF job # Unknown /\ \E o \in Kept : RequisitionOf[opportunity[o].url] = job
       THEN Refuse(t)
       ELSE Pass(t, "read")
  /\ UNCHANGED <<tables, discovery, pages, spent>>

CommitCapture(t) ==
  /\ Commit(t, "capture")
  /\ IF Kept = Opportunities THEN UNCHANGED opportunity
     ELSE opportunity' = [opportunity EXCEPT ![Fresh(Opportunities, Kept)] =
            [url |-> call[t].url, content |-> Nothing, from |-> "user"]]
  /\ UNCHANGED <<search, lead, tracked, discovery, pages, spent>>

ReadTrack(t) ==
  /\ call[t].step = "sent" /\ call[t].kind = "track"
  /\ IF tracked[call[t].opportunity] > 0 THEN Refuse(t) ELSE Pass(t, "read")
  /\ UNCHANGED <<tables, discovery, pages, spent>>

CommitTrack(t) ==
  /\ Commit(t, "track")
  /\ tracked' = [tracked EXCEPT ![call[t].opportunity] = @ + 1]
  /\ UNCHANGED <<search, lead, opportunity, discovery, pages, spent>>

-----------------------------------------------------------------------------
TabStep(t) ==
  \/ SeeSearch(t) \/ SeeInbox(t) \/ EditSearch(t) \/ SaveSearch(t)
  \/ \E l \in Leads, decision \in States : Triage(t, l, decision)
  \/ \E u \in Urls : Capture(t, u)
  \/ \E o \in Opportunities : Track(t, o)
  \/ ReadSearch(t) \/ CommitSearch(t)
  \/ ReadTriage(t) \/ CommitTriage(t)
  \/ ReadCapture(t) \/ CommitCapture(t)
  \/ ReadTrack(t) \/ CommitTrack(t)

DiscoveryStep(d) ==
  \/ StartDiscovery(d) \/ EndDiscovery(d)
  \/ \E u \in Urls, text \in Contents : Offer(d, u, text)
  \/ CheckDiscovery(d) \/ ReadLeads(d) \/ CommitLead(d)

Next == (\E t \in Tabs : TabStep(t)) \/ (\E d \in Discoveries : DiscoveryStep(d))

Spec == Init /\ [][Next]_vars

-----------------------------------------------------------------------------
\* Properties.

\* The tables hold rows; a lead names its operation, and an opportunity exactly
\* when it is shortlisted.
TypeOK ==
  /\ search \in Searches
  /\ lead \in [Leads -> Rows]
  /\ \A l \in Listed : /\ lead[l].operation # Nothing
                       /\ lead[l].state = "shortlisted" <=> lead[l].opportunity # Nothing
  /\ opportunity \in [Opportunities -> Saved]
  /\ tracked \in [Opportunities -> Nat]
  /\ call \in [Tabs \cup Discoveries -> Calls]

\* A listing is saved or passed on for the text the user was shown, never for
\* one that a discovery has put in its place meanwhile.
DecisionIsOnSeenContent ==
  \A l \in Leads : lead[l].state \in {"shortlisted", "dismissed"} =>
    lead[l].decidedOn = lead[l].content

\* Saving a lead makes at most one opportunity, which holds the text that was
\* saved, although several tabs decide on it.
OneOpportunityPerLead ==
  \A l \in Leads :
    /\ Cardinality({o \in Kept : opportunity[o].from = l}) <= 1
    /\ lead[l].state = "shortlisted" => lead[l].opportunity \in Kept
    /\ \A o \in Kept : opportunity[o].from = l => opportunity[o].content = lead[l].content

\* "A stale expected revision fails ... rather than overwriting newer state"
\* (SPEC.md:361): a save keeps what others saved after its author began to
\* edit.  The page fills its editor once and sends the latest revision.
SavesKeepNewerCriteria == search.revision > 1 => search.from = search.revision - 1

\* "This opportunity already has an application pipeline record": an
\* opportunity is tracked once.  Two handlers look before either commits.
TrackedOnce == \A o \in Opportunities : tracked[o] <= 1
===============================================================================
