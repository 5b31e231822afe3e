------------------------------- MODULE PageProofs -------------------------------
(***************************************************************************)
(* What a page shows may be old, and the user decides on it all the same:   *)
(* theorems for every value of the constants about the modules of the web   *)
(* client's pages, one part for each.                                       *)
(*                                                                         *)
(* Inbox: a decision is on the text the user was shown, and a lead becomes  *)
(* one opportunity at most.  Who changes a lead raises its revision, so     *)
(* that a page or a handler that still names the revision of a lead knows   *)
(* its state and its text, and a shortlisted lead stays one.                *)
(*                                                                         *)
(* Career: what is verified was reviewed, and what counts as complete is    *)
(* decided.  A row keeps its author and is not changed without being        *)
(* raised, so that a fact is known by any row of it that a page still       *)
(* shows; a request is about a row that the user was shown.                 *)
(*                                                                         *)
(* Activity: the page receives the events in order, none twice and none     *)
(* left out.  What is on the wire continues what the page has received      *)
(* last, and at most one poll continues what is on the wire.                *)
(***************************************************************************)
EXTENDS Inbox, Career, Activity, FiniteSetTheorems, WellFoundedInduction, TLAPS

-----------------------------------------------------------------------------
(***************************************************************************)
(* The review inbox.                                                        *)
(***************************************************************************)

PagesOK ==
  /\ view \in [Tabs -> [search : Nat,
                        lead : [Leads -> [revision : Nat, state : States,
                                          content : Contents \cup {Nothing}]]]]
  /\ draft \in [Tabs -> [criteria : Criteria \cup {Nothing}, from : Nat]]

\* Who names the revision of a lead knows the lead.
ViewInv ==
  \A t \in Tabs, l \in Leads :
    /\ view[t].lead[l].revision <= lead[l].revision
    /\ view[t].lead[l].revision = lead[l].revision => view[t].lead[l] = Shown(lead[l])

Open == {"new", "dismissed"}

\* What a handler of a tab, and one of a discovery, knows of its lead.
TabCall(c) ==
  /\ c.kind # "record"
  /\ c.step # "free" /\ c.kind = "triage" =>
       /\ c.lead \in Leads /\ c.decision # "absent"
       /\ c.revision <= lead[c.lead].revision
       /\ c.revision = lead[c.lead].revision => lead[c.lead].content = c.content
  /\ c.step = "read" /\ c.kind = "triage" =>
       /\ c.revision = lead[c.lead].revision => lead[c.lead].state \in Open
       /\ c.opportunity # Nothing => c.opportunity \in Kept /\ c.decision = "shortlisted"

DiscoveryCall(c) ==
  /\ c.step # "free" => c.kind = "record"
  /\ c.step # "read" => c.lead = Nothing
  /\ c.step = "read" /\ c.lead # Nothing =>
       /\ c.revision <= lead[c.lead].revision
       /\ c.revision = lead[c.lead].revision => lead[c.lead].state \in Open

TabInv == \A t \in Tabs : TabCall(call[t])
DiscoveryInv == \A d \in Discoveries : DiscoveryCall(call[d])

\* An opportunity that was made from a lead is the lead's alone, and the lead is
\* shortlisted with its text.
FromInv ==
  /\ \A o \in Opportunities : opportunity[o].from \in Leads =>
       /\ lead[opportunity[o].from].state = "shortlisted"
       /\ opportunity[o].content = lead[opportunity[o].from].content
  /\ \A o, p \in Opportunities :
       opportunity[o].from \in Leads /\ opportunity[o].from = opportunity[p].from => o = p
  /\ \A l \in Leads : lead[l].state = "shortlisted" => lead[l].opportunity \in Kept

IInv ==
  /\ TypeOK /\ PagesOK
  /\ ViewInv /\ TabInv /\ DiscoveryInv
  /\ FromInv /\ DecisionIsOnSeenContent

-----------------------------------------------------------------------------
\* A fresh identity is none of those in use.
LEMMA FreshIsFree ==
  ASSUME NEW all, NEW used, used \subseteq all, used # all
  PROVE  Fresh(all, used) \in all \ used
BY DEF Fresh

LEMMA Typed ==
  ASSUME TypeOK
  PROVE  /\ lead \in [Leads -> Rows] /\ opportunity \in [Opportunities -> Saved]
         /\ call \in [Tabs \cup Discoveries -> Calls] /\ search \in Searches
         /\ Listed \subseteq Leads /\ Kept \subseteq Opportunities
BY DEF TypeOK, Listed, Kept

LEMMA RowOf ==
  ASSUME NEW rev \in Nat, NEW state \in States, NEW url \in Urls \cup {Nothing},
         NEW text \in Contents \cup {Nothing}, NEW op \in Discoveries \cup {Nothing},
         NEW o \in Opportunities \cup {Nothing}, NEW seen \in Contents \cup {Nothing}
  PROVE  [revision |-> rev, state |-> state, url |-> url, content |-> text, operation |-> op,
          opportunity |-> o, decidedOn |-> seen] \in Rows
BY DEF Rows

LEMMA RecordedRow ==
  ASSUME TypeOK, NEW d \in Discoveries, NEW l \in Leads
  PROVE  /\ Recorded(d, l) \in Rows
         /\ Recorded(d, l).revision = lead[l].revision + 1
         /\ Recorded(d, l).state = "new" /\ Recorded(d, l).operation = d
         /\ Recorded(d, l).opportunity = Nothing
<1>1. call[d] \in Calls /\ lead[l].revision \in Nat
  BY DEF TypeOK, Rows
<1>2. call[d].url \in Urls \cup {Nothing} /\ call[d].content \in Contents \cup {Nothing}
  BY <1>1 DEF Calls
<1>3. Recorded(d, l) = [revision |-> lead[l].revision + 1, state |-> "new", url |-> call[d].url,
                        content |-> call[d].content, operation |-> d, opportunity |-> Nothing,
                        decidedOn |-> Nothing]
  <2> DEFINE rev == lead[l].revision + 1
             text == call[d].content
             url == call[d].url
  <2>1. Recorded(d, l) = [NoLead EXCEPT !.revision = rev, !.state = "new", !.url = url,
                                        !.content = text, !.operation = d]
    BY DEF Recorded
  <2> HIDE DEF rev, text, url
  <2>2. Recorded(d, l) = [revision |-> rev, state |-> "new", url |-> url, content |-> text,
                          operation |-> d, opportunity |-> Nothing, decidedOn |-> Nothing]
    BY <2>1 DEF NoLead
  <2>3. QED
    BY <2>2 DEF rev, text, url
<1>4. /\ lead[l].revision + 1 \in Nat /\ "new" \in States
      /\ Nothing \in Contents \cup {Nothing} /\ Nothing \in Opportunities \cup {Nothing}
      /\ d \in Discoveries \cup {Nothing}
  BY <1>1 DEF States
<1>5. Recorded(d, l) \in Rows
  <2>1. [revision |-> lead[l].revision + 1, state |-> "new", url |-> call[d].url,
         content |-> call[d].content, operation |-> d, opportunity |-> Nothing,
         decidedOn |-> Nothing] \in Rows
    BY <1>2, <1>4, RowOf
  <2>2. QED
    BY <1>3, <2>1, Zenon
<1>6. QED
  BY <1>3, <1>5

LEMMA DecidedRow ==
  ASSUME TypeOK, NEW t \in Tabs, call[t].lead \in Leads, NEW o \in Opportunities \cup {Nothing}
  PROVE  /\ Decided(t, o) \in Rows
         /\ Decided(t, o).revision = lead[call[t].lead].revision + 1
         /\ Decided(t, o).state = call[t].decision /\ Decided(t, o).opportunity = o
         /\ Decided(t, o).decidedOn = call[t].content
         /\ Decided(t, o).content = lead[call[t].lead].content
         /\ Decided(t, o).operation = lead[call[t].lead].operation
<1> DEFINE row == lead[call[t].lead]
<1>1. call[t] \in Calls /\ row \in Rows
  BY DEF TypeOK
<1>2. call[t].decision \in States /\ call[t].content \in Contents \cup {Nothing}
  BY <1>1 DEF Calls
<1>3. Decided(t, o) = [row EXCEPT !.revision = @ + 1, !.state = call[t].decision,
                                  !.opportunity = o, !.decidedOn = call[t].content]
  BY DEF Decided
<1>4. /\ row.revision \in Nat /\ row.url \in Urls \cup {Nothing}
      /\ row.content \in Contents \cup {Nothing} /\ row.operation \in Discoveries \cup {Nothing}
      /\ row = [revision |-> row.revision, state |-> row.state, url |-> row.url,
                content |-> row.content, operation |-> row.operation,
                opportunity |-> row.opportunity, decidedOn |-> row.decidedOn]
  <2> HIDE DEF row
  <2>1. QED
    BY <1>1 DEF Rows
<1>5. Decided(t, o) = [revision |-> row.revision + 1, state |-> call[t].decision, url |-> row.url,
                       content |-> row.content, operation |-> row.operation,
                       opportunity |-> o, decidedOn |-> call[t].content]
  <2> HIDE DEF row
  <2>1. QED
    BY <1>1, <1>3 DEF Rows
<1>6. row.revision + 1 \in Nat
  BY <1>4
<1>7. Decided(t, o) \in Rows
  <2> HIDE DEF row
  <2>1. [revision |-> row.revision + 1, state |-> call[t].decision, url |-> row.url,
         content |-> row.content, operation |-> row.operation,
         opportunity |-> o, decidedOn |-> call[t].content] \in Rows
    BY <1>2, <1>4, <1>6, RowOf, ZenonT(60)
  <2>2. QED
    BY <1>5, <2>1, Zenon
<1>8. QED
  BY <1>5, <1>7

\* What recordDiscoveryLead writes: a lead that is new, or open again.
LEMMA LeadRecorded ==
  ASSUME IInv, NEW d \in Discoveries, CommitLead(d)
  PROVE  \/ lead' = lead
         \/ \E l \in Leads : /\ lead[l].state # "shortlisted"
                             /\ lead' = [lead EXCEPT ![l] = Recorded(d, l)]
<1>t. TypeOK /\ DiscoveryInv
  BY DEF IInv
<1>1. CASE call[d].lead = Nothing /\ Listed # Leads
  <2>1. Fresh(Leads, Listed) \in Leads \ Listed
    BY <1>1, <1>t, FreshIsFree, Typed
  <2>2. lead[Fresh(Leads, Listed)].state = "absent"
    BY <2>1 DEF Listed
  <2>3. QED
    BY <1>1, <2>1, <2>2 DEF CommitLead
<1>2. CASE call[d].lead # Nothing /\ lead[call[d].lead].revision = call[d].revision
  <2>1. call[d].step = "read"
    BY DEF CommitLead, Commit
  <2>2. call[d].lead \in Leads
    BY <1>2, <1>t DEF TypeOK, Calls
  <2>3. lead[call[d].lead].state \in Open
    BY <1>2, <2>1, <1>t DEF DiscoveryInv, DiscoveryCall
  <2>4. QED
    BY <1>2, <2>2, <2>3 DEF CommitLead, Open
<1>3. QED
  BY <1>1, <1>2 DEF CommitLead

\* What triageDiscoveryLead writes: a lead that is open as the user saw it, and
\* the opportunity it names.
LEMMA LeadDecided ==
  ASSUME IInv, NEW t \in Tabs, CommitTriage(t)
  PROVE  \/ UNCHANGED <<lead, opportunity>>
         \/ /\ call[t].lead \in Leads /\ call[t].decision \in States \ {"absent"}
            /\ lead[call[t].lead].state \in Open
            /\ lead[call[t].lead].content = call[t].content
            /\ \E o \in Opportunities \cup {Nothing} :
                 /\ lead' = [lead EXCEPT ![call[t].lead] = Decided(t, o)]
                 /\ call[t].decision = "shortlisted" <=> o # Nothing
                 /\ \/ (o # Nothing => o \in Kept) /\ UNCHANGED opportunity
                    \/ /\ o \in Opportunities \ Kept
                       /\ opportunity' = [opportunity EXCEPT ![o] =
                            [url |-> lead[call[t].lead].url,
                             content |-> lead[call[t].lead].content, from |-> call[t].lead]]
<1> DEFINE c == call[t]
<1>t. TypeOK /\ TabInv
  BY DEF IInv
<1>0. SUFFICES ASSUME lead[c.lead].revision = c.revision,
                      ~UNCHANGED <<lead, opportunity>>
               PROVE  /\ c.lead \in Leads /\ c.decision \in States \ {"absent"}
                      /\ lead[c.lead].state \in Open
                      /\ lead[c.lead].content = c.content
                      /\ \E o \in Opportunities \cup {Nothing} :
                           /\ lead' = [lead EXCEPT ![c.lead] = Decided(t, o)]
                           /\ c.decision = "shortlisted" <=> o # Nothing
                           /\ \/ (o # Nothing => o \in Kept) /\ UNCHANGED opportunity
                              \/ /\ o \in Opportunities \ Kept
                                 /\ opportunity' = [opportunity EXCEPT ![o] =
                                      [url |-> lead[c.lead].url,
                                       content |-> lead[c.lead].content, from |-> c.lead]]
  BY DEF CommitTriage
<1>1. c.step = "read" /\ c.kind = "triage" /\ c \in Calls
  BY <1>t DEF CommitTriage, Commit, TypeOK
<1>2. /\ c.lead \in Leads /\ c.decision \in States \ {"absent"}
      /\ lead[c.lead].state \in Open
      /\ lead[c.lead].content = c.content
      /\ c.opportunity # Nothing => c.opportunity \in Kept /\ c.decision = "shortlisted"
  <2>1. c.decision \in States
    BY <1>1 DEF Calls
  <2>2. QED
    BY <1>0, <1>1, <2>1, <1>t DEF TabInv, TabCall
<1>3. CASE c.decision = "shortlisted" /\ c.opportunity = Nothing
  <2> DEFINE o == Fresh(Opportunities, Kept)
  <2>1. /\ Kept # Opportunities
        /\ lead' = [lead EXCEPT ![c.lead] = Decided(t, o)]
        /\ opportunity' = [opportunity EXCEPT ![o] =
             [url |-> lead[c.lead].url, content |-> lead[c.lead].content, from |-> c.lead]]
    BY <1>0, <1>3 DEF CommitTriage
  <2>2. o \in Opportunities \ Kept /\ o # Nothing
    BY <1>t, <2>1, FreshIsFree, Typed, ConstantsAssumption
  <2> HIDE DEF o
  <2>3. QED
    BY <1>2, <1>3, <2>1, <2>2
<1>4. CASE ~(c.decision = "shortlisted" /\ c.opportunity = Nothing)
  <2>1. lead' = [lead EXCEPT ![c.lead] = Decided(t, c.opportunity)] /\ UNCHANGED opportunity
    BY <1>0, <1>4 DEF CommitTriage
  <2>2. c.opportunity \in Opportunities \cup {Nothing}
    BY <1>1 DEF Calls
  <2>3. QED
    BY <1>2, <1>4, <2>1, <2>2
<1>5. QED
  BY <1>3, <1>4

-----------------------------------------------------------------------------
\* What a step may do to the two tables: it changes nothing, or one lead that is
\* not shortlisted, perhaps with a new opportunity of its own, or adds an
\* opportunity the user pasted.
Opens(l, row) ==
  /\ lead[l].state # "shortlisted"
  /\ row.revision = lead[l].revision + 1
  /\ row.state # "absent" /\ row.operation # Nothing
  /\ row.state = "shortlisted" <=> row.opportunity # Nothing
  /\ row.state \in {"shortlisted", "dismissed"} => row.decidedOn = row.content

Adds(o, posting) ==
  /\ o \in Opportunities \ Kept /\ posting \in Saved /\ posting.from # Nothing
  /\ opportunity' = [opportunity EXCEPT ![o] = posting]

LeadWritten(l, row) ==
  /\ Opens(l, row)
  /\ lead' = [lead EXCEPT ![l] = row]
  /\ \/ opportunity' = opportunity /\ (row.opportunity # Nothing => row.opportunity \in Kept)
     \/ /\ row.opportunity # Nothing
        /\ \E posting \in Saved : /\ posting.from = l /\ posting.content = row.content
                                  /\ Adds(row.opportunity, posting)

Pasted ==
  /\ lead' = lead
  /\ \E o \in Opportunities, posting \in Saved : posting.from = "user" /\ Adds(o, posting)

LEMMA RecordWrites ==
  ASSUME IInv, NEW d \in Discoveries, CommitLead(d)
  PROVE  lead' = lead \/ \E l \in Leads, row \in Rows : LeadWritten(l, row)
<1>t. TypeOK
  BY DEF IInv
<1>1. opportunity' = opportunity
  BY DEF CommitLead
<1>2. SUFFICES ASSUME NEW l \in Leads, lead[l].state # "shortlisted",
                      lead' = [lead EXCEPT ![l] = Recorded(d, l)]
               PROVE  LeadWritten(l, Recorded(d, l)) /\ Recorded(d, l) \in Rows
  BY LeadRecorded
<1>3. d # Nothing
  BY ConstantsAssumption
<1>4. Opens(l, Recorded(d, l)) /\ Recorded(d, l) \in Rows /\ Recorded(d, l).opportunity = Nothing
  BY <1>t, <1>2, <1>3, RecordedRow DEF Opens
<1>5. QED
  BY <1>1, <1>2, <1>4 DEF LeadWritten

LEMMA TriageWrites ==
  ASSUME IInv, NEW t \in Tabs, CommitTriage(t)
  PROVE  UNCHANGED <<lead, opportunity>> \/ \E l \in Leads, row \in Rows : LeadWritten(l, row)
<1> DEFINE l == call[t].lead
<1>t. TypeOK
  BY DEF IInv
<1>0. SUFFICES ASSUME l \in Leads, call[t].decision \in States \ {"absent"},
                      lead[l].state \in Open, lead[l].content = call[t].content,
                      NEW o \in Opportunities \cup {Nothing},
                      lead' = [lead EXCEPT ![l] = Decided(t, o)],
                      call[t].decision = "shortlisted" <=> o # Nothing,
                      \/ (o # Nothing => o \in Kept) /\ UNCHANGED opportunity
                      \/ /\ o \in Opportunities \ Kept
                         /\ opportunity' = [opportunity EXCEPT ![o] =
                              [url |-> lead[l].url, content |-> lead[l].content, from |-> l]]
               PROVE  LeadWritten(l, Decided(t, o)) /\ Decided(t, o) \in Rows
  BY LeadDecided
<1> DEFINE row == Decided(t, o)
<1>1. /\ row \in Rows /\ row.revision = lead[l].revision + 1
      /\ row.state = call[t].decision /\ row.opportunity = o /\ row.decidedOn = call[t].content
      /\ row.content = lead[l].content /\ row.operation = lead[l].operation
  <2>1. call[t].lead \in Leads /\ o \in Opportunities \cup {Nothing} /\ t \in Tabs
    BY <1>0
  <2>2. /\ Decided(t, o) \in Rows
        /\ Decided(t, o).revision = lead[call[t].lead].revision + 1
        /\ Decided(t, o).state = call[t].decision /\ Decided(t, o).opportunity = o
        /\ Decided(t, o).decidedOn = call[t].content
        /\ Decided(t, o).content = lead[call[t].lead].content
        /\ Decided(t, o).operation = lead[call[t].lead].operation
    BY <1>t, <2>1, DecidedRow
  <2>3. QED
    BY <2>2
<1>2. lead[l].operation # Nothing
  BY <1>0, <1>t DEF TypeOK, Listed, Open
<1> HIDE DEF row
<1>3. Opens(l, row)
  BY <1>0, <1>1, <1>2 DEF Opens, Open
<1>4. CASE (o # Nothing => o \in Kept) /\ UNCHANGED opportunity
  <2>1. lead' = [lead EXCEPT ![l] = row] /\ row \in Rows
    BY <1>0, <1>1 DEF row
  <2>2. LeadWritten(l, row)
    BY <1>1, <1>3, <1>4, <2>1 DEF LeadWritten
  <2>3. QED
    BY <2>1, <2>2 DEF row
<1>5. CASE /\ o \in Opportunities \ Kept
           /\ opportunity' = [opportunity EXCEPT ![o] =
                [url |-> lead[l].url, content |-> lead[l].content, from |-> l]]
  <2> DEFINE posting == [url |-> lead[l].url, content |-> lead[l].content, from |-> l]
  <2>1. lead[l] \in Rows
    BY <1>0, Typed, <1>t
  <2>2. posting \in Saved
    BY <1>0, <2>1 DEF Rows, Saved
  <2>3. posting.from = l /\ posting.content = row.content /\ l # Nothing /\ o # Nothing
    BY <1>0, <1>1, <1>5, ConstantsAssumption
  <2>4. opportunity' = [opportunity EXCEPT ![o] = posting]
    BY <1>5
  <2> HIDE DEF posting
  <2>5. Adds(o, posting)
    BY <1>5, <2>2, <2>3, <2>4 DEF Adds
  <2>6. lead' = [lead EXCEPT ![l] = row] /\ row \in Rows
    BY <1>0, <1>1 DEF row
  <2>7. LeadWritten(l, row)
    BY <1>1, <1>3, <2>2, <2>3, <2>5, <2>6 DEF LeadWritten
  <2>8. QED
    BY <2>6, <2>7 DEF row
<1>6. QED
  BY <1>0, <1>4, <1>5

LEMMA CaptureWrites ==
  ASSUME IInv, NEW t \in Tabs, CommitCapture(t)
  PROVE  UNCHANGED <<lead, opportunity>> \/ Pasted
<1>t. TypeOK
  BY DEF IInv
<1>1. lead' = lead
  BY DEF CommitCapture
<1>2. SUFFICES ASSUME Kept # Opportunities PROVE Pasted
  BY <1>1 DEF CommitCapture
<1> DEFINE o == Fresh(Opportunities, Kept)
           posting == [url |-> call[t].url, content |-> Nothing, from |-> "user"]
<1>3. opportunity' = [opportunity EXCEPT ![o] = posting]
  BY <1>2 DEF CommitCapture
<1>4. o \in Opportunities \ Kept
  BY <1>2, <1>t, FreshIsFree, Typed
<1>5. call[t].url \in Urls \cup {Nothing}
  <2>1. call[t] \in Calls
    BY <1>t DEF TypeOK
  <2>2. QED
    BY <2>1 DEF Calls
<1>6. posting \in Saved /\ posting.from = "user" /\ posting.from # Nothing
  BY <1>5, ConstantsAssumption DEF Saved
<1> HIDE DEF o, posting
<1>7. QED
  BY <1>1, <1>3, <1>4, <1>6 DEF Pasted, Adds

LEMMA Written ==
  ASSUME IInv, [Next]_vars
  PROVE  \/ UNCHANGED <<lead, opportunity>>
         \/ \E l \in Leads, row \in Rows : LeadWritten(l, row)
         \/ Pasted
<1>1. CASE UNCHANGED vars
  BY <1>1 DEF vars, tables
<1>2. CASE \E t \in Tabs : TabStep(t)
  <2>1. PICK t \in Tabs : TabStep(t)
    BY <1>2
  <2>2. \/ UNCHANGED <<lead, opportunity>> \/ CommitTriage(t) \/ CommitCapture(t)
    BY <2>1 DEF TabStep, SeeSearch, SeeInbox, EditSearch, SaveSearch, Triage, Capture, Track,
                ReadSearch, CommitSearch, ReadTriage, ReadCapture, ReadTrack, CommitTrack,
                tables
  <2>3. QED
    BY <2>2, TriageWrites, CaptureWrites
<1>3. CASE \E d \in Discoveries : DiscoveryStep(d)
  <2>1. PICK d \in Discoveries : DiscoveryStep(d)
    BY <1>3
  <2>2. UNCHANGED <<lead, opportunity>> \/ CommitLead(d)
    BY <2>1 DEF DiscoveryStep, StartDiscovery, EndDiscovery, Offer, CheckDiscovery, ReadLeads,
                tables
  <2>3. CommitLead(d) => opportunity' = opportunity
    BY DEF CommitLead
  <2>4. QED
    BY <2>2, <2>3, RecordWrites
<1>4. QED
  BY <1>1, <1>2, <1>3 DEF Next

\* Whoever changes a lead raises its revision, and never changes a shortlisted one.
LEMMA LeadAdvances ==
  ASSUME IInv, [Next]_vars, NEW l \in Leads
  PROVE  /\ lead[l] \in Rows /\ lead'[l] \in Rows
         /\ \/ lead'[l] = lead[l]
            \/ Opens(l, lead'[l])
<1>t. TypeOK
  BY DEF IInv
<1>1. lead \in [Leads -> Rows]
  BY <1>t, Typed
<1>2. CASE lead' = lead
  BY <1>1, <1>2
<1>3. CASE \E k \in Leads, row \in Rows : LeadWritten(k, row)
  <2>1. PICK k \in Leads, row \in Rows : LeadWritten(k, row)
    BY <1>3
  <2>2. Opens(k, row) /\ lead' = [lead EXCEPT ![k] = row]
    BY <2>1 DEF LeadWritten
  <2>3. CASE k = l
    BY <1>1, <2>2, <2>3
  <2>4. CASE k # l
    BY <1>1, <2>2, <2>4
  <2>5. QED
    BY <2>3, <2>4
<1>4. QED
  BY <1>2, <1>3, Written DEF Pasted

\* An opportunity that exists stays as it is.
LEMMA OpportunityStays ==
  ASSUME IInv, [Next]_vars
  PROVE  /\ opportunity' \in [Opportunities -> Saved] /\ lead' \in [Leads -> Rows]
         /\ \A o \in Kept : opportunity'[o] = opportunity[o] /\ o \in Kept'
<1>t. TypeOK
  BY DEF IInv
<1>1. /\ opportunity \in [Opportunities -> Saved] /\ lead \in [Leads -> Rows]
      /\ Kept \subseteq Opportunities
  BY <1>t, Typed
<1>2. \/ opportunity' = opportunity
      \/ \E o \in Opportunities, posting \in Saved : Adds(o, posting)
  BY Written DEF LeadWritten, Pasted, Adds
<1>3. lead' = lead \/ \E l \in Leads, row \in Rows : lead' = [lead EXCEPT ![l] = row]
  BY Written DEF LeadWritten, Pasted
<1>4. opportunity' \in [Opportunities -> Saved]
  BY <1>1, <1>2 DEF Adds
<1>5. lead' \in [Leads -> Rows]
  BY <1>1, <1>3
<1>6. ASSUME NEW o \in Kept
      PROVE  opportunity'[o] = opportunity[o]
  BY <1>1, <1>2 DEF Adds
<1>7. QED
  BY <1>1, <1>4, <1>5, <1>6 DEF Kept

-----------------------------------------------------------------------------
\* What a handler or a page knows of a lead survives every step.
LEMMA TabCallKept ==
  ASSUME IInv, [Next]_vars, NEW c \in Calls, TabCall(c)
  PROVE  TabCall(c)'
<1>1. c.kind # "record"
  BY DEF TabCall
<1>2. ASSUME c.step # "free", c.kind = "triage"
      PROVE  /\ c.lead \in Leads /\ c.decision # "absent"
             /\ c.revision <= lead'[c.lead].revision
             /\ c.revision = lead'[c.lead].revision => lead'[c.lead] = lead[c.lead]
  <2>1. /\ c.lead \in Leads /\ c.decision # "absent"
        /\ c.revision <= lead[c.lead].revision
    BY <1>2 DEF TabCall
  <2>2. c.revision \in Nat
    BY DEF Calls
  <2>3. lead[c.lead].revision \in Nat
    BY <2>1, LeadAdvances DEF Rows
  <2>4. CASE lead'[c.lead] = lead[c.lead]
    BY <2>1, <2>4
  <2>5. CASE Opens(c.lead, lead'[c.lead])
    <3>1. lead'[c.lead].revision = lead[c.lead].revision + 1
      BY <2>5 DEF Opens
    <3>2. c.revision < lead'[c.lead].revision
      BY <2>1, <2>2, <2>3, <3>1
    <3>3. QED
      BY <2>1, <2>2, <2>3, <3>1, <3>2
  <2>6. QED
    BY <2>1, <2>4, <2>5, LeadAdvances
<1>3. c.opportunity \in Kept => c.opportunity \in Kept'
  BY OpportunityStays
<1>4. QED
  BY <1>1, <1>2, <1>3 DEF TabCall

LEMMA DiscoveryCallKept ==
  ASSUME IInv, [Next]_vars, NEW c \in Calls, DiscoveryCall(c)
  PROVE  DiscoveryCall(c)'
<1>1. /\ c.step # "free" => c.kind = "record"
      /\ c.step # "read" => c.lead = Nothing
  BY DEF DiscoveryCall
<1>2. ASSUME c.step = "read", c.lead # Nothing
      PROVE  /\ c.revision <= lead'[c.lead].revision
             /\ c.revision = lead'[c.lead].revision => lead'[c.lead].state \in Open
  <2>1. /\ c.revision <= lead[c.lead].revision
        /\ c.revision = lead[c.lead].revision => lead[c.lead].state \in Open
    BY <1>2 DEF DiscoveryCall
  <2>2. c.revision \in Nat
    BY DEF Calls
  <2>l. c.lead \in Leads
    BY <1>2 DEF Calls
  <2>3. lead[c.lead].revision \in Nat
    BY <2>l, LeadAdvances DEF Rows
  <2>4. CASE lead'[c.lead] = lead[c.lead]
    BY <2>1, <2>4
  <2>5. CASE Opens(c.lead, lead'[c.lead])
    <3>1. lead'[c.lead].revision = lead[c.lead].revision + 1
      BY <2>5 DEF Opens
    <3>2. QED
      BY <2>1, <2>2, <2>3, <3>1
  <2>6. QED
    BY <2>l, <2>4, <2>5, LeadAdvances
<1>3. QED
  BY <1>1, <1>2 DEF DiscoveryCall

-----------------------------------------------------------------------------
\* How the requests move.  A handler that has ended knows nothing.
LEMMA NoCallOK ==
  NoCall \in Calls /\ TabCall(NoCall) /\ DiscoveryCall(NoCall)
BY DEF NoCall, Calls, TabCall, DiscoveryCall, States

\* The request of k becomes c.
Becomes(k, c) == c \in Calls /\ call' = [call EXCEPT ![k] = c]

LEMMA EditedCall ==
  ASSUME NEW c \in Calls, NEW step \in {"free", "sent", "checked", "read"}
  PROVE  [c EXCEPT !.step = step] \in Calls
BY DEF Calls

\* What is asked, and the steps that are no decision on a lead.
LEMMA TabAsks ==
  ASSUME IInv, NEW t \in Tabs,
         \/ SaveSearch(t)
         \/ \E u \in Urls : Capture(t, u)
         \/ \E o \in Opportunities : Track(t, o)
         \/ ReadSearch(t) \/ ReadCapture(t) \/ ReadTrack(t)
  PROVE  \E c : Becomes(t, c) /\ TabCall(c)
<1>t. TypeOK /\ PagesOK
  BY DEF IInv
<1>c. call[t] \in Calls /\ call \in [Tabs \cup Discoveries -> Calls]
  BY <1>t DEF TypeOK
<1>0. NoCall \in Calls
  BY NoCallOK
<1>1. CASE SaveSearch(t)
  <2>1. view[t].search \in Nat /\ draft[t].criteria \in Criteria \cup {Nothing}
    BY <1>t DEF PagesOK
  <2> DEFINE c == [NoCall EXCEPT !.step = "sent", !.kind = "save",
                                 !.criteria = draft[t].criteria, !.revision = view[t].search]
  <2>2. call' = [call EXCEPT ![t] = c]
    BY <1>1 DEF SaveSearch, Ask
  <2>3. c \in Calls /\ c.kind = "save"
    BY <1>0, <2>1 DEF Calls
  <2>4. QED
    BY <2>2, <2>3 DEF Becomes, TabCall
<1>2. CASE \E u \in Urls : Capture(t, u)
  <2>1. PICK u \in Urls : Capture(t, u)
    BY <1>2
  <2> DEFINE c == [NoCall EXCEPT !.step = "sent", !.kind = "capture", !.url = u]
  <2>2. call' = [call EXCEPT ![t] = c]
    BY <2>1 DEF Capture, Ask
  <2>3. c \in Calls /\ c.kind = "capture"
    BY <1>0 DEF Calls
  <2>4. QED
    BY <2>2, <2>3 DEF Becomes, TabCall
<1>3. CASE \E o \in Opportunities : Track(t, o)
  <2>1. PICK o \in Opportunities : Track(t, o)
    BY <1>3
  <2> DEFINE c == [NoCall EXCEPT !.step = "sent", !.kind = "track", !.opportunity = o]
  <2>2. call' = [call EXCEPT ![t] = c]
    BY <2>1 DEF Track, Ask
  <2>3. c \in Calls /\ c.kind = "track"
    BY <1>0 DEF Calls
  <2>4. QED
    BY <2>2, <2>3 DEF Becomes, TabCall
<1>4. CASE ReadSearch(t) \/ ReadCapture(t) \/ ReadTrack(t)
  <2>1. /\ call[t].kind \in {"save", "capture", "track"}
        /\ call' = [call EXCEPT ![t] = NoCall] \/ call' = [call EXCEPT ![t].step = "read"]
    BY <1>4 DEF ReadSearch, ReadCapture, ReadTrack, Pass, Refuse
  <2>2. CASE call' = [call EXCEPT ![t] = NoCall]
    BY <2>2, NoCallOK DEF Becomes
  <2>3. CASE call' = [call EXCEPT ![t].step = "read"]
    <3> DEFINE c == [call[t] EXCEPT !.step = "read"]
    <3>1. c \in Calls
      BY <1>c, EditedCall
    <3>2. c.kind = call[t].kind
      BY <1>c DEF Calls
    <3>3. call' = [call EXCEPT ![t] = c]
      BY <2>3
    <3>4. QED
      BY <2>1, <3>1, <3>2, <3>3 DEF Becomes, TabCall
  <2>4. QED
    BY <2>1, <2>2, <2>3
<1>5. QED
  BY <1>1, <1>2, <1>3, <1>4

\* The user decides on a lead as it is shown.
LEMMA TabDecides ==
  ASSUME IInv, NEW t \in Tabs, NEW l \in Leads, NEW decision \in States,
         Triage(t, l, decision)
  PROVE  \E c : Becomes(t, c) /\ TabCall(c)
<1>t. TypeOK /\ PagesOK /\ ViewInv
  BY DEF IInv
<1> DEFINE shown == view[t].lead[l]
           c == [NoCall EXCEPT !.step = "sent", !.kind = "triage", !.lead = l,
                               !.revision = shown.revision, !.content = shown.content,
                               !.decision = decision]
<1>1. call' = [call EXCEPT ![t] = c] /\ decision # "absent"
  BY DEF Triage, Ask
<1>2. /\ shown.revision \in Nat /\ shown.content \in Contents \cup {Nothing}
      /\ shown.revision <= lead[l].revision
      /\ shown.revision = lead[l].revision => shown.content = lead[l].content
  <2>1. view[t].lead[l] \in [revision : Nat, state : States, content : Contents \cup {Nothing}]
    BY <1>t DEF PagesOK
  <2>2. /\ shown.revision <= lead[l].revision
        /\ shown.revision = lead[l].revision => shown = Shown(lead[l])
    BY <1>t DEF ViewInv
  <2>3. Shown(lead[l]).content = lead[l].content
    BY DEF Shown
  <2> HIDE DEF shown
  <2>4. QED
    BY <2>1, <2>2, <2>3 DEF shown
<1> HIDE DEF shown
<1>3. c = [step |-> "sent", kind |-> "triage", lead |-> l, revision |-> shown.revision,
           criteria |-> Nothing, url |-> Nothing, content |-> shown.content,
           decision |-> decision, opportunity |-> Nothing]
  <2> DEFINE rev == shown.revision
             text == shown.content
  <2>1. c = [NoCall EXCEPT !.step = "sent", !.kind = "triage", !.lead = l, !.revision = rev,
                           !.content = text, !.decision = decision]
    OBVIOUS
  <2> HIDE DEF rev, text, c
  <2>2. c = [step |-> "sent", kind |-> "triage", lead |-> l, revision |-> rev,
             criteria |-> Nothing, url |-> Nothing, content |-> text,
             decision |-> decision, opportunity |-> Nothing]
    BY <2>1 DEF NoCall
  <2>3. QED
    BY <2>2 DEF rev, text
<1>4. c \in Calls
  BY <1>2, <1>3 DEF Calls
<1>5. /\ c.step = "sent" /\ c.kind = "triage" /\ c.lead = l /\ c.revision = shown.revision
      /\ c.content = shown.content /\ c.decision = decision
  BY <1>3
<1>6. call' = [call EXCEPT ![t] = c]
  BY <1>1
<1> HIDE DEF c
<1>7. TabCall(c)
  BY <1>1, <1>2, <1>5 DEF TabCall
<1>8. QED
  BY <1>4, <1>6, <1>7 DEF Becomes

\* triageDiscoveryLead checks the lead and looks for an opportunity.
LEMMA TabReads ==
  ASSUME IInv, NEW t \in Tabs, ReadTriage(t)
  PROVE  \E c : Becomes(t, c) /\ TabCall(c)
<1>t. TypeOK /\ TabInv
  BY DEF IInv
<1>c. call[t] \in Calls /\ TabCall(call[t]) /\ call[t].step = "sent" /\ call[t].kind = "triage"
  BY <1>t DEF TypeOK, TabInv, ReadTriage
<1>1. CASE ~Triageable(t)
  BY <1>1, NoCallOK DEF ReadTriage, Refuse, Becomes
<1>2. CASE Triageable(t)
  <2> DEFINE same == {o \in Kept : SamePosition(call[t].lead, o)}
             l == call[t].lead
  <2>1. PICK o \in IF call[t].decision = "shortlisted" /\ same # {} THEN same ELSE {Nothing} :
             call' = [call EXCEPT ![t].step = "read", ![t].opportunity = o,
                                  ![t].revision = lead[call[t].lead].revision]
    BY <1>2 DEF ReadTriage
  <2>2. /\ o \in Opportunities \cup {Nothing}
        /\ o # Nothing => o \in Kept /\ call[t].decision = "shortlisted"
    BY <1>t, <2>1, Typed
  <2>3. /\ l \in Leads /\ lead[l] \in Rows
        /\ call[t].decision # "absent" /\ lead[l].content = call[t].content
        /\ lead[l].state \in Open /\ lead[l].revision \in Nat
        /\ call[t].revision = lead[l].revision
    <3>1. /\ l \in Leads /\ call[t].decision # "absent" /\ call[t].revision = lead[l].revision
          /\ lead[l].content = call[t].content
      BY <1>2, <1>c DEF TabCall, Triageable
    <3>2. lead[l] \in Rows
      BY <1>t, <3>1, Typed
    <3>3. lead[l].state \in Open
      BY <1>2 DEF Triageable, Open
    <3>4. QED
      BY <3>1, <3>2, <3>3 DEF Rows
  <2> DEFINE c == [call[t] EXCEPT !.step = "read", !.opportunity = o,
                                  !.revision = lead[l].revision]
  <2>4. call' = [call EXCEPT ![t] = c]
    BY <2>1, <1>t DEF TypeOK
  <2> HIDE DEF l
  <2>5. c \in Calls
    BY <1>c, <2>2, <2>3 DEF Calls
  <2>6. /\ c.step = "read" /\ c.kind = "triage" /\ c.lead = call[t].lead
        /\ c.revision = lead[l].revision /\ c.content = call[t].content
        /\ c.decision = call[t].decision /\ c.opportunity = o
    BY <1>c DEF Calls
  <2> HIDE DEF c
  <2>7. TabCall(c)
    BY <2>2, <2>3, <2>6 DEF TabCall, l
  <2>8. QED
    BY <2>4, <2>5, <2>7 DEF Becomes
<1>3. QED
  BY <1>1, <1>2

\* A tab's step leaves its request alone, ends it, or makes it one that fits
\* the tables, which it then leaves alone.
LEMMA TabMoves ==
  ASSUME IInv, NEW t \in Tabs, TabStep(t)
  PROVE  \/ call' = call \/ Becomes(t, NoCall)
         \/ UNCHANGED <<lead, opportunity>> /\ \E c : Becomes(t, c) /\ TabCall(c)
<1>1. CASE SeeSearch(t) \/ SeeInbox(t) \/ EditSearch(t)
  BY <1>1 DEF SeeSearch, SeeInbox, EditSearch
<1>2. CASE CommitSearch(t) \/ CommitTriage(t) \/ CommitCapture(t) \/ CommitTrack(t)
  BY <1>2, NoCallOK DEF CommitSearch, CommitTriage, CommitCapture, CommitTrack, Commit, Refuse,
                        Becomes
<1>3. CASE \/ SaveSearch(t) \/ ReadSearch(t) \/ ReadCapture(t) \/ ReadTrack(t)
           \/ \E u \in Urls : Capture(t, u)
           \/ \E o \in Opportunities : Track(t, o)
  <2>1. UNCHANGED <<lead, opportunity>>
    BY <1>3 DEF SaveSearch, ReadSearch, ReadCapture, ReadTrack, Capture, Track, tables
  <2>2. QED
    BY <1>3, <2>1, TabAsks
<1>4. CASE \E l \in Leads, decision \in States : Triage(t, l, decision)
  <2>1. UNCHANGED <<lead, opportunity>>
    BY <1>4 DEF Triage, tables
  <2>2. QED
    BY <1>4, <2>1, TabDecides
<1>5. CASE ReadTriage(t)
  <2>1. UNCHANGED <<lead, opportunity>>
    BY <1>5 DEF ReadTriage, tables
  <2>2. QED
    BY <1>5, <2>1, TabReads
<1>6. QED
  BY <1>1, <1>2, <1>3, <1>4, <1>5 DEF TabStep

\* The same for a discovery.
LEMMA DiscoveryMoves ==
  ASSUME IInv, NEW d \in Discoveries, DiscoveryStep(d)
  PROVE  \/ call' = call \/ Becomes(d, NoCall)
         \/ UNCHANGED <<lead, opportunity>> /\ \E c : Becomes(d, c) /\ DiscoveryCall(c)
<1>t. TypeOK /\ DiscoveryInv
  BY DEF IInv
<1>c. /\ call[d] \in Calls /\ DiscoveryCall(call[d])
      /\ call \in [Tabs \cup Discoveries -> Calls]
  BY <1>t DEF TypeOK, DiscoveryInv
<1>1. CASE StartDiscovery(d) \/ EndDiscovery(d)
  BY <1>1 DEF StartDiscovery, EndDiscovery
<1>2. CASE CommitLead(d)
  BY <1>2, NoCallOK DEF CommitLead, Commit, Refuse, Becomes
<1>3. CASE \E u \in Urls, text \in Contents : Offer(d, u, text)
  <2>1. PICK u \in Urls, text \in Contents : Offer(d, u, text)
    BY <1>3
  <2> DEFINE c == [NoCall EXCEPT !.step = "sent", !.kind = "record", !.url = u, !.content = text]
  <2>2. call' = [call EXCEPT ![d] = c] /\ UNCHANGED <<lead, opportunity>>
    BY <2>1 DEF Offer, Ask, tables
  <2>3. c \in Calls
    BY NoCallOK DEF Calls
  <2>4. c.step = "sent" /\ c.kind = "record" /\ c.lead = Nothing
    BY DEF NoCall
  <2>5. QED
    BY <2>2, <2>3, <2>4 DEF Becomes, DiscoveryCall
<1>4. CASE CheckDiscovery(d)
  <2>1. /\ call[d].step = "sent" /\ UNCHANGED <<lead, opportunity>>
        /\ call' = [call EXCEPT ![d] = NoCall] \/ call' = [call EXCEPT ![d].step = "checked"]
    BY <1>4 DEF CheckDiscovery, Pass, Refuse, tables
  <2> DEFINE c == [call[d] EXCEPT !.step = "checked"]
  <2>2. c \in Calls
    BY <1>c, EditedCall
  <2>3. c.step = "checked" /\ c.kind = call[d].kind /\ c.lead = call[d].lead
    BY <1>c DEF Calls
  <2>4. DiscoveryCall(c)
    BY <1>c, <2>1, <2>3 DEF DiscoveryCall
  <2>5. call' = [call EXCEPT ![d].step = "checked"] => call' = [call EXCEPT ![d] = c]
    OBVIOUS
  <2>6. QED
    BY <2>1, <2>2, <2>4, <2>5, NoCallOK DEF Becomes
<1>5. CASE ReadLeads(d)
  <2> DEFINE known == {l \in Listed : lead[l].url = call[d].url}
  <2>1. /\ call[d].step = "checked" /\ UNCHANGED <<lead, opportunity>>
        /\ \/ call' = [call EXCEPT ![d] = NoCall]
           \/ known = {} /\ call' = [call EXCEPT ![d].step = "read"]
           \/ \E l \in known : /\ Rediscoverable(d, l)
                               /\ call' = [call EXCEPT ![d].step = "read", ![d].lead = l,
                                                       ![d].revision = lead[l].revision]
    BY <1>5 DEF ReadLeads, Refuse, tables
  <2>2. call[d].kind = "record" /\ call[d].lead = Nothing
    BY <1>c, <2>1 DEF DiscoveryCall
  <2>3. CASE call' = [call EXCEPT ![d].step = "read"]
    <3> DEFINE c == [call[d] EXCEPT !.step = "read"]
    <3>1. c \in Calls
      BY <1>c, EditedCall
    <3>2. c.step = "read" /\ c.kind = call[d].kind /\ c.lead = call[d].lead
      BY <1>c DEF Calls
    <3>3. DiscoveryCall(c)
      BY <2>2, <3>2 DEF DiscoveryCall
    <3>4. call' = [call EXCEPT ![d] = c]
      BY <2>3
    <3>5. QED
      BY <2>1, <3>1, <3>3, <3>4 DEF Becomes
  <2>4. CASE \E l \in known : /\ Rediscoverable(d, l)
                              /\ call' = [call EXCEPT ![d].step = "read", ![d].lead = l,
                                                      ![d].revision = lead[l].revision]
    <3>1. PICK l \in known : /\ Rediscoverable(d, l)
                             /\ call' = [call EXCEPT ![d].step = "read", ![d].lead = l,
                                                     ![d].revision = lead[l].revision]
      BY <2>4
    <3>2. l \in Leads /\ lead[l] \in Rows /\ lead[l].state # "absent"
      BY <1>t, Typed DEF Listed
    <3>3. lead[l].state # "shortlisted"
      BY <3>1 DEF Rediscoverable
    <3>4. lead[l].state \in Open /\ lead[l].revision \in Nat
      BY <3>2, <3>3 DEF Rows, States, Open
    <3> DEFINE c == [call[d] EXCEPT !.step = "read", !.lead = l, !.revision = lead[l].revision]
    <3>5. call' = [call EXCEPT ![d] = c]
      BY <3>1, <1>c
    <3>6. c \in Calls /\ c.step = "read" /\ c.kind = call[d].kind /\ c.lead = l
                      /\ c.revision = lead[l].revision
      BY <1>c, <3>2, <3>4 DEF Calls
    <3> HIDE DEF c
    <3>7. DiscoveryCall(c)
      BY <2>2, <3>4, <3>6 DEF DiscoveryCall
    <3>8. QED
      BY <2>1, <3>5, <3>6, <3>7 DEF Becomes
  <2>5. QED
    BY <2>1, <2>3, <2>4, NoCallOK DEF Becomes
<1>6. QED
  BY <1>1, <1>2, <1>3, <1>4, <1>5 DEF DiscoveryStep

LEMMA CallMoves ==
  ASSUME IInv, [Next]_vars
  PROVE  \/ call' = call
         \/ \E t \in Tabs : \E c : Becomes(t, c) /\ TabCall(c)'
         \/ \E d \in Discoveries : \E c : Becomes(d, c) /\ DiscoveryCall(c)'
<1>0. TabCall(NoCall)' /\ DiscoveryCall(NoCall)'
  BY DEF TabCall, DiscoveryCall, NoCall
<1>1. CASE UNCHANGED vars
  BY <1>1 DEF vars
<1>2. CASE \E t \in Tabs : TabStep(t)
  <2>1. PICK t \in Tabs : TabStep(t)
    BY <1>2
  <2>2. CASE Becomes(t, NoCall)
    BY <1>0, <2>2
  <2>3. CASE UNCHANGED <<lead, opportunity>> /\ \E c : Becomes(t, c) /\ TabCall(c)
    <3>1. PICK c : Becomes(t, c) /\ TabCall(c)
      BY <2>3
    <3>2. TabCall(c)'
      BY <2>3, <3>1 DEF TabCall, Kept
    <3>3. QED
      BY <3>1, <3>2
  <2>4. QED
    BY <2>1, <2>2, <2>3, TabMoves
<1>3. CASE \E d \in Discoveries : DiscoveryStep(d)
  <2>1. PICK d \in Discoveries : DiscoveryStep(d)
    BY <1>3
  <2>2. CASE Becomes(d, NoCall)
    BY <1>0, <2>2
  <2>3. CASE UNCHANGED <<lead, opportunity>> /\ \E c : Becomes(d, c) /\ DiscoveryCall(c)
    <3>1. PICK c : Becomes(d, c) /\ DiscoveryCall(c)
      BY <2>3
    <3>2. DiscoveryCall(c)'
      BY <2>3, <3>1 DEF DiscoveryCall
    <3>3. QED
      BY <3>1, <3>2
  <2>4. QED
    BY <2>1, <2>2, <2>3, DiscoveryMoves
<1>4. QED
  BY <1>1, <1>2, <1>3 DEF Next

LEMMA CallStep ==
  ASSUME IInv, [Next]_vars
  PROVE  call' \in [Tabs \cup Discoveries -> Calls] /\ TabInv' /\ DiscoveryInv'
<1>t. call \in [Tabs \cup Discoveries -> Calls] /\ TabInv /\ DiscoveryInv
  BY DEF IInv, TypeOK
<1>1. call' \in [Tabs \cup Discoveries -> Calls]
  BY <1>t, CallMoves DEF Becomes
<1>2. ASSUME NEW t \in Tabs
      PROVE  TabCall(call[t])'
  <2>1. \E c : call'[t] = c /\ TabCall(c)'
    <3>1. CASE call'[t] = call[t]
      <4>1. PICK c \in Calls : c = call[t]
        BY <1>t
      <4>2. TabCall(c)
        BY <1>t, <4>1 DEF TabInv
      <4>3. QED
        BY <3>1, <4>1, <4>2, TabCallKept
    <3>2. CASE call'[t] # call[t]
      <4>1. PICK k \in Tabs : \E c : Becomes(k, c) /\ TabCall(c)'
        BY <1>t, <3>2, CallMoves, ConstantsAssumption DEF Becomes
      <4>2. PICK c : Becomes(k, c) /\ TabCall(c)'
        BY <4>1
      <4>3. k = t /\ call'[t] = c
        BY <1>t, <3>2, <4>2 DEF Becomes
      <4>4. QED
        BY <4>2, <4>3
    <3>3. QED
      BY <3>1, <3>2
  <2>2. QED
    BY <2>1 DEF TabCall
<1>3. ASSUME NEW d \in Discoveries
      PROVE  DiscoveryCall(call[d])'
  <2>1. \E c : call'[d] = c /\ DiscoveryCall(c)'
    <3>1. CASE call'[d] = call[d]
      <4>1. PICK c \in Calls : c = call[d]
        BY <1>t
      <4>2. DiscoveryCall(c)
        BY <1>t, <4>1 DEF DiscoveryInv
      <4>3. QED
        BY <3>1, <4>1, <4>2, DiscoveryCallKept
    <3>2. CASE call'[d] # call[d]
      <4>1. PICK k \in Discoveries : \E c : Becomes(k, c) /\ DiscoveryCall(c)'
        BY <1>t, <3>2, CallMoves, ConstantsAssumption DEF Becomes
      <4>2. PICK c : Becomes(k, c) /\ DiscoveryCall(c)'
        BY <4>1
      <4>3. k = d /\ call'[d] = c
        BY <1>t, <3>2, <4>2 DEF Becomes
      <4>4. QED
        BY <4>2, <4>3
    <3>3. QED
      BY <3>1, <3>2
  <2>2. QED
    BY <2>1 DEF DiscoveryCall
<1>4. QED
  BY <1>1, <1>2, <1>3 DEF TabInv, DiscoveryInv

-----------------------------------------------------------------------------
\* The other tables, and what the tabs show.
LEMMA OthersStep ==
  ASSUME IInv, [Next]_vars
  PROVE  search' \in Searches /\ tracked' \in [Opportunities -> Nat]
<1>t. /\ TypeOK /\ PagesOK /\ search \in Searches /\ tracked \in [Opportunities -> Nat]
      /\ call \in [Tabs \cup Discoveries -> Calls]
  BY DEF IInv, TypeOK
<1>1. \/ UNCHANGED <<search, tracked>>
      \/ \E t \in Tabs : \/ CommitSearch(t) /\ search' # search /\ tracked' = tracked
                         \/ CommitTrack(t) /\ search' = search
  <2>1. CASE \E t \in Tabs : TabStep(t)
    BY <2>1, ZenonT(60) DEF TabStep, SeeSearch, SeeInbox, EditSearch, SaveSearch, Triage, Capture, Track,
                ReadSearch, CommitSearch, ReadTriage, CommitTriage, ReadCapture, CommitCapture,
                ReadTrack, CommitTrack, tables
  <2>2. CASE \E d \in Discoveries : DiscoveryStep(d)
    BY <2>2 DEF DiscoveryStep, StartDiscovery, EndDiscovery, Offer, CheckDiscovery, ReadLeads,
                CommitLead, tables
  <2>3. QED
    BY <2>1, <2>2 DEF Next, vars, tables
<1>2. ASSUME NEW t \in Tabs, CommitSearch(t), search' # search
      PROVE  search' \in Searches
  <2>1. search' = [revision |-> search.revision + 1, criteria |-> call[t].criteria,
                   from |-> draft[t].from]
    BY <1>2 DEF CommitSearch
  <2>2. /\ search.revision + 1 \in Nat /\ draft[t].from \in Nat
        /\ call[t].criteria \in Criteria \cup {Nothing}
    <3>1. search.revision \in Nat
      BY <1>t DEF Searches
    <3>2. draft[t].from \in Nat
      BY <1>t DEF PagesOK
    <3>3. call[t] \in Calls
      BY <1>t
    <3>4. QED
      BY <3>1, <3>2, <3>3 DEF Calls
  <2>3. QED
    BY <2>1, <2>2 DEF Searches
<1>3. ASSUME NEW t \in Tabs, CommitTrack(t)
      PROVE  tracked' \in [Opportunities -> Nat]
  <2> DEFINE o == call[t].opportunity
  <2>1. tracked' = [tracked EXCEPT ![o] = tracked[o] + 1]
    BY <1>3 DEF CommitTrack
  <2> HIDE DEF o
  <2>2. CASE o \in Opportunities
    <3>1. tracked[o] + 1 \in Nat
      BY <1>t, <2>2
    <3>2. QED
      BY <1>t, <2>1, <3>1
  <2>3. CASE o \notin Opportunities
    BY <1>t, <2>1, <2>3
  <2>4. QED
    BY <2>2, <2>3
<1>4. QED
  BY <1>t, <1>1, <1>2, <1>3

LEMMA PagesStep ==
  ASSUME IInv, [Next]_vars
  PROVE  /\ PagesOK'
         /\ \A t \in Tabs, l \in Leads : \/ view'[t].lead[l] = view[t].lead[l]
                                         \/ /\ view'[t].lead[l] = Shown(lead[l])
                                            /\ lead' = lead
<1>t. /\ TypeOK /\ PagesOK /\ lead \in [Leads -> Rows]
      /\ call \in [Tabs \cup Discoveries -> Calls] /\ search.revision \in Nat
  BY DEF IInv, TypeOK, Searches
<1> DEFINE Rev == [revision : Nat, state : States, content : Contents \cup {Nothing}]
           Views == [search : Nat, lead : [Leads -> Rev]]
           Drafts == [criteria : Criteria \cup {Nothing}, from : Nat]
<1>v. view \in [Tabs -> Views] /\ draft \in [Tabs -> Drafts]
  BY <1>t DEF PagesOK
<1> DEFINE Goal == /\ PagesOK'
                   /\ \A t \in Tabs, l \in Leads : \/ view'[t].lead[l] = view[t].lead[l]
                                                   \/ /\ view'[t].lead[l] = Shown(lead[l])
                                                      /\ lead' = lead
<1>0. ASSUME view' = view, draft' \in [Tabs -> Drafts]
      PROVE  Goal
  BY <1>0, <1>v DEF PagesOK
<1>1. CASE UNCHANGED pages
  BY <1>0, <1>1, <1>v DEF pages
<1>2. ASSUME NEW t \in Tabs, SeeSearch(t)
      PROVE  Goal
  <2>1. view' = [view EXCEPT ![t].search = search.revision] /\ draft' = draft
    BY <1>2 DEF SeeSearch
  <2>2. view' \in [Tabs -> Views]
    BY <2>1, <1>v, <1>t
  <2>3. \A s \in Tabs : view'[s].lead = view[s].lead
    BY <2>1, <1>v
  <2>4. QED
    BY <2>1, <2>2, <2>3, <1>v DEF PagesOK
<1>3. ASSUME NEW t \in Tabs, SeeInbox(t)
      PROVE  Goal
  <2> DEFINE shown == [l \in Leads |-> Shown(lead[l])]
  <2>1. view' = [view EXCEPT ![t].lead = shown] /\ draft' = draft /\ lead' = lead
    BY <1>3 DEF SeeInbox, tables
  <2>2. shown \in [Leads -> Rev]
    <3>1. ASSUME NEW l \in Leads
          PROVE  Shown(lead[l]) \in Rev
      <4>1. lead[l] \in Rows
        BY <1>t
      <4>2. QED
        BY <4>1 DEF Shown, Rows
    <3>2. QED
      BY <3>1
  <2>h. \A l \in Leads : shown[l] = Shown(lead[l])
    OBVIOUS
  <2> HIDE DEF shown
  <2>3. view' \in [Tabs -> Views]
    BY <2>1, <2>2, <1>v
  <2>4. \A s \in Tabs : view'[s].lead = view[s].lead \/ view'[s].lead = shown
    BY <2>1, <1>v
  <2>5. QED
    BY <2>1, <2>3, <2>4, <2>h, <1>v DEF PagesOK
<1>4. ASSUME NEW t \in Tabs, EditSearch(t)
      PROVE  Goal
  <2>1. view' = view
    BY <1>4 DEF EditSearch
  <2>2. PICK k \in Criteria : draft' = [draft EXCEPT ![t] =
           [criteria |-> k, from |-> IF draft[t].from > 0 THEN draft[t].from ELSE view[t].search]]
    BY <1>4 DEF EditSearch
  <2>3. draft[t].from \in Nat /\ view[t].search \in Nat
    BY <1>v
  <2>4. draft' \in [Tabs -> Drafts]
    BY <2>2, <2>3, <1>v
  <2>5. QED
    BY <1>0, <2>1, <2>4
<1>5. ASSUME NEW t \in Tabs, CommitSearch(t)
      PROVE  Goal
  <2>1. view' = view
    BY <1>5 DEF CommitSearch
  <2>2. \/ draft' = draft
        \/ draft' = [draft EXCEPT ![t] = [criteria |-> Nothing, from |-> search'.revision]]
    BY <1>5 DEF CommitSearch
  <2>3. search'.revision \in Nat
    BY OthersStep DEF Searches
  <2>4. draft' \in [Tabs -> Drafts]
    BY <2>2, <2>3, <1>v
  <2>5. QED
    BY <1>0, <2>1, <2>4
<1>6. \/ UNCHANGED pages
      \/ \E t \in Tabs : SeeSearch(t) \/ SeeInbox(t) \/ EditSearch(t) \/ CommitSearch(t)
  <2>1. CASE \E t \in Tabs : TabStep(t)
    BY <2>1 DEF TabStep, SaveSearch, Triage, Capture, Track,
                ReadSearch, ReadTriage, CommitTriage, ReadCapture, CommitCapture,
                ReadTrack, CommitTrack
  <2>2. CASE \E d \in Discoveries : DiscoveryStep(d)
    BY <2>2 DEF DiscoveryStep, StartDiscovery, EndDiscovery, Offer, CheckDiscovery, ReadLeads,
                CommitLead
  <2>3. QED
    BY <2>1, <2>2 DEF Next, vars
<1>7. QED
  BY <1>1, <1>2, <1>3, <1>4, <1>5, <1>6

\* A page that names the revision of a lead still knows it.
LEMMA ViewStep ==
  ASSUME IInv, [Next]_vars
  PROVE  ViewInv'
<1>t. PagesOK /\ ViewInv /\ PagesOK'
  BY PagesStep DEF IInv
<1>1. SUFFICES ASSUME NEW t \in Tabs, NEW l \in Leads
               PROVE  /\ view'[t].lead[l].revision <= lead'[l].revision
                      /\ view'[t].lead[l].revision = lead'[l].revision =>
                           view'[t].lead[l] = Shown(lead'[l])
  BY DEF ViewInv, Shown
<1>2. /\ lead[l].revision \in Nat /\ lead'[l].revision \in Nat
      /\ lead'[l] = lead[l] \/ lead'[l].revision = lead[l].revision + 1
  BY LeadAdvances DEF Rows, Opens
<1>3. /\ view[t].lead[l].revision \in Nat /\ view'[t].lead[l].revision \in Nat
  BY <1>t DEF PagesOK
<1>4. CASE view'[t].lead[l] = view[t].lead[l]
  <2>1. /\ view[t].lead[l].revision <= lead[l].revision
        /\ view[t].lead[l].revision = lead[l].revision => view[t].lead[l] = Shown(lead[l])
    BY <1>t DEF ViewInv
  <2>2. CASE lead'[l] = lead[l]
    BY <1>4, <2>1, <2>2
  <2>3. CASE lead'[l].revision = lead[l].revision + 1
    <3>1. view[t].lead[l].revision < lead'[l].revision
      BY <1>2, <1>3, <2>1, <2>3
    <3>2. QED
      BY <1>2, <1>3, <1>4, <3>1
  <2>4. QED
    BY <1>2, <2>2, <2>3
<1>5. CASE view'[t].lead[l] = Shown(lead[l]) /\ lead' = lead
  <2>1. view'[t].lead[l].revision = lead'[l].revision
    BY <1>5 DEF Shown
  <2>2. QED
    BY <1>2, <1>5, <2>1
<1>6. QED
  BY <1>4, <1>5, PagesStep

LEMMA TypeStep ==
  ASSUME IInv, [Next]_vars
  PROVE  TypeOK'
<1>t. TypeOK
  BY DEF IInv
<1>1. ASSUME NEW l \in Leads, lead'[l].state # "absent"
      PROVE  /\ lead'[l].operation # Nothing
             /\ lead'[l].state = "shortlisted" <=> lead'[l].opportunity # Nothing
  <2>1. CASE lead'[l] = lead[l]
    BY <1>1, <1>t, <2>1 DEF TypeOK, Listed
  <2>2. CASE Opens(l, lead'[l])
    BY <2>2 DEF Opens
  <2>3. QED
    BY <2>1, <2>2, LeadAdvances
<1>2. QED
  BY <1>1, OpportunityStays, OthersStep, CallStep DEF TypeOK, Listed

\* A lead is decided on in the text it has, or taken again as new.
LEMMA DecisionStep ==
  ASSUME IInv, [Next]_vars
  PROVE  DecisionIsOnSeenContent'
<1>1. ASSUME NEW l \in Leads, lead'[l].state \in {"shortlisted", "dismissed"}
      PROVE  lead'[l].decidedOn = lead'[l].content
  <2>1. CASE lead'[l] = lead[l]
    BY <1>1, <2>1 DEF IInv, DecisionIsOnSeenContent
  <2>2. CASE Opens(l, lead'[l])
    BY <1>1, <2>2 DEF Opens
  <2>3. QED
    BY <2>1, <2>2, LeadAdvances
<1>2. QED
  BY <1>1 DEF DecisionIsOnSeenContent

\* A lead that gets an opportunity had none, and keeps it.
LEMMA FromStep ==
  ASSUME IInv, [Next]_vars
  PROVE  FromInv'
<1>t. /\ FromInv /\ TypeOK /\ lead \in [Leads -> Rows]
      /\ opportunity \in [Opportunities -> Saved]
  BY DEF IInv, TypeOK
<1>i. /\ \A o \in Opportunities : opportunity[o].from \in Leads =>
           /\ lead[opportunity[o].from].state = "shortlisted"
           /\ opportunity[o].content = lead[opportunity[o].from].content
      /\ \A o, p \in Opportunities :
           opportunity[o].from \in Leads /\ opportunity[o].from = opportunity[p].from => o = p
      /\ \A l \in Leads : lead[l].state = "shortlisted" => lead[l].opportunity \in Kept
  BY <1>t DEF FromInv
<1>1. CASE UNCHANGED <<lead, opportunity>>
  BY <1>1, <1>i DEF FromInv, Kept
<1>2. ASSUME NEW l \in Leads, NEW row \in Rows, LeadWritten(l, row)
      PROVE  FromInv'
  <2>1. Opens(l, row) /\ lead' = [lead EXCEPT ![l] = row]
    BY <1>2 DEF LeadWritten
  <2>2. /\ lead'[l] = row /\ \A k \in Leads \ {l} : lead'[k] = lead[k]
        /\ \A o \in Opportunities : opportunity[o].from # l
    BY <1>t, <1>i, <2>1 DEF Opens
  <2>3. CASE opportunity' = opportunity /\ (row.opportunity # Nothing => row.opportunity \in Kept)
    <3>1. row.state = "shortlisted" => row.opportunity \in Kept
      BY <2>1, <2>3 DEF Opens
    <3>2. QED
      BY <1>i, <2>2, <2>3, <3>1 DEF FromInv, Kept
  <2>4. CASE /\ row.opportunity # Nothing
             /\ \E posting \in Saved : /\ posting.from = l /\ posting.content = row.content
                                       /\ Adds(row.opportunity, posting)
    <3> DEFINE n == row.opportunity
    <3>1. PICK posting \in Saved : /\ posting.from = l /\ posting.content = row.content
                                   /\ Adds(n, posting)
      BY <2>4
    <3>2. /\ n \in Opportunities \ Kept /\ row.state = "shortlisted" /\ l # Nothing
          /\ opportunity' = [opportunity EXCEPT ![n] = posting]
      BY <2>1, <2>4, <3>1 DEF Opens, Adds
    <3>3. /\ opportunity'[n] = posting /\ n \in Kept'
          /\ \A o \in Opportunities \ {n} : opportunity'[o] = opportunity[o]
      BY <1>t, <3>1, <3>2 DEF Kept
    <3>4. \A o \in Kept : o \in Kept'
      BY OpportunityStays
    <3> HIDE DEF n
    <3>5. \A o \in Opportunities : opportunity'[o].from \in Leads =>
             /\ lead'[opportunity'[o].from].state = "shortlisted"
             /\ opportunity'[o].content = lead'[opportunity'[o].from].content
      BY <1>i, <2>2, <3>1, <3>2, <3>3
    <3>6. \A o, p \in Opportunities :
             opportunity'[o].from \in Leads /\ opportunity'[o].from = opportunity'[p].from => o = p
      BY <1>i, <2>2, <3>1, <3>3
    <3>7. \A k \in Leads : lead'[k].state = "shortlisted" => lead'[k].opportunity \in Kept'
      BY <1>i, <2>2, <3>3, <3>4 DEF n
    <3>8. QED
      BY <3>5, <3>6, <3>7 DEF FromInv
  <2>5. QED
    BY <1>2, <2>3, <2>4 DEF LeadWritten
<1>3. CASE Pasted
  <2>1. PICK n \in Opportunities, posting \in Saved : posting.from = "user" /\ Adds(n, posting)
    BY <1>3 DEF Pasted
  <2>2. lead' = lead /\ n \notin Kept /\ opportunity' = [opportunity EXCEPT ![n] = posting]
    BY <1>3, <2>1 DEF Pasted, Adds
  <2>3. /\ opportunity'[n].from \notin Leads
        /\ \A o \in Opportunities \ {n} : opportunity'[o] = opportunity[o]
    BY <1>t, <2>1, <2>2, ConstantsAssumption
  <2>4. \A o \in Kept : o \in Kept'
    BY OpportunityStays
  <2>5. QED
    BY <1>i, <2>2, <2>3, <2>4 DEF FromInv
<1>4. QED
  BY <1>1, <1>2, <1>3, Written

LEMMA InitIInv ==
  ASSUME Init
  PROVE  IInv
<1>1. /\ \A l \in Leads : lead[l] = NoLead
      /\ \A o \in Opportunities : opportunity[o] = NoOpportunity
      /\ \A k \in Tabs \cup Discoveries : call[k] = NoCall
      /\ Kept = {} /\ Listed = {}
  BY DEF Init, Kept, Listed, NoLead, NoOpportunity
<1>2. /\ NoLead \in Rows /\ NoOpportunity \in Saved
  <2>1. NoOpportunity \in Saved
    BY DEF NoOpportunity, Saved
  <2>2. "absent" \in States
    BY DEF States
  <2>3. NoLead \in Rows
    BY <2>2, RowOf DEF NoLead
  <2>4. QED
    BY <2>1, <2>3
<1>3. search \in Searches
  BY DEF Init, Searches
<1>4. TypeOK
  <2>1. /\ lead \in [Leads -> Rows] /\ opportunity \in [Opportunities -> Saved]
        /\ tracked \in [Opportunities -> Nat] /\ call \in [Tabs \cup Discoveries -> Calls]
    BY <1>2, NoCallOK DEF Init
  <2>2. QED
    BY <1>1, <1>3, <2>1 DEF TypeOK
<1>5. PagesOK
  <2>1. Shown(NoLead) \in [revision : Nat, state : States, content : Contents \cup {Nothing}]
    BY DEF Shown, NoLead, States
  <2>2. search.revision \in Nat
    BY <1>3 DEF Searches
  <2>3. QED
    BY <2>1, <2>2 DEF Init, PagesOK
<1>6. ViewInv
  <2>1. ASSUME NEW t \in Tabs, NEW l \in Leads
        PROVE  view[t].lead[l] = Shown(lead[l])
    BY <1>1 DEF Init
  <2>2. \A l \in Leads : Shown(lead[l]).revision = 0 /\ lead[l].revision = 0
    BY <1>1 DEF Shown, NoLead
  <2>3. QED
    BY <2>1, <2>2 DEF ViewInv
<1>7. TabInv /\ DiscoveryInv
  BY <1>1, NoCallOK DEF TabInv, DiscoveryInv
<1>8. FromInv /\ DecisionIsOnSeenContent
  BY <1>1, ConstantsAssumption DEF FromInv, DecisionIsOnSeenContent, NoLead, NoOpportunity
<1>9. QED
  BY <1>4, <1>5, <1>6, <1>7, <1>8 DEF IInv

-----------------------------------------------------------------------------
\* The tables, the pages and the handlers keep to what they know of each other.
THEOREM Invariant == Spec => []IInv
<1>1. Init => IInv
  BY InitIInv
<1>2. IInv /\ [Next]_vars => IInv'
  <2>1. SUFFICES ASSUME IInv, [Next]_vars
                 PROVE  IInv'
    OBVIOUS
  <2>2. TypeOK' /\ PagesOK' /\ ViewInv' /\ TabInv' /\ DiscoveryInv'
    BY <2>1, TypeStep, PagesStep, ViewStep, CallStep
  <2>3. FromInv' /\ DecisionIsOnSeenContent'
    BY <2>1, FromStep, DecisionStep
  <2>4. QED
    BY <2>2, <2>3 DEF IInv
<1>3. QED
  BY <1>1, <1>2, PTL DEF Spec

\* The tables hold rows; a lead names its operation, and an opportunity exactly
\* when it is shortlisted.
THEOREM TypeCorrect == Spec => []TypeOK
<1>1. IInv => TypeOK
  BY DEF IInv
<1>2. QED
  BY <1>1, Invariant, PTL

\* triageDiscoveryLead decides on the text the user was shown: a lead whose text
\* recordDiscoveryLead has replaced since is refused, at the read or at the commit.
THEOREM DecidedAsSeen == Spec => []DecisionIsOnSeenContent
<1>1. IInv => DecisionIsOnSeenContent
  BY DEF IInv
<1>2. QED
  BY <1>1, Invariant, PTL

\* However many tabs shortlist a lead, triageDiscoveryLead makes at most one
\* opportunity from it, which is there as long as the lead is shortlisted and
\* keeps the text that was decided on.
THEOREM SavedOnce == Spec => []OneOpportunityPerLead
<1>1. IInv => OneOpportunityPerLead
  <2>1. SUFFICES ASSUME IInv, NEW l \in Leads
                 PROVE  /\ Cardinality({o \in Kept : opportunity[o].from = l}) <= 1
                        /\ lead[l].state = "shortlisted" => lead[l].opportunity \in Kept
                        /\ \A o \in Kept : opportunity[o].from = l =>
                                opportunity[o].content = lead[l].content
    BY DEF OneOpportunityPerLead
  <2> DEFINE made == {o \in Kept : opportunity[o].from = l}
  <2>2. Kept \subseteq Opportunities
    BY DEF Kept
  <2>3. \A o, p \in made : o = p
    BY <2>1, <2>2 DEF IInv, FromInv
  <2>4. made = {} \/ \E o : made = {o}
    BY <2>3
  <2>5. Cardinality(made) \in {0, 1}
    BY <2>4, FS_EmptySet, FS_Singleton
  <2>6. QED
    BY <2>1, <2>2, <2>5 DEF IInv, FromInv
<1>2. QED
  BY <1>1, Invariant, PTL

-----------------------------------------------------------------------------
(***************************************************************************)
(* The career record.                                                       *)
(***************************************************************************)

Organization == [state : {"absent", "running", "succeeded", "failed"}, source : Nat,
                 results : SUBSET Facts]

\* The shape of what TypeOK leaves open.
ShapeOK ==
  /\ organization \in [Organizations -> Organization]
  /\ \A o \in Organizations : organization[o].state # "absent" => organization[o].source > 0
  /\ snapshot \in [OpenTabs -> [sources : Nat, fact : [Facts -> FactRows],
                        organization : [Organizations -> Organization]]]

\* A suggestion is in its first revision, a verified detail not beyond its second.
RowInv ==
  \A f \in Facts : LET row == fact[f] IN
    /\ row.status = "absent" <=> row.revision = 0
    /\ row.status = "proposed" => row.revision = 1
    /\ row.status = "verified" => row.revision <= 2

\* What is known of a fact by its row as it once was.
Knows(row, f) ==
  /\ row.revision <= fact[f].revision
  /\ row.revision = fact[f].revision => row = fact[f]
  /\ row.status # "absent" => row.revision > 0
  /\ row.status # "absent" => row.preference = fact[f].preference /\ row.by = fact[f].by
  /\ row.status = "proposed" => row.revision = 1
  /\ row.status = "verified" => row.revision \in {1, 2}

\* An organization that has succeeded has done so for good.
SnapshotInv ==
  \A t \in OpenTabs :
    /\ \A f \in Facts : Knows(snapshot[t].fact[f], f)
    /\ \A o \in Organizations : snapshot[t].organization[o].state = "succeeded" =>
                                  snapshot[t].organization[o] = organization[o]

\* What an agent suggested is a result of an organization that has succeeded.
Vouched(f) ==
  fact[f].by \in Organizations =>
    \E o \in Organizations : organization[o].state = "succeeded" /\ f \in organization[o].results

\* The user was shown f, and agreed to it, as it was suggested.
Reviewed(f) == fact[f].preference \/ (<<f, 1>> \in agreed /\ Vouched(f))

\* What a request may rely on.
RequestOK(c) ==
  /\ c.step = "free" <=> c.kind = "none"
  /\ c.step \in {"captured", "read"} => c.kind \in Outcomes \cup {"correct"}
  /\ c.kind \in Outcomes => c.fact \in Facts /\ c.revision = 1 /\ fact[c.fact].revision > 0
  /\ c.kind = "confirm" => Reviewed(c.fact)
  /\ c.kind = "correct" => c.fact \in Facts /\ c.revision \in {1, 2}
  /\ c.kind = "propose" => c.source \in 1..Len(sources)
  /\ c.kind = "correct" /\ c.step \in {"captured", "read"} => c.source \in 1..Len(sources)

\* A sequence of requests holds only what was shown when it began.
ReviewOK(w, c) ==
  /\ w.left # {}
  /\ c.kind \in {"none", "confirm", "cannot_confirm"}
  /\ \A f \in w.left : /\ fact[f].revision > 0 /\ w.shown[f] = 1
                       /\ f \notin w.out => Reviewed(f)

\* Saved preferences are a source, then a fact each, proposed and confirmed.
PreferencesOK(w, c) ==
  /\ w.wishes > 0 /\ c.preference
  /\ c.kind \in {"capture", "propose", "confirm"}
  /\ c.kind # "capture" \/ c.step = "accepted" => c.source \in 1..Len(sources)
  /\ c.kind = "propose" /\ c.step = "accepted" =>
       c.fact \in Facts /\ fact[c.fact].preference /\ fact[c.fact].revision > 0

WorkOK(w, c) ==
  /\ w.kind = "none" <=> c.step = "free" /\ w.kind # "review"
  /\ w.kind = "review" => ReviewOK(w, c)
  /\ w.kind = "preferences" => PreferencesOK(w, c)

RequestInv == \A t \in OpenTabs : RequestOK(request[t])
WorkInv == \A t \in OpenTabs : WorkOK(work[t], request[t])

\* The inductive invariant.
CareerInv ==
  /\ CareerTypeOK /\ ShapeOK /\ RowInv
  /\ SnapshotInv /\ RequestInv /\ WorkInv
  /\ VerifiedWasReviewed

-----------------------------------------------------------------------------
\* Every non-empty set of numbers has a least one, a bounded one has a greatest.
LEMMA LeastExists ==
  ASSUME NEW S \in SUBSET Nat, S # {}
  PROVE  \E x \in S : \A y \in S : x <= y
<1>1. PICK x \in S : \A y \in S : ~(<<y, x>> \in OpToRel(<, Nat))
  BY WFMin, NatLessThanWellFounded
<1>2. ASSUME NEW y \in S PROVE x <= y
  <2>1. CASE y < x
    <3>1. <<y, x>> \in OpToRel(<, Nat)
      BY <2>1 DEF OpToRel
    <3>2. QED
      BY <1>1, <3>1
  <2>2. QED
    BY <2>1
<1>3. QED
  BY <1>2

LEMMA LeastIsOne ==
  ASSUME NEW S \in SUBSET Nat, S # {}
  PROVE  Min(S) \in S
BY LeastExists DEF Min

LEMMA GreatestIsOne ==
  ASSUME NEW n \in Nat, NEW S \in SUBSET (0..n), S # {}
  PROVE  Max(S) \in S
<1> DEFINE T == {n - x : x \in S}
<1>1. T \in SUBSET Nat /\ T # {}
  <2>1. ASSUME NEW x \in S PROVE n - x \in Nat
    OBVIOUS
  <2>2. QED
    BY <2>1
<1>2. PICK y \in T : \A z \in T : y <= z
  BY <1>1, LeastExists
<1>3. PICK x \in S : y = n - x
  BY <1>2
<1>4. ASSUME NEW z \in S PROVE x >= z
  <2>1. n - z \in T
    OBVIOUS
  <2>2. n - x <= n - z
    BY <1>2, <1>3, <2>1
  <2>3. QED
    BY <2>2
<1>5. QED
  BY <1>4 DEF Max

LEMMA FreshFactIsFree ==
  ASSUME Room
  PROVE  FreshFact \in Facts /\ fact[FreshFact].status = "absent"
<1>1. {f \in Facts : fact[f].status = "absent"} \in SUBSET Nat
  BY CareerAssumption DEF Facts
<1>2. QED
  BY <1>1, LeastIsOne DEF Room, FreshFact

LEMMA SourceOfACareer ==
  ASSUME NEW t \in OpenTabs, snapshot[t].sources \in Nat, CareerSources(t) # {}
  PROVE  Max(CareerSources(t)) \in 1..snapshot[t].sources
<1>1. CareerSources(t) \in SUBSET (1..snapshot[t].sources)
  BY DEF CareerSources
<1>2. CareerSources(t) \in SUBSET (0..snapshot[t].sources)
  BY <1>1
<1>3. QED
  BY <1>1, <1>2, GreatestIsOne

-----------------------------------------------------------------------------
\* What happens to the tables: a fact that is decided on is raised and keeps who
\* suggested it, and what is agreed or has succeeded remains so.
FactsForward ==
  \A f \in Facts :
    \/ fact'[f] = fact[f]
    \/ /\ fact'[f].revision = fact[f].revision + 1
       /\ fact[f].revision > 0 =>
            fact'[f].preference = fact[f].preference /\ fact'[f].by = fact[f].by

Forward ==
  /\ FactsForward
  /\ Len(sources) <= Len(sources')
  /\ agreed \subseteq agreed'
  /\ \A o \in Organizations : organization[o].state = "succeeded" =>
                              organization'[o] = organization[o]

LEMMA Still ==
  ASSUME CareerTypeOK, UNCHANGED careerTables, agreed \subseteq agreed'
  PROVE  Forward
BY DEF Forward, FactsForward, careerTables, CareerTypeOK

LEMMA KnowsItself ==
  ASSUME CareerTypeOK, RowInv, NEW f \in Facts
  PROVE  Knows(fact[f], f)
<1>1. fact[f] \in FactRows
  BY DEF CareerTypeOK
<1>2. QED
  BY <1>1 DEF RowInv, Knows, FactRows

LEMMA KnowsKept ==
  ASSUME CareerTypeOK, CareerTypeOK', Forward, NEW f \in Facts, NEW row \in FactRows, Knows(row, f)
  PROVE  Knows(row, f)'
<1>1. fact[f] \in FactRows /\ fact'[f] \in FactRows
  BY DEF CareerTypeOK
<1>2. CASE fact'[f] = fact[f]
  BY <1>2 DEF Knows
<1>3. CASE /\ fact'[f].revision = fact[f].revision + 1
           /\ fact[f].revision > 0 =>
                fact'[f].preference = fact[f].preference /\ fact'[f].by = fact[f].by
  BY <1>1, <1>3 DEF Knows, FactRows
<1>4. QED
  BY <1>2, <1>3 DEF Forward, FactsForward

LEMMA ReviewedKept ==
  ASSUME CareerTypeOK, Forward, NEW f \in Facts, fact[f].revision > 0
  PROVE  /\ fact'[f].revision > 0 /\ fact'[f].preference = fact[f].preference
         /\ Vouched(f) => Vouched(f)'
         /\ Reviewed(f) => Reviewed(f)'
<1>1. fact[f] \in FactRows
  BY DEF CareerTypeOK
<1>2. /\ fact'[f].revision > 0 /\ fact'[f].preference = fact[f].preference
      /\ fact'[f].by = fact[f].by
  BY <1>1 DEF Forward, FactsForward, FactRows
<1>3. Vouched(f) => Vouched(f)'
  BY <1>2 DEF Vouched, Forward
<1>4. QED
  BY <1>2, <1>3 DEF Reviewed, Forward

LEMMA RequestKept ==
  ASSUME CareerTypeOK, Forward, NEW c \in TabRequests, RequestOK(c)
  PROVE  RequestOK(c)'
<1>1. Len(sources) \in Nat /\ Len(sources)' \in Nat /\ Len(sources) <= Len(sources)'
  BY DEF CareerTypeOK, Forward
<1>2. ASSUME c.kind \in Outcomes
      PROVE  fact'[c.fact].revision > 0 /\ (c.kind = "confirm" => Reviewed(c.fact)')
  BY <1>2, ReviewedKept DEF RequestOK
<1>3. c.kind = "confirm" => c.kind \in Outcomes
  BY DEF Outcomes
<1>4. QED
  BY <1>1, <1>2, <1>3 DEF RequestOK

LEMMA WorkKept ==
  ASSUME CareerTypeOK, Forward, NEW c \in TabRequests, NEW w \in Works, WorkOK(w, c)
  PROVE  WorkOK(w, c)'
<1>1. Len(sources) \in Nat /\ Len(sources)' \in Nat /\ Len(sources) <= Len(sources)'
  BY DEF CareerTypeOK, Forward
<1>2. ReviewOK(w, c) => ReviewOK(w, c)'
  <2>1. ASSUME NEW f \in w.left, ReviewOK(w, c)
        PROVE  fact'[f].revision > 0 /\ (f \notin w.out => Reviewed(f)')
    <3>1. f \in Facts
      BY DEF Works
    <3>2. QED
      BY <2>1, <3>1, ReviewedKept DEF ReviewOK
  <2>2. QED
    BY <2>1 DEF ReviewOK
<1>3. PreferencesOK(w, c) => PreferencesOK(w, c)'
  BY <1>1, ReviewedKept DEF PreferencesOK
<1>4. QED
  BY <1>2, <1>3 DEF WorkOK

\* What a step of one tab, or of none, has to show.
LEMMA TablesKept ==
  ASSUME CareerInv, Forward, snapshot' = snapshot, CareerTypeOK'
  PROVE  SnapshotInv'
<1>1. ASSUME NEW t \in OpenTabs, NEW f \in Facts PROVE Knows(snapshot[t].fact[f], f)'
  <2>1. snapshot[t].fact[f] \in FactRows
    BY DEF CareerInv, ShapeOK
  <2>2. Knows(snapshot[t].fact[f], f)
    BY DEF CareerInv, SnapshotInv
  <2> DEFINE row == snapshot[t].fact[f]
  <2>3. row \in FactRows /\ Knows(row, f) /\ row' = row
    BY <2>1, <2>2
  <2>4. QED
    BY <2>3, KnowsKept DEF CareerInv, Knows
<1>2. QED
  BY <1>1 DEF SnapshotInv, CareerInv, Forward

LEMMA TabKeeps ==
  ASSUME CareerInv, Forward, NEW t \in OpenTabs, CareerTypeOK', ShapeOK', RowInv', SnapshotInv',
         VerifiedWasReviewed',
         \A u \in OpenTabs \ {t} : request'[u] = request[u] /\ work'[u] = work[u],
         RequestOK(request[t])', WorkOK(work[t], request[t])'
  PROVE  CareerInv'
<1>1. ASSUME NEW u \in OpenTabs \ {t}
      PROVE  RequestOK(request[u])' /\ WorkOK(work[u], request[u])'
  <2>1. /\ request[u] \in TabRequests /\ work[u] \in Works /\ request'[u] = request[u] /\ work'[u] = work[u]
        /\ RequestOK(request[u]) /\ WorkOK(work[u], request[u]) /\ CareerTypeOK
    BY DEF CareerInv, CareerTypeOK, RequestInv, WorkInv
  <2> DEFINE c == request[u]
             w == work[u]
  <2>2. RequestOK(c)' /\ WorkOK(w, c)'
    BY <2>1, RequestKept, WorkKept
  <2>3. QED
    BY <2>2
<1>2. RequestInv' /\ WorkInv'
  BY <1>1 DEF RequestInv, WorkInv
<1>3. QED
  BY <1>2 DEF CareerInv

\* A step that leaves the tables and the snapshots alone.
LEMMA QuietKeeps ==
  ASSUME CareerInv, UNCHANGED <<careerTables, snapshot>>, NEW t \in OpenTabs,
         out' \in [OpenTabs -> SUBSET Facts], deeds' \in 0..MaxDeeds,
         agreed \subseteq agreed', agreed' \subseteq Facts \X (0..3),
         NEW c \in TabRequests, request' = [request EXCEPT ![t] = c],
         NEW w \in Works, work' = [work EXCEPT ![t] = w],
         RequestOK(request[t])', WorkOK(work[t], request[t])'
  PROVE  CareerInv'
<1>1. CareerTypeOK /\ ShapeOK /\ request \in [OpenTabs -> TabRequests] /\ work \in [OpenTabs -> Works]
  BY DEF CareerInv, CareerTypeOK
<1>2. Forward
  BY <1>1, Still
<1>3. /\ request' \in [OpenTabs -> TabRequests] /\ request'[t] = c
      /\ work' \in [OpenTabs -> Works] /\ work'[t] = w
      /\ \A u \in OpenTabs \ {t} : request'[u] = request[u] /\ work'[u] = work[u]
  BY <1>1
<1>4. CareerTypeOK' /\ ShapeOK'
  BY <1>1, <1>3 DEF CareerTypeOK, ShapeOK, careerTables
<1>5. RowInv' /\ SnapshotInv'
  <2>1. RowInv'
    BY DEF CareerInv, RowInv, careerTables
  <2>2. QED
    BY <1>2, <1>4, <2>1, TablesKept
<1>6. VerifiedWasReviewed'
  BY DEF CareerInv, VerifiedWasReviewed, careerTables
<1>7. QED
  BY <1>2, <1>3, <1>4, <1>5, <1>6, TabKeeps

LEMMA CareerTyped ==
  ASSUME CareerInv, NEW t \in OpenTabs
  PROVE  /\ request[t] \in TabRequests /\ work[t] \in Works /\ RequestOK(request[t]) /\ WorkOK(work[t], request[t])
         /\ out \in [OpenTabs -> SUBSET Facts] /\ deeds \in 0..MaxDeeds
         /\ agreed \subseteq Facts \X (0..3) /\ sources \in Seq(Purposes) /\ Len(sources) \in Nat
         /\ snapshot[t].sources \in 0..Len(sources) /\ snapshot[t].fact \in [Facts -> FactRows]
         /\ fact \in [Facts -> FactRows] /\ organization \in [Organizations -> Organization]
         /\ request \in [OpenTabs -> TabRequests] /\ work \in [OpenTabs -> Works]
         /\ snapshot[t].organization \in [Organizations -> Organization]
BY DEF CareerInv, CareerTypeOK, ShapeOK, RequestInv, WorkInv

LEMMA Clicked ==
  ASSUME CareerInv, NEW t \in OpenTabs, Click(t)
  PROVE  deeds' \in 0..MaxDeeds /\ request[t].step = "free" /\ request[t].kind = "none"
<1>1. WorkOK(work[t], request[t]) /\ RequestOK(request[t]) /\ deeds \in 0..MaxDeeds
  BY CareerTyped
<1>2. QED
  BY <1>1, CareerAssumption DEF Click, WorkOK, RequestOK

\* A request is sent, and nothing else.
LEMMA RequestKeeps ==
  ASSUME CareerInv, UNCHANGED <<careerTables, snapshot, out>>, NEW t \in OpenTabs, Click(t),
         agreed \subseteq agreed', agreed' \subseteq Facts \X (0..3),
         NEW c \in TabRequests, Submit(t, c), c.step = "sent", RequestOK(request[t])'
  PROVE  CareerInv'
<1>1. /\ work \in [OpenTabs -> Works] /\ out \in [OpenTabs -> SUBSET Facts]
      /\ work[t] \in Works /\ deeds' \in 0..MaxDeeds
  BY CareerTyped, Clicked
<1> DEFINE w == [work[t] EXCEPT !.kind = "one"]
<1>2. w \in Works /\ w.kind = "one"
  BY <1>1 DEF Works
<1>3. work' = [work EXCEPT ![t] = w] /\ request' = [request EXCEPT ![t] = c]
  BY <1>1 DEF Submit
<1> HIDE DEF w
<1>4. WorkOK(work[t], request[t])'
  <2>1. work'[t] = w /\ request'[t] = c
    BY <1>1, <1>3, CareerTyped
  <2>2. QED
    BY <1>2, <2>1 DEF WorkOK
<1>5. QED
  BY <1>1, <1>2, <1>3, <1>4, QuietKeeps

\* What a tab suggests is in its first revision there, and vouched for.
LEMMA SuggestedIsVouched ==
  ASSUME CareerInv, NEW t \in OpenTabs, NEW f \in Suggested(t)
  PROVE  /\ f \in Facts /\ snapshot[t].fact[f].revision = 1 /\ fact[f].revision > 0
         /\ Vouched(f)
<1>1. /\ f \in Facts /\ snapshot[t].fact[f] \in FactRows /\ Knows(snapshot[t].fact[f], f)
      /\ snapshot[t].fact[f].status = "proposed" /\ fact[f] \in FactRows
      /\ snapshot[t].fact[f].by \notin Organizations \/ f \in Organized(t)
  BY DEF Suggested, CareerInv, SnapshotInv, CareerTypeOK
<1>2. /\ snapshot[t].fact[f].revision = 1 /\ fact[f].revision > 0
      /\ snapshot[t].fact[f].by = fact[f].by
  BY <1>1 DEF Knows, FactRows
<1>3. Vouched(f)
  <2>1. CASE snapshot[t].fact[f].by \notin Organizations
    BY <1>2, <2>1 DEF Vouched
  <2>2. CASE f \in Organized(t)
    <3>1. PICK o \in Organizations : /\ snapshot[t].organization[o].state = "succeeded"
                                     /\ f \in snapshot[t].organization[o].results
      BY <2>2 DEF Organized
    <3>2. snapshot[t].organization[o] = organization[o]
      BY <3>1 DEF CareerInv, SnapshotInv
    <3>3. QED
      BY <3>1, <3>2 DEF Vouched
  <2>3. QED
    BY <1>1, <2>1, <2>2
<1>4. QED
  BY <1>1, <1>2, <1>3

\* A request as it is sent.
LEMMA NoRequestTyped == NoRequest \in TabRequests /\ \A f \in Facts : f \in 0..MaxFacts
<1>1. 0 \in 0..MaxFacts /\ \A f \in Facts : f \in 0..MaxFacts
  BY CareerAssumption DEF Facts
<1>2. QED
  BY <1>1 DEF NoRequest, TabRequests

Sent == {"capture", "entry", "propose", "correct"} \cup Outcomes

LEMMA CommandTyped ==
  ASSUME NEW kind \in Sent
  PROVE  /\ [NoRequest EXCEPT !.step = "sent", !.kind = kind] \in TabRequests
         /\ [NoRequest EXCEPT !.step = "sent", !.kind = kind, !.preference = TRUE] \in TabRequests
BY NoRequestTyped DEF TabRequests, Sent

LEMMA ProposalTyped ==
  ASSUME NEW s \in Nat
  PROVE  [NoRequest EXCEPT !.step = "sent", !.kind = "propose", !.source = s] \in TabRequests
BY NoRequestTyped DEF TabRequests

LEMMA DecisionTyped ==
  ASSUME NEW kind \in Sent, NEW f \in Facts, NEW revision \in 0..3
  PROVE  [NoRequest EXCEPT !.step = "sent", !.kind = kind, !.fact = f, !.revision = revision] \in TabRequests
BY NoRequestTyped DEF TabRequests, Sent

-----------------------------------------------------------------------------
\* Snapshots.
LEMMA SeeFactsKeeps ==
  ASSUME CareerInv, NEW t \in OpenTabs, SeeFacts(t)
  PROVE  CareerInv'
<1>1. /\ UNCHANGED <<sources, fact, organization, out, work, request, agreed, deeds>>
      /\ snapshot' = [snapshot EXCEPT ![t].sources = Len(sources), ![t].fact = fact]
      /\ CareerTypeOK /\ ShapeOK /\ RowInv /\ Len(sources) \in Nat /\ fact \in [Facts -> FactRows]
  BY DEF SeeFacts, CareerInv, CareerTypeOK, careerTables
<1>2. /\ snapshot'[t].sources = Len(sources) /\ snapshot'[t].fact = fact
      /\ \A u \in OpenTabs : snapshot'[u].organization = snapshot[u].organization
      /\ \A u \in OpenTabs \ {t} : snapshot'[u] = snapshot[u]
  BY <1>1 DEF ShapeOK
<1>3. CareerTypeOK'
  <2>1. ASSUME NEW u \in OpenTabs
        PROVE  snapshot'[u].sources \in 0..Len(sources') /\ snapshot'[u].fact \in [Facts -> FactRows]
    <3>1. CASE u = t
      <4>1. snapshot'[u].sources = Len(sources) /\ snapshot'[u].fact = fact /\ sources' = sources
        BY <1>1, <1>2, <3>1
      <4>2. Len(sources) \in 0..Len(sources)
        BY <1>1
      <4>3. QED
        BY <1>1, <4>1, <4>2, Zenon
    <3>2. CASE u # t
      BY <1>1, <1>2, <3>2 DEF CareerTypeOK, careerTables
    <3>3. QED
      BY <3>1, <3>2
  <2>2. QED
    BY <1>1, <2>1 DEF CareerTypeOK, careerTables
<1>4. ShapeOK'
  BY <1>1 DEF ShapeOK, careerTables
<1>5. SnapshotInv'
  <2>1. ASSUME NEW u \in OpenTabs, NEW f \in Facts PROVE Knows(snapshot[u].fact[f], f)'
    <3>1. CASE u = t
      <4>1. Knows(fact[f], f)
        BY <1>1, KnowsItself
      <4>2. snapshot'[u].fact[f] = fact[f] /\ fact' = fact
        BY <1>1, <1>2, <3>1 DEF careerTables
      <4>3. QED
        BY <4>1, <4>2 DEF Knows
    <3>2. CASE u # t
      <4>1. Knows(snapshot[u].fact[f], f) /\ snapshot'[u].fact[f] = snapshot[u].fact[f] /\ fact' = fact
        BY <1>1, <1>2, <3>2 DEF CareerInv, SnapshotInv
      <4>2. QED
        BY <4>1 DEF Knows
    <3>3. QED
      BY <3>1, <3>2
  <2>2. QED
    BY <1>1, <1>2, <2>1 DEF SnapshotInv, CareerInv, careerTables
<1>6. RowInv' /\ VerifiedWasReviewed'
  BY <1>1 DEF CareerInv, RowInv, VerifiedWasReviewed, careerTables
<1>7. RequestInv' /\ WorkInv'
  BY <1>1 DEF CareerInv, RequestInv, WorkInv, RequestOK, WorkOK, ReviewOK, PreferencesOK, Reviewed, Vouched,
              careerTables
<1>8. QED
  BY <1>3, <1>4, <1>5, <1>6, <1>7 DEF CareerInv

LEMMA SeeOrganizationsKeeps ==
  ASSUME CareerInv, NEW t \in OpenTabs, SeeOrganizations(t)
  PROVE  CareerInv'
<1>1. /\ UNCHANGED <<careerTables, out, work, request, agreed, deeds>>
      /\ snapshot' = [snapshot EXCEPT ![t].organization = organization]
      /\ CareerTypeOK /\ ShapeOK /\ organization \in [Organizations -> Organization]
  BY DEF SeeOrganizations, CareerInv, ShapeOK
<1>2. /\ snapshot'[t].organization = organization
      /\ \A u \in OpenTabs : snapshot'[u].fact = snapshot[u].fact /\ snapshot'[u].sources = snapshot[u].sources
      /\ \A u \in OpenTabs \ {t} : snapshot'[u] = snapshot[u]
  BY <1>1 DEF ShapeOK
<1>3. CareerTypeOK'
  BY <1>1, <1>2 DEF CareerTypeOK, careerTables
<1>4. ShapeOK'
  BY <1>1 DEF ShapeOK, careerTables
<1>5. SnapshotInv'
  BY <1>1, <1>2 DEF SnapshotInv, CareerInv, Knows, careerTables
<1>6. RowInv' /\ VerifiedWasReviewed'
  BY <1>1 DEF CareerInv, RowInv, VerifiedWasReviewed, careerTables
<1>7. RequestInv' /\ WorkInv'
  BY <1>1 DEF CareerInv, RequestInv, WorkInv, RequestOK, WorkOK, ReviewOK, PreferencesOK, Reviewed, Vouched,
              careerTables
<1>8. QED
  BY <1>3, <1>4, <1>5, <1>6, <1>7 DEF CareerInv

-----------------------------------------------------------------------------
\* What the user does.
LEMMA AddKeeps ==
  ASSUME CareerInv, NEW t \in OpenTabs, AddMaterial(t) \/ AddEntry(t)
  PROVE  CareerInv'
<1>1. PICK kind \in {"capture", "entry"} :
        Submit(t, [NoRequest EXCEPT !.step = "sent", !.kind = kind])
  BY DEF AddMaterial, AddEntry
<1>2. UNCHANGED <<careerTables, snapshot, out, agreed>> /\ Click(t)
  BY DEF AddMaterial, AddEntry
<1> DEFINE c == [NoRequest EXCEPT !.step = "sent", !.kind = kind]
<1>3. c \in TabRequests /\ c.step = "sent" /\ c.kind = kind
  <2>1. c \in TabRequests
    BY CommandTyped DEF Sent
  <2>2. QED
    BY <2>1 DEF NoRequest
<1>4. Submit(t, c)
  BY <1>1
<1> HIDE DEF c
<1>5. request'[t] = c
  BY <1>4, CareerTyped DEF Submit
<1>6. RequestOK(request[t])'
  BY <1>3, <1>5 DEF RequestOK, Outcomes
<1>7. agreed \subseteq agreed' /\ agreed' \subseteq Facts \X (0..3)
  BY <1>2, CareerTyped
<1>8. QED
  BY <1>2, <1>3, <1>4, <1>6, <1>7, RequestKeeps

LEMMA ProposeStatementKeeps ==
  ASSUME CareerInv, NEW t \in OpenTabs, ProposeStatement(t)
  PROVE  CareerInv'
<1>1. PICK s \in CareerSources(t) :
        Submit(t, [NoRequest EXCEPT !.step = "sent", !.kind = "propose", !.source = s])
  BY DEF ProposeStatement
<1>2. UNCHANGED <<careerTables, snapshot, out, agreed>> /\ Click(t)
  BY DEF ProposeStatement
<1> DEFINE c == [NoRequest EXCEPT !.step = "sent", !.kind = "propose", !.source = s]
<1>3. s \in 1..Len(sources)
  <2>1. s \in 1..snapshot[t].sources /\ snapshot[t].sources \in 0..Len(sources) /\ Len(sources) \in Nat
    BY CareerTyped DEF CareerSources
  <2>2. QED
    BY <2>1
<1>4. c \in TabRequests /\ c.step = "sent" /\ c.kind = "propose" /\ c.source = s
  <2>1. s \in Nat
    BY <1>3, CareerTyped
  <2>2. c \in TabRequests
    BY <2>1, ProposalTyped
  <2>3. QED
    BY <2>2 DEF NoRequest
<1>5. Submit(t, c)
  BY <1>1
<1> HIDE DEF c
<1>6. request'[t] = c
  BY <1>5, CareerTyped DEF Submit
<1>7. RequestOK(request[t])'
  BY <1>2, <1>3, <1>4, <1>6 DEF RequestOK, Outcomes, careerTables
<1>8. agreed \subseteq agreed' /\ agreed' \subseteq Facts \X (0..3)
  BY <1>2, CareerTyped
<1>9. QED
  BY <1>2, <1>4, <1>5, <1>7, <1>8, RequestKeeps

LEMMA LeaveOutKeeps ==
  ASSUME CareerInv, NEW t \in OpenTabs, LeaveOut(t)
  PROVE  CareerInv'
<1>1. /\ UNCHANGED <<careerTables, snapshot, work, request, agreed>>
      /\ request[t] \in TabRequests /\ work[t] \in Works /\ RequestOK(request[t]) /\ WorkOK(work[t], request[t])
      /\ agreed \subseteq Facts \X (0..3) /\ CareerTypeOK
  BY CareerTyped DEF LeaveOut, CareerInv
<1>2. deeds' \in 0..MaxDeeds
  BY CareerTyped, CareerAssumption DEF LeaveOut
<1>3. out' \in [OpenTabs -> SUBSET Facts]
  <2>1. PICK f \in Suggested(t) : out' = [out EXCEPT ![t] = @ \cup {f}]
    BY DEF LeaveOut
  <2>2. f \in Facts /\ out \in [OpenTabs -> SUBSET Facts]
    BY CareerTyped DEF Suggested
  <2>3. QED
    BY <2>1, <2>2
<1>4. request' = [request EXCEPT ![t] = request[t]] /\ work' = [work EXCEPT ![t] = work[t]]
  BY <1>1, CareerTyped
<1>5. RequestOK(request[t])' /\ WorkOK(work[t], request[t])'
  BY <1>1 DEF RequestOK, WorkOK, ReviewOK, PreferencesOK, Reviewed, Vouched, careerTables
<1>6. QED
  BY <1>1, <1>2, <1>3, <1>4, <1>5, QuietKeeps

\* What is reviewed was suggested, and what is left in was agreed to.
LEMMA ReviewKeeps ==
  ASSUME CareerInv, NEW t \in OpenTabs, Review(t)
  PROVE  CareerInv'
<1> DEFINE w == [NoWork EXCEPT !.kind = "review", !.left = Suggested(t),
                   !.out = out[t] \cap Suggested(t),
                   !.shown = [f \in Facts |-> IF f \in Suggested(t) THEN snapshot[t].fact[f].revision
                                              ELSE 0]]
<1>1. /\ UNCHANGED <<careerTables, snapshot, out, request>> /\ Click(t) /\ Suggested(t) # {}
      /\ work' = [work EXCEPT ![t] = w]
      /\ agreed' = agreed \cup {<<f, snapshot[t].fact[f].revision>> : f \in Suggested(t) \ out[t]}
  BY DEF Review
<1>2. \A f \in Suggested(t) : /\ f \in Facts /\ snapshot[t].fact[f].revision = 1
                              /\ fact[f].revision > 0 /\ Vouched(f)
  BY SuggestedIsVouched
<1>3. /\ w \in Works /\ w.kind = "review" /\ w.left = Suggested(t)
      /\ w.out = out[t] \cap Suggested(t) /\ \A f \in Suggested(t) : w.shown[f] = 1
  <2>1. [f \in Facts |-> IF f \in Suggested(t) THEN snapshot[t].fact[f].revision ELSE 0]
          \in [Facts -> 0..3]
    BY <1>2
  <2>2. 0 \in 0..Wishes
    BY CareerAssumption
  <2>3. QED
    BY <1>2, <2>1, <2>2 DEF Works, NoWork
<1> HIDE DEF w
<1>4. agreed \subseteq agreed' /\ agreed' \subseteq Facts \X (0..3)
  BY <1>1, <1>2, CareerTyped
<1>5. deeds' \in 0..MaxDeeds /\ request[t].step = "free" /\ request[t].kind = "none"
  BY <1>1, Clicked
<1>6. request' = [request EXCEPT ![t] = request[t]] /\ request[t] \in TabRequests /\ work'[t] = w /\ request'[t] = request[t]
  BY <1>1, CareerTyped
<1>7. RequestOK(request[t])'
  BY <1>5, <1>6 DEF RequestOK, Outcomes
<1>8. WorkOK(work[t], request[t])'
  <2>1. ASSUME NEW f \in Suggested(t), f \notin w.out PROVE Reviewed(f)'
    <3>1. <<f, 1>> \in agreed'
      BY <1>1, <1>2, <1>3, <2>1
    <3>2. QED
      BY <1>1, <1>2, <3>1 DEF Reviewed, Vouched, careerTables
  <2>2. ReviewOK(work[t], request[t])'
    BY <1>1, <1>2, <1>3, <1>5, <1>6, <2>1 DEF ReviewOK, careerTables
  <2>3. QED
    BY <1>3, <1>5, <1>6, <2>2 DEF WorkOK
<1>9. out' \in [OpenTabs -> SUBSET Facts]
  BY <1>1, CareerTyped
<1>10. QED
  BY <1>1, <1>3, <1>4, <1>5, <1>6, <1>7, <1>8, <1>9, QuietKeeps

LEMMA DecideKeeps ==
  ASSUME CareerInv, NEW t \in OpenTabs, NEW f \in Facts, NEW outcome \in Outcomes,
         Decide(t, f, outcome)
  PROVE  CareerInv'
<1> DEFINE c == [NoRequest EXCEPT !.step = "sent", !.kind = outcome, !.fact = f,
                               !.revision = snapshot[t].fact[f].revision]
<1>1. /\ UNCHANGED <<careerTables, snapshot, out>> /\ Click(t) /\ f \in Suggested(t) /\ Submit(t, c)
      /\ agreed' = IF outcome = "confirm" THEN agreed \cup {<<f, snapshot[t].fact[f].revision>>}
                                          ELSE agreed
  BY DEF Decide
<1>2. snapshot[t].fact[f].revision = 1 /\ fact[f].revision > 0 /\ Vouched(f)
  BY <1>1, SuggestedIsVouched
<1>3. c \in TabRequests /\ c.step = "sent" /\ c.kind = outcome /\ c.fact = f /\ c.revision = 1
  <2>1. snapshot[t].fact[f].revision \in 0..3 /\ outcome \in Sent
    BY <1>2 DEF Sent
  <2>2. c \in TabRequests
    BY <2>1, DecisionTyped
  <2>3. QED
    BY <1>2, <2>2 DEF NoRequest
<1> HIDE DEF c
<1>4. agreed \subseteq agreed' /\ agreed' \subseteq Facts \X (0..3)
  BY <1>1, <1>2, CareerTyped
<1>5. request'[t] = c
  BY <1>1, CareerTyped DEF Submit
<1>6. outcome = "confirm" => Reviewed(f)'
  BY <1>1, <1>2 DEF Reviewed, Vouched, careerTables
<1>7. RequestOK(request[t])'
  BY <1>1, <1>2, <1>3, <1>5, <1>6 DEF RequestOK, Outcomes, careerTables
<1>8. QED
  BY <1>1, <1>3, <1>4, <1>7, RequestKeeps

LEMMA CorrectKeeps ==
  ASSUME CareerInv, NEW t \in OpenTabs, NEW f \in Facts, Correct(t, f)
  PROVE  CareerInv'
<1> DEFINE revision == snapshot[t].fact[f].revision
           c == [NoRequest EXCEPT !.step = "sent", !.kind = "correct", !.fact = f,
                               !.revision = revision]
<1>1. /\ UNCHANGED <<careerTables, snapshot, out, agreed>> /\ Click(t) /\ Submit(t, c)
      /\ f \in Suggested(t) \/ snapshot[t].fact[f].status = "verified"
  BY DEF Correct
<1>2. revision \in {1, 2}
  <2>1. Knows(snapshot[t].fact[f], f)
    BY DEF CareerInv, SnapshotInv
  <2>2. QED
    BY <1>1, <2>1, SuggestedIsVouched DEF Knows
<1>3. c \in TabRequests /\ c.step = "sent" /\ c.kind = "correct" /\ c.fact = f /\ c.revision = revision
  <2>1. revision \in 0..3 /\ "correct" \in Sent
    BY <1>2 DEF Sent
  <2>2. c \in TabRequests
    BY <2>1, DecisionTyped
  <2>3. QED
    BY <2>2 DEF NoRequest
<1> HIDE DEF c
<1>4. agreed \subseteq agreed' /\ agreed' \subseteq Facts \X (0..3)
  BY <1>1, CareerTyped
<1>5. request'[t] = c
  BY <1>1, CareerTyped DEF Submit
<1>6. RequestOK(request[t])'
  BY <1>2, <1>3, <1>5 DEF RequestOK, Outcomes
<1>7. QED
  BY <1>1, <1>3, <1>4, <1>6, RequestKeeps

LEMMA UseSettingKeeps ==
  ASSUME CareerInv, NEW t \in OpenTabs, NEW f \in Facts, UseSetting(t, f)
  PROVE  CareerInv'
<1> DEFINE revision == snapshot[t].fact[f].revision
<1>1. PICK kind \in {"confirm", "correct"} :
        /\ kind = "confirm" => snapshot[t].fact[f].status = "proposed"
        /\ Submit(t, [NoRequest EXCEPT !.step = "sent", !.kind = kind, !.fact = f,
                                     !.revision = revision])
        /\ agreed' = IF kind = "confirm" THEN agreed \cup {<<f, revision>>} ELSE agreed
  BY DEF UseSetting
<1> DEFINE c == [NoRequest EXCEPT !.step = "sent", !.kind = kind, !.fact = f, !.revision = revision]
<1>2. /\ UNCHANGED <<careerTables, snapshot, out>> /\ Click(t) /\ Submit(t, c)
      /\ snapshot[t].fact[f].preference /\ snapshot[t].fact[f].status \in {"proposed", "verified"}
  BY <1>1 DEF UseSetting
<1>3. /\ revision \in {1, 2} /\ (kind = "confirm" => revision = 1)
      /\ fact[f].revision > 0 /\ fact[f].preference
  <2>1. Knows(snapshot[t].fact[f], f) /\ snapshot[t].fact[f] \in FactRows /\ fact[f] \in FactRows
    BY CareerTyped DEF CareerInv, SnapshotInv
  <2>2. snapshot[t].fact[f].status # "absent"
    BY <1>2
  <2>3. fact[f].preference
    BY <1>2, <2>1, <2>2, Zenon DEF Knows
  <2>4. QED
    BY <1>1, <1>2, <2>1, <2>3 DEF Knows, FactRows
<1>4. c \in TabRequests /\ c.step = "sent" /\ c.kind = kind /\ c.fact = f /\ c.revision = revision
  <2>1. kind \in Sent /\ revision \in 0..3
    BY <1>3 DEF Outcomes, Sent
  <2>2. c \in TabRequests
    BY <2>1, DecisionTyped
  <2>3. QED
    BY <2>2 DEF NoRequest
<1> HIDE DEF c
<1>5. agreed \subseteq agreed' /\ agreed' \subseteq Facts \X (0..3)
  BY <1>1, <1>3, CareerTyped
<1>6. request'[t] = c
  BY <1>2, CareerTyped DEF Submit
<1>7. RequestOK(request[t])'
  <2>1. Reviewed(f)' /\ fact' = fact
    BY <1>2, <1>3 DEF Reviewed, careerTables
  <2>2. QED
    BY <1>3, <1>4, <1>6, <2>1 DEF RequestOK, Outcomes
<1>8. QED
  BY <1>2, <1>4, <1>5, <1>7, RequestKeeps

LEMMA SavePreferencesKeeps ==
  ASSUME CareerInv, NEW t \in OpenTabs, SavePreferences(t)
  PROVE  CareerInv'
<1> DEFINE w == [NoWork EXCEPT !.kind = "preferences", !.wishes = Wishes]
           c == [NoRequest EXCEPT !.step = "sent", !.kind = "capture", !.preference = TRUE]
<1>1. /\ UNCHANGED <<careerTables, snapshot, out, agreed>> /\ Click(t)
      /\ work' = [work EXCEPT ![t] = w] /\ request' = [request EXCEPT ![t] = c]
  BY DEF SavePreferences
<1>2. w \in Works /\ w.kind = "preferences" /\ w.wishes = Wishes /\ Wishes > 0
  <2>1. [f \in Facts |-> 0] \in [Facts -> 0..3] /\ Wishes \in 0..Wishes /\ Wishes > 0
    BY CareerAssumption
  <2>2. QED
    BY <2>1 DEF Works, NoWork
<1>3. c \in TabRequests /\ c.step = "sent" /\ c.kind = "capture" /\ c.preference
  <2>1. c \in TabRequests
    BY CommandTyped DEF Sent
  <2>2. QED
    BY <2>1 DEF NoRequest
<1> HIDE DEF c, w
<1>4. /\ agreed \subseteq agreed' /\ agreed' \subseteq Facts \X (0..3)
      /\ request'[t] = c /\ work'[t] = w /\ out' \in [OpenTabs -> SUBSET Facts]
      /\ deeds' \in 0..MaxDeeds
  BY <1>1, CareerTyped, Clicked
<1>5. RequestOK(request[t])'
  BY <1>3, <1>4 DEF RequestOK, Outcomes
<1>6. WorkOK(work[t], request[t])'
  BY <1>2, <1>3, <1>4 DEF WorkOK, PreferencesOK
<1>7. QED
  BY <1>1, <1>2, <1>3, <1>4, <1>5, <1>6, QuietKeeps

LEMMA OrganizeKeeps ==
  ASSUME CareerInv, NEW t \in OpenTabs, NEW o \in Organizations, Organize(t, o)
  PROVE  CareerInv'
<1>1. /\ UNCHANGED <<sources, fact, snapshot, out, work, request, agreed>> /\ Click(t)
      /\ organization[o].state = "absent" /\ CareerSources(t) # {}
      /\ organization' = [organization EXCEPT ![o].state = "running",
                                              ![o].source = Max(CareerSources(t))]
      /\ CareerTypeOK /\ ShapeOK
  BY DEF Organize, CareerInv
<1>2. Max(CareerSources(t)) \in 1..Len(sources) /\ Len(sources) \in Nat
  <2>1. snapshot[t].sources \in 0..Len(sources) /\ Len(sources) \in Nat
    BY CareerTyped
  <2>2. Max(CareerSources(t)) \in 1..snapshot[t].sources
    BY <1>1, <2>1, SourceOfACareer
  <2>3. QED
    BY <2>1, <2>2
<1>3. /\ organization' \in [Organizations -> Organization]
      /\ organization'[o].source \in 1..Len(sources) /\ organization'[o].state = "running"
      /\ \A p \in Organizations \ {o} : organization'[p] = organization[p]
  <2> DEFINE s == Max(CareerSources(t))
  <2>1. s \in Nat /\ s \in 1..Len(sources)
    BY <1>2
  <2> HIDE DEF s
  <2>2. organization' = [organization EXCEPT ![o].state = "running", ![o].source = s]
    BY <1>1 DEF s
  <2>3. organization \in [Organizations -> Organization]
    BY <1>1 DEF ShapeOK
  <2>4. /\ organization'[o] = [organization[o] EXCEPT !.state = "running", !.source = s]
        /\ \A p \in Organizations \ {o} : organization'[p] = organization[p]
        /\ DOMAIN organization' = Organizations
    BY <2>2, <2>3
  <2>5. organization'[o] \in Organization
    BY <2>1, <2>3, <2>4 DEF Organization
  <2>6. organization'[o].source = s /\ organization'[o].state = "running"
    BY <2>3, <2>4 DEF Organization
  <2>7. organization' \in [Organizations -> Organization]
    BY <2>2, <2>3, <2>4, <2>5
  <2>8. QED
    BY <2>1, <2>4, <2>6, <2>7
<1>4. deeds' \in 0..MaxDeeds /\ Len(sources)' = Len(sources)
  BY <1>1, Clicked
<1>5. CareerTypeOK'
  <2>1. ASSUME NEW p \in Organizations
        PROVE  /\ organization'[p].state \in {"absent", "running", "succeeded", "failed"}
               /\ organization'[p].source \in 0..Len(sources)
               /\ organization'[p].results \subseteq Facts
    BY <1>1, <1>2, <1>3 DEF CareerTypeOK, Organization
  <2>2. QED
    BY <1>1, <1>4, <2>1 DEF CareerTypeOK
<1>6. ShapeOK' /\ RowInv'
  BY <1>1, <1>3 DEF ShapeOK, CareerInv, RowInv
<1>7. Forward
  BY <1>1, <1>3, <1>4, CareerTyped DEF Forward, FactsForward
<1>8. SnapshotInv'
  BY <1>1, <1>5, <1>7, TablesKept
<1>9. VerifiedWasReviewed'
  BY <1>1, <1>3 DEF CareerInv, VerifiedWasReviewed
<1>10. RequestOK(request[t])' /\ WorkOK(work[t], request[t])'
  <2> DEFINE c == request[t]
             w == work[t]
  <2>1. c \in TabRequests /\ w \in Works /\ RequestOK(c) /\ WorkOK(w, c) /\ c' = c /\ w' = w
    BY <1>1, CareerTyped
  <2>2. QED
    BY <1>1, <1>7, <2>1, RequestKept, WorkKept
<1>11. QED
  BY <1>1, <1>5, <1>6, <1>7, <1>8, <1>9, <1>10, TabKeeps

-----------------------------------------------------------------------------
\* Sequences of requests.  They touch neither the tables nor the snapshots.
LEMMA SequenceKeeps ==
  ASSUME CareerInv, UNCHANGED <<careerTables, snapshot, agreed>>, NEW t \in OpenTabs,
         out' \in [OpenTabs -> SUBSET Facts], deeds' \in 0..MaxDeeds,
         NEW c \in TabRequests, request' = [request EXCEPT ![t] = c],
         NEW w \in Works, work' = [work EXCEPT ![t] = w],
         RequestOK(request[t])', WorkOK(work[t], request[t])'
  PROVE  CareerInv'
<1>1. agreed \subseteq agreed' /\ agreed' \subseteq Facts \X (0..3)
  BY CareerTyped
<1>2. UNCHANGED <<careerTables, snapshot>>
  OBVIOUS
<1>3. QED
  BY <1>1, <1>2, QuietKeeps, Zenon

LEMMA NextTyped ==
  ASSUME NEW kind \in Sent, NEW f \in Facts
  PROVE  [NoRequest EXCEPT !.step = "sent", !.fact = f, !.revision = 1, !.kind = kind] \in TabRequests
<1> DEFINE c == [NoRequest EXCEPT !.step = "sent", !.kind = kind, !.fact = f, !.revision = 1]
<1>1. 1 \in 0..3
  OBVIOUS
<1>2. c \in TabRequests
  BY <1>1, DecisionTyped
<1>3. [NoRequest EXCEPT !.step = "sent", !.fact = f, !.revision = 1, !.kind = kind] = c
  BY DEF NoRequest
<1>4. QED
  BY <1>2, <1>3

\* What was reviewed stays so while nothing changes.
LEMMA ReviewedStays ==
  ASSUME UNCHANGED <<fact, organization, agreed>>, NEW f, Reviewed(f)
  PROVE  Reviewed(f)'
BY DEF Reviewed, Vouched

LEMMA NextFactKeeps ==
  ASSUME CareerInv, NEW t \in OpenTabs, NextFact(t)
  PROVE  CareerInv'
<1>1. /\ UNCHANGED <<careerTables, snapshot, out, work, agreed, deeds>>
      /\ work[t].kind = "review" /\ WorkOK(work[t], request[t]) /\ work[t] \in Works
  BY CareerTyped DEF NextFact
<1>2. Min(work[t].left) \in work[t].left /\ Min(work[t].left) \in Facts
  <2>1. work[t].left \in SUBSET Facts /\ work[t].left # {} /\ Facts \in SUBSET Nat
    BY <1>1, CareerAssumption DEF WorkOK, ReviewOK, Works, Facts
  <2>2. work[t].left \in SUBSET Nat
    BY <2>1
  <2>3. QED
    BY <2>1, <2>2, LeastIsOne
<1>3. PICK f \in Facts : f = Min(work[t].left)
  BY <1>2
<1>4. /\ fact[f].revision > 0 /\ work[t].shown[f] = 1 /\ (f \notin work[t].out => Reviewed(f))
      /\ f \in work[t].left
  BY <1>1, <1>2, <1>3 DEF WorkOK, ReviewOK
<1>5. PICK kind \in {"cannot_confirm", "confirm"} :
        kind = IF f \in work[t].out THEN "cannot_confirm" ELSE "confirm"
  OBVIOUS
<1>6. kind = "confirm" => Reviewed(f)
  BY <1>4, <1>5
<1> DEFINE c == [NoRequest EXCEPT !.step = "sent", !.fact = f, !.revision = 1, !.kind = kind]
<1>7. request' = [request EXCEPT ![t] = c]
  BY <1>3, <1>4, <1>5 DEF NextFact
<1>8. c \in TabRequests /\ c.step = "sent" /\ c.kind = kind /\ c.fact = f /\ c.revision = 1
  <2>1. kind \in Sent
    BY DEF Sent, Outcomes
  <2>2. c \in TabRequests
    BY <2>1, NextTyped
  <2>3. QED
    BY <2>2 DEF NoRequest
<1> HIDE DEF c
<1>9. /\ request'[t] = c /\ work' = [work EXCEPT ![t] = work[t]] /\ work'[t] = work[t]
      /\ out' \in [OpenTabs -> SUBSET Facts] /\ deeds' \in 0..MaxDeeds /\ fact' = fact
  BY <1>1, <1>7, CareerTyped DEF careerTables
<1>10. kind = "confirm" => Reviewed(f)'
  BY <1>1, <1>6, ReviewedStays DEF careerTables
<1>11. kind = "confirm" => Reviewed(request[t].fact)'
  BY <1>8, <1>9, <1>10 DEF Reviewed, Vouched
<1>12. RequestOK(request[t])'
  BY <1>4, <1>8, <1>9, <1>11 DEF RequestOK, Outcomes
<1>13. WorkOK(work[t], request[t])'
  <2>1. ReviewOK(work[t], request[t])'
    BY <1>1, <1>8, <1>9 DEF WorkOK, ReviewOK, Reviewed, Vouched, careerTables
  <2>2. QED
    BY <1>1, <1>8, <1>9, <2>1 DEF WorkOK
<1>14. QED
  BY <1>1, <1>7, <1>8, <1>9, <1>12, <1>13, SequenceKeeps

LEMMA NoWorkTyped == NoWork \in Works /\ NoWork.kind = "none"
<1>1. 0 \in 0..Wishes /\ [f \in Facts |-> 0] \in [Facts -> 0..3]
  BY CareerAssumption
<1>2. QED
  BY <1>1 DEF Works, NoWork

\* A tab is done with its sequence.
LEMMA DoneKeeps ==
  ASSUME CareerInv, UNCHANGED <<careerTables, snapshot, agreed, deeds>>, NEW t \in OpenTabs,
         out' \in [OpenTabs -> SUBSET Facts],
         request' = [request EXCEPT ![t] = NoRequest], work' = [work EXCEPT ![t] = NoWork]
  PROVE  CareerInv'
<1>1. request'[t] = NoRequest /\ work'[t] = NoWork /\ deeds' \in 0..MaxDeeds
  BY CareerTyped
<1>2. NoRequest \in TabRequests /\ NoWork \in Works /\ NoWork.kind = "none"
  BY NoRequestTyped, NoWorkTyped
<1>3. NoRequest.step = "free" /\ NoRequest.kind = "none"
  BY DEF NoRequest
<1>4. RequestOK(request[t])' /\ WorkOK(work[t], request[t])'
  BY <1>1, <1>2, <1>3 DEF RequestOK, WorkOK, Outcomes
<1>5. QED
  BY <1>1, <1>2, <1>4, SequenceKeeps

LEMMA FactDecidedKeeps ==
  ASSUME CareerInv, NEW t \in OpenTabs, FactDecided(t)
  PROVE  CareerInv'
<1> DEFINE left == work[t].left \ {request[t].fact}
<1>1. /\ UNCHANGED <<careerTables, snapshot, agreed, deeds>> /\ request' = [request EXCEPT ![t] = NoRequest]
      /\ work[t].kind = "review" /\ WorkOK(work[t], request[t]) /\ work[t] \in Works
      /\ out \in [OpenTabs -> SUBSET Facts]
  BY CareerTyped DEF FactDecided
<1>2. CASE left = {}
  <2>1. work' = [work EXCEPT ![t] = NoWork] /\ out' = [out EXCEPT ![t] = {}]
    BY <1>2 DEF FactDecided
  <2>2. out' \in [OpenTabs -> SUBSET Facts]
    BY <1>1, <2>1
  <2>3. QED
    BY <1>1, <2>1, <2>2, DoneKeeps
<1>3. CASE left # {}
  <2> DEFINE w == [work[t] EXCEPT !.left = left]
  <2>1. work' = [work EXCEPT ![t] = w] /\ UNCHANGED out
    BY <1>3, CareerTyped DEF FactDecided
  <2>2. /\ w \in Works /\ w.kind = "review" /\ w.left = left /\ w.out = work[t].out
        /\ w.shown = work[t].shown
    BY <1>1 DEF Works
  <2> HIDE DEF w
  <2>3. /\ request'[t] = NoRequest /\ work'[t] = w /\ deeds' \in 0..MaxDeeds
        /\ out' \in [OpenTabs -> SUBSET Facts]
    BY <1>1, <2>1, CareerTyped
  <2>4. NoRequest.step = "free" /\ NoRequest.kind = "none" /\ NoRequest \in TabRequests
    BY NoRequestTyped DEF NoRequest
  <2>5. RequestOK(request[t])'
    BY <2>3, <2>4 DEF RequestOK, Outcomes
  <2>6. ReviewOK(work[t], request[t])'
    BY <1>1, <1>3, <2>2, <2>3, <2>4 DEF WorkOK, ReviewOK, Reviewed, Vouched, careerTables
  <2>7. WorkOK(work[t], request[t])'
    BY <2>2, <2>3, <2>4, <2>6 DEF WorkOK
  <2>8. QED
    BY <1>1, <2>1, <2>2, <2>3, <2>4, <2>5, <2>7, SequenceKeeps
<1>4. QED
  BY <1>2, <1>3

LEMMA ConfirmationTyped ==
  ASSUME NEW c \in TabRequests, NEW f \in 0..MaxFacts
  PROVE  /\ [c EXCEPT !.kind = "confirm", !.fact = f, !.revision = 1] \in TabRequests
         /\ [c EXCEPT !.kind = "propose"] \in TabRequests
<1>1. c.fact \in 0..MaxFacts /\ c.revision \in 0..3 /\ 1 \in 0..3
  BY DEF TabRequests
<1>2. [c EXCEPT !.kind = "propose"] \in TabRequests
  BY DEF TabRequests
<1> DEFINE d == [c EXCEPT !.fact = f, !.revision = 1]
<1>3. d \in TabRequests
  BY <1>1 DEF TabRequests
<1>4. [d EXCEPT !.kind = "confirm"] \in TabRequests
  <2> HIDE DEF d
  <2>1. QED
    BY <1>3 DEF TabRequests, Outcomes
<1>5. [c EXCEPT !.kind = "confirm", !.fact = f, !.revision = 1] = [d EXCEPT !.kind = "confirm"]
  BY DEF TabRequests
<1>6. QED
  BY <1>2, <1>4, <1>5

\* The next request for the preferences that are saved.
LEMMA NextWishKeeps ==
  ASSUME CareerInv, NEW t \in OpenTabs, NextWish(t)
  PROVE  CareerInv'
<1> DEFINE more == [NoRequest EXCEPT !.step = "sent", !.source = request[t].source, !.preference = TRUE]
           left == IF request[t].kind = "confirm" THEN work[t].wishes - 1 ELSE work[t].wishes
<1>1. /\ UNCHANGED <<careerTables, snapshot, out, agreed, deeds>>
      /\ work[t].kind = "preferences" /\ request[t].step = "accepted"
      /\ request[t] \in TabRequests /\ work[t] \in Works /\ PreferencesOK(work[t], request[t])
      /\ out' \in [OpenTabs -> SUBSET Facts] /\ deeds' \in 0..MaxDeeds
  BY CareerTyped DEF NextWish, WorkOK
<1>2. /\ request[t].source \in 1..Len(sources) /\ request[t].source \in Nat
      /\ request[t].kind = "propose" => /\ request[t].fact \in Facts /\ fact[request[t].fact].preference
                                        /\ fact[request[t].fact].revision > 0
  BY <1>1, CareerTyped DEF PreferencesOK
<1>3. CASE left = 0
  <2>1. work' = [work EXCEPT ![t] = NoWork] /\ request' = [request EXCEPT ![t] = NoRequest]
    BY <1>3 DEF NextWish
  <2>2. QED
    BY <1>1, <2>1, DoneKeeps
<1>4. CASE left # 0
  <2> DEFINE w == [work[t] EXCEPT !.wishes = left]
             c == IF request[t].kind = "propose"
                  THEN [more EXCEPT !.kind = "confirm", !.fact = request[t].fact, !.revision = 1]
                  ELSE [more EXCEPT !.kind = "propose"]
  <2>1. work' = [work EXCEPT ![t] = w] /\ request' = [request EXCEPT ![t] = c]
    BY <1>4, CareerTyped DEF NextWish
  <2>2. w \in Works /\ w.kind = "preferences" /\ w.wishes > 0
    <3>1. work[t].wishes \in 0..Wishes /\ work[t].wishes > 0 /\ Wishes \in Nat
      BY <1>1, CareerAssumption DEF Works, PreferencesOK
    <3>2. left \in 0..Wishes /\ left > 0
      BY <1>4, <3>1
    <3> HIDE DEF left
    <3>3. QED
      BY <1>1, <3>2 DEF Works
  <2>3. more \in TabRequests /\ more.step = "sent" /\ more.preference /\ more.source = request[t].source
    <3>1. NoRequest \in TabRequests
      BY NoRequestTyped
    <3>2. QED
      BY <1>2, <3>1 DEF TabRequests
  <2> HIDE DEF more, w
  <2>4. PICK f \in 0..MaxFacts : f = request[t].fact
    BY <1>1 DEF TabRequests
  <2>5. /\ c \in TabRequests /\ c.step = "sent" /\ c.preference /\ c.source = request[t].source
        /\ \/ request[t].kind = "propose" /\ c.kind = "confirm" /\ c.fact = f /\ c.revision = 1
           \/ c.kind = "propose"
    <3>1. CASE request[t].kind = "propose"
      <4>1. c = [more EXCEPT !.kind = "confirm", !.fact = f, !.revision = 1]
        BY <2>4, <3>1
      <4> HIDE DEF c
      <4>2. c \in TabRequests
        BY <2>3, <4>1, ConfirmationTyped
      <4>5. c.kind = "confirm" /\ c.fact = f /\ c.revision = 1 /\ c.step = "sent"
        BY <2>3, <4>1 DEF TabRequests
      <4>3. c.preference /\ c.source = request[t].source
        BY <2>3, <4>1 DEF TabRequests
      <4>4. QED
        BY <3>1, <4>2, <4>3, <4>5
    <3>2. CASE request[t].kind # "propose"
      <4>1. c = [more EXCEPT !.kind = "propose"]
        BY <3>2
      <4> HIDE DEF c
      <4>2. QED
        BY <2>3, <4>1 DEF TabRequests
    <3>3. QED
      BY <3>1, <3>2
  <2> HIDE DEF c
  <2>6. /\ request'[t] = c /\ work'[t] = w /\ fact' = fact /\ Len(sources)' = Len(sources)
        /\ Len(sources) \in Nat
    BY <1>1, <2>1, CareerTyped DEF careerTables
  <2>7. RequestOK(request[t])'
    <3>1. CASE request[t].kind = "propose" /\ c.kind = "confirm" /\ c.fact = f /\ c.revision = 1
      <4>1. f \in Facts /\ fact[f].preference /\ fact[f].revision > 0
        BY <1>2, <2>4, <3>1
      <4>2. Reviewed(f)'
        BY <2>6, <4>1, Zenon DEF Reviewed
      <4>3. Reviewed(request[t].fact)'
        BY <2>6, <3>1, <4>2 DEF Reviewed, Vouched
      <4>4. QED
        BY <2>5, <2>6, <3>1, <4>1, <4>3 DEF RequestOK, Outcomes
    <3>2. CASE c.kind = "propose"
      BY <1>2, <2>5, <2>6, <3>2 DEF RequestOK, Outcomes
    <3>3. QED
      BY <2>5, <3>1, <3>2
  <2>8. WorkOK(work[t], request[t])'
    BY <1>2, <2>2, <2>5, <2>6 DEF WorkOK, PreferencesOK
  <2>9. QED
    BY <1>1, <2>1, <2>2, <2>5, <2>7, <2>8, SequenceKeeps
<1>5. QED
  BY <1>3, <1>4

\* The step of a request that is neither the first nor a result.
LEMMA StepKeeps ==
  ASSUME CareerInv, UNCHANGED <<careerTables, snapshot, out, work, agreed>>, NEW t \in OpenTabs,
         deeds' \in 0..MaxDeeds, NEW step \in {"refused", "read"},
         request[t].step # "free",
         step = "read" => request[t].kind \in Outcomes \cup {"correct"},
         step = "read" /\ request[t].kind = "correct" => request[t].step = "captured",
         request' = [request EXCEPT ![t].step = step]
  PROVE  CareerInv'
<1> DEFINE c == [request[t] EXCEPT !.step = step]
<1>1. /\ request[t] \in TabRequests /\ work[t] \in Works /\ RequestOK(request[t]) /\ WorkOK(work[t], request[t])
      /\ request \in [OpenTabs -> TabRequests] /\ work \in [OpenTabs -> Works] /\ out \in [OpenTabs -> SUBSET Facts]
  BY CareerTyped
<1>2. /\ c \in TabRequests /\ c.step = step /\ c.kind = request[t].kind /\ c.fact = request[t].fact
      /\ c.revision = request[t].revision /\ c.preference = request[t].preference
      /\ c.source = request[t].source
  BY <1>1 DEF TabRequests
<1>3. request' = [request EXCEPT ![t] = c] /\ work' = [work EXCEPT ![t] = work[t]]
  BY <1>1
<1> HIDE DEF c
<1>4. request'[t] = c /\ work'[t] = work[t] /\ out' \in [OpenTabs -> SUBSET Facts]
  BY <1>1, <1>3
<1>5. RequestOK(request[t])'
  <2>1. request[t].kind = "confirm" => Reviewed(request[t].fact)'
    <3>1. PICK f : f = request[t].fact
      OBVIOUS
    <3>2. request[t].kind = "confirm" => Reviewed(f)'
      BY <1>1, <3>1, ReviewedStays DEF RequestOK, careerTables
    <3>3. request'[t].fact = f
      BY <1>2, <1>4, <3>1
    <3>4. Reviewed(f)' => Reviewed(request[t].fact)'
      BY <3>3
    <3>5. QED
      BY <3>2, <3>4
  <2>2. step = "refused" \/ request'[t].kind \in Outcomes \cup {"correct"}
    BY <1>2, <1>4
  <2>3. RequestOK(request[t]) /\ request[t].kind # "none" /\ fact' = fact /\ Len(sources)' = Len(sources)
    BY <1>1 DEF RequestOK, careerTables
  <2>4. request'[t].kind = "correct" /\ step = "read" => request[t].step = "captured"
    BY <1>2, <1>4
  <2>5. QED
    BY <1>2, <1>4, <2>1, <2>2, <2>3, <2>4 DEF RequestOK
<1>6. WorkOK(work[t], request[t])'
  <2>1. ReviewOK(work[t], request[t]) => ReviewOK(work[t], request[t])'
    BY <1>2, <1>4 DEF ReviewOK, Reviewed, Vouched, careerTables
  <2>2. PreferencesOK(work[t], request[t]) => PreferencesOK(work[t], request[t])'
    BY <1>2, <1>4 DEF PreferencesOK, careerTables
  <2>3. QED
    BY <1>1, <1>2, <1>4, <2>1, <2>2 DEF WorkOK
<1>7. QED
  BY <1>1, <1>2, <1>3, <1>4, <1>5, <1>6, SequenceKeeps

LEMMA FailKeeps ==
  ASSUME CareerInv, NEW t \in OpenTabs, FailRequest(t)
  PROVE  CareerInv'
<1>1. /\ UNCHANGED <<careerTables, snapshot, out, work, agreed>> /\ request[t].step \in {"sent", "accepted"}
      /\ request' = [request EXCEPT ![t].step = "refused"] /\ deeds' \in 0..MaxDeeds
  BY CareerTyped, CareerAssumption DEF FailRequest
<1>2. QED
  BY <1>1, StepKeeps

LEMMA FinishKeeps ==
  ASSUME CareerInv, NEW t \in OpenTabs, Finish(t)
  PROVE  CareerInv'
<1>1. /\ UNCHANGED <<careerTables, snapshot, out, agreed, deeds>> /\ out' \in [OpenTabs -> SUBSET Facts]
      /\ work' = [work EXCEPT ![t] = NoWork] /\ request' = [request EXCEPT ![t] = NoRequest]
  BY CareerTyped DEF Finish
<1>2. QED
  BY <1>1, DoneKeeps

LEMMA ReadFactKeeps ==
  ASSUME CareerInv, NEW t \in OpenTabs, ReadFact(t)
  PROVE  CareerInv'
<1>1. PICK step \in {"refused", "read"} : request' = [request EXCEPT ![t].step = step]
  BY DEF ReadFact, Reply
<1>2. /\ UNCHANGED <<careerTables, snapshot, out, work, agreed>> /\ deeds' \in 0..MaxDeeds
      /\ request[t].step # "free" /\ request[t].kind \in Outcomes \cup {"correct"}
      /\ request[t].kind = "correct" => request[t].step = "captured"
  BY CareerTyped DEF ReadFact, Handles, Outcomes
<1>3. QED
  BY <1>1, <1>2, StepKeeps

-----------------------------------------------------------------------------
\* The handlers.

\* A step of a handler, or of a run, that raises the tables.
LEMMA TablesTyped ==
  ASSUME CareerInv, Forward, UNCHANGED <<snapshot, out, work, deeds>>, sources' \in Seq(Purposes),
         fact' \in [Facts -> FactRows], organization' \in [Organizations -> Organization],
         \A f \in Facts : fact'[f].status # "absent" =>
                            fact'[f].source \in 1..Len(sources') /\ fact'[f].by # Nobody,
         \A o \in Organizations :
           /\ organization'[o].source \in 0..Len(sources')
           /\ organization'[o].state # "absent" => organization'[o].source > 0,
         agreed' \subseteq Facts \X (0..3), request' \in [OpenTabs -> TabRequests]
  PROVE  CareerTypeOK' /\ ShapeOK' /\ SnapshotInv'
<1>1. Len(sources) \in Nat /\ Len(sources') \in Nat /\ Len(sources) <= Len(sources')
  BY DEF Forward, CareerInv, CareerTypeOK
<1>2. \A o \in Organizations : organization'[o].results \subseteq Facts
                                 /\ organization'[o].state \in {"absent", "running", "succeeded", "failed"}
  BY DEF Organization
<1>3. \A u \in OpenTabs : snapshot'[u].sources \in 0..Len(sources') /\ snapshot'[u].fact \in [Facts -> FactRows]
  BY <1>1 DEF CareerInv, CareerTypeOK
<1>4. out' \in [OpenTabs -> SUBSET Facts] /\ work' \in [OpenTabs -> Works] /\ deeds' \in 0..MaxDeeds
  BY DEF CareerInv, CareerTypeOK
<1>5. CareerTypeOK'
  BY <1>2, <1>3, <1>4 DEF CareerTypeOK
<1>6. ShapeOK'
  BY DEF CareerInv, ShapeOK
<1>7. QED
  BY <1>5, <1>6, TablesKept

\* A handler moves its request, too.
LEMMA HandlerKeeps ==
  ASSUME CareerInv, Forward, UNCHANGED <<organization, snapshot, out, work, deeds>>,
         sources' \in Seq(Purposes), fact' \in [Facts -> FactRows],
         \A f \in Facts : fact'[f].status # "absent" =>
                            fact'[f].source \in 1..Len(sources') /\ fact'[f].by # Nobody,
         agreed' \subseteq Facts \X (0..3), RowInv', VerifiedWasReviewed',
         NEW t \in OpenTabs, NEW c \in TabRequests, request' = [request EXCEPT ![t] = c], RequestOK(c)',
         WorkOK(work[t], c)'
  PROVE  CareerInv'
<1>1. /\ request' \in [OpenTabs -> TabRequests] /\ request'[t] = c
      /\ \A u \in OpenTabs \ {t} : request'[u] = request[u] /\ work'[u] = work[u]
  BY CareerTyped
<1>2. \A o \in Organizations :
        /\ organization'[o].source \in 0..Len(sources')
        /\ organization'[o].state # "absent" => organization'[o].source > 0
  <2>1. Len(sources) \in Nat /\ Len(sources') \in Nat /\ Len(sources) <= Len(sources')
    BY DEF Forward, CareerInv, CareerTypeOK
  <2>2. QED
    BY <2>1 DEF CareerInv, CareerTypeOK, ShapeOK
<1>3. CareerTypeOK' /\ ShapeOK' /\ SnapshotInv'
  BY <1>1, <1>2, TablesTyped DEF CareerInv, ShapeOK
<1>4. RequestOK(request[t])' /\ WorkOK(work[t], request[t])'
  BY <1>1
<1>5. QED
  BY <1>1, <1>3, <1>4, TabKeeps

LEMMA NoFactTyped == NoFact \in FactRows
BY DEF NoFact, FactRows, Statuses

LEMMA RowTyped ==
  ASSUME NEW row \in FactRows, NEW status \in Statuses, NEW n \in Nat, NEW p \in BOOLEAN,
         NEW a \in Organizations \cup {"user", Nobody}
  PROVE  /\ [row EXCEPT !.status = status, !.revision = 1, !.source = n, !.by = a] \in FactRows
         /\ [row EXCEPT !.status = status, !.revision = 1, !.preference = p, !.source = n,
                        !.by = a] \in FactRows
<1> DEFINE q == [row EXCEPT !.status = status]
           r == [q EXCEPT !.revision = 1, !.source = n]
           b == [r EXCEPT !.by = a]
<1>1. r \in FactRows
  <2>1. q \in FactRows /\ 1 \in 0..3
    BY DEF FactRows
  <2> HIDE DEF q
  <2>2. QED
    BY <2>1 DEF FactRows
<1>2. b \in FactRows
  <2> HIDE DEF r
  <2>1. QED
    BY <1>1 DEF FactRows
<1>3. [b EXCEPT !.preference = p] \in FactRows
  <2> HIDE DEF b
  <2>1. QED
    BY <1>2 DEF FactRows
<1>4. [row EXCEPT !.status = status, !.revision = 1, !.source = n, !.by = a] = b
  BY DEF FactRows
<1>5. [row EXCEPT !.status = status, !.revision = 1, !.preference = p, !.source = n, !.by = a]
        = [b EXCEPT !.preference = p]
  BY DEF FactRows
<1>6. QED
  BY <1>2, <1>3, <1>4, <1>5

\* A suggestion of the user's or of an agent's.
LEMMA ProposedTyped ==
  ASSUME NEW n \in Nat, NEW a \in Organizations \cup {"user"}
  PROVE  \E row \in FactRows :
           /\ row = [NoFact EXCEPT !.status = "proposed", !.revision = 1, !.source = n, !.by = a]
           /\ row.status = "proposed" /\ row.revision = 1 /\ row.source = n /\ row.by # Nobody
<1> DEFINE row == [NoFact EXCEPT !.status = "proposed", !.revision = 1, !.source = n, !.by = a]
<1>1. a # Nobody /\ a \in Organizations \cup {"user", Nobody} /\ "proposed" \in Statuses
  BY CareerAssumption DEF Statuses
<1>2. row \in FactRows
  BY <1>1, NoFactTyped, RowTyped
<1>3. row.status = "proposed" /\ row.revision = 1 /\ row.source = n /\ row.by = a
  BY NoFactTyped DEF FactRows
<1>4. QED
  BY <1>1, <1>2, <1>3

LEMMA PreferenceTyped ==
  ASSUME NEW n \in Nat, NEW p \in BOOLEAN
  PROVE  \E row \in FactRows :
           /\ row = [NoFact EXCEPT !.status = "proposed", !.revision = 1, !.preference = p,
                                   !.source = n, !.by = "user"]
           /\ row.status = "proposed" /\ row.revision = 1 /\ row.source = n /\ row.by # Nobody
           /\ p => row.preference
<1> DEFINE row == [NoFact EXCEPT !.status = "proposed", !.revision = 1, !.preference = p,
                                 !.source = n, !.by = "user"]
<1>1. /\ "user" # Nobody /\ "user" \in Organizations \cup {"user", Nobody}
      /\ "proposed" \in Statuses
  BY CareerAssumption DEF Statuses
<1>2. row \in FactRows
  BY <1>1, NoFactTyped, RowTyped
<1>3. row.status = "proposed" /\ row.revision = 1 /\ row.source = n /\ row.by = "user"
  BY NoFactTyped DEF FactRows
<1>4. p => row.preference
  BY NoFactTyped DEF FactRows
<1>5. QED
  BY <1>1, <1>2, <1>3, <1>4

\* What is proposed anew takes a free place.
LEMMA NewFact ==
  ASSUME CareerInv, Room, sources' \in Seq(Purposes),
         Len(sources) <= Len(sources'), UNCHANGED <<organization, agreed>>,
         NEW row \in FactRows, row.status = "proposed", row.revision = 1,
         row.source \in 1..Len(sources'), row.by # Nobody,
         fact' = [fact EXCEPT ![FreshFact] = row]
  PROVE  /\ FreshFact \in Facts /\ fact'[FreshFact] = row /\ fact' \in [Facts -> FactRows]
         /\ \A f \in Facts : fact'[f].status # "absent" =>
                                fact'[f].source \in 1..Len(sources') /\ fact'[f].by # Nobody
         /\ Forward /\ RowInv' /\ VerifiedWasReviewed'
<1>1. CareerTypeOK /\ RowInv /\ fact \in [Facts -> FactRows]
  BY DEF CareerInv, CareerTypeOK
<1>2. PICK g \in Facts : g = FreshFact /\ fact[g].status = "absent"
  BY FreshFactIsFree
<1>3. /\ fact' \in [Facts -> FactRows] /\ fact'[g] = row
      /\ \A f \in Facts \ {g} : fact'[f] = fact[f]
  BY <1>1, <1>2
<1>4. Len(sources) \in Nat /\ Len(sources') \in Nat
  BY <1>1 DEF CareerTypeOK
<1>5. \A f \in Facts : fact'[f].status # "absent" =>
                           fact'[f].source \in 1..Len(sources') /\ fact'[f].by # Nobody
  BY <1>1, <1>3, <1>4 DEF CareerTypeOK
<1>6. FactsForward
  <2>1. fact[g].revision = 0
    BY <1>1, <1>2 DEF RowInv
  <2>2. QED
    BY <1>3, <2>1 DEF FactsForward
<1>7. Forward
  BY <1>6 DEF Forward
<1>8. RowInv'
  BY <1>1, <1>3 DEF RowInv
<1>9. VerifiedWasReviewed'
  BY <1>3 DEF CareerInv, VerifiedWasReviewed
<1>10. QED
  BY <1>2, <1>3, <1>5, <1>7, <1>8, <1>9

LEMMA CaptureSourceKeeps ==
  ASSUME CareerInv, NEW t \in OpenTabs, CaptureSource(t)
  PROVE  CareerInv'
<1>1. /\ UNCHANGED <<fact, organization, snapshot, out, work, agreed, deeds>>
      /\ request[t].step = "sent" /\ request[t].kind = "capture"
      /\ sources' = Append(sources, IF request[t].preference THEN "preference" ELSE "material")
      /\ CareerTypeOK /\ RowInv /\ VerifiedWasReviewed /\ sources \in Seq(Purposes)
  BY DEF CaptureSource, Handles, CareerInv, CareerTypeOK
<1>2. PICK purpose \in Purposes : sources' = Append(sources, purpose)
  BY <1>1 DEF Purposes
<1>3. sources' \in Seq(Purposes) /\ Len(sources') = Len(sources) + 1 /\ Len(sources) \in Nat
  BY <1>1, <1>2
<1>4. Forward
  BY <1>1, <1>3 DEF Forward, FactsForward
<1>5. PICK n \in Nat : n = Len(sources) + 1
  BY <1>3
<1> DEFINE c == [request[t] EXCEPT !.step = "accepted", !.source = n]
<1>6. request' = [request EXCEPT ![t] = c]
  BY <1>5, CareerTyped DEF CaptureSource
<1>7. /\ c \in TabRequests /\ c.step = "accepted" /\ c.kind = "capture"
      /\ c.source = Len(sources') /\ c.preference = request[t].preference
  BY <1>1, <1>3, <1>5, CareerTyped DEF TabRequests
<1> HIDE DEF c
<1>8. PICK d \in TabRequests : d = c
  BY <1>7
<1>9. RequestOK(d)'
  BY <1>7, <1>8 DEF RequestOK, Outcomes
<1>10. WorkOK(work[t], d)'
  <2>1. work' = work /\ WorkOK(work[t], request[t])
    BY <1>1, CareerTyped
  <2>2. work[t].kind # "review" /\ work[t].kind # "none"
    BY <1>1, <2>1 DEF WorkOK, ReviewOK
  <2>3. work[t].kind = "preferences" => work[t].wishes > 0 /\ d.preference
    BY <1>7, <1>8, <2>1 DEF WorkOK, PreferencesOK
  <2>4. Len(sources') \in 1..Len(sources')
    BY <1>3
  <2>5. QED
    BY <1>7, <1>8, <2>1, <2>2, <2>3, <2>4 DEF WorkOK, PreferencesOK
<1>11. RowInv' /\ VerifiedWasReviewed'
  BY <1>1 DEF RowInv, VerifiedWasReviewed
<1>12. /\ fact' \in [Facts -> FactRows] /\ agreed' \subseteq Facts \X (0..3)
       /\ \A f \in Facts : fact'[f].status # "absent" =>
                              fact'[f].source \in 1..Len(sources') /\ fact'[f].by # Nobody
  BY <1>1, <1>3 DEF CareerTypeOK
<1>13. QED
  BY <1>1, <1>3, <1>4, <1>6, <1>8, <1>9, <1>10, <1>11, <1>12, HandlerKeeps

LEMMA AddCareerHistoryEntryKeeps ==
  ASSUME CareerInv, NEW t \in OpenTabs, AddCareerHistoryEntry(t)
  PROVE  CareerInv'
<1>1. /\ UNCHANGED <<organization, snapshot, out, work, agreed, deeds>> /\ Room
      /\ request[t].step = "sent" /\ request[t].kind = "entry"
      /\ sources' = Append(sources, "material") /\ sources \in Seq(Purposes)
  BY DEF AddCareerHistoryEntry, Handles, CareerInv, CareerTypeOK
<1>2. sources' \in Seq(Purposes) /\ Len(sources') = Len(sources) + 1 /\ Len(sources) \in Nat
  BY <1>1 DEF Purposes
<1>3. PICK n \in Nat : n = Len(sources) + 1
  BY <1>2
<1>15. PICK a \in Organizations \cup {"user"} : a = "user"
  OBVIOUS
<1>4. PICK row \in FactRows :
        /\ row = [NoFact EXCEPT !.status = "proposed", !.revision = 1, !.source = n, !.by = a]
        /\ row.status = "proposed" /\ row.revision = 1 /\ row.source = n /\ row.by # Nobody
  BY ProposedTyped
<1>5. /\ fact' = [fact EXCEPT ![FreshFact] = row] /\ UNCHANGED <<organization, agreed>>
      /\ Len(sources) <= Len(sources')
  BY <1>1, <1>2, <1>3, <1>4, <1>15 DEF AddCareerHistoryEntry
<1>6. row.source \in 1..Len(sources')
  BY <1>2, <1>3, <1>4
<1>7. /\ fact' \in [Facts -> FactRows]
      /\ \A f \in Facts : fact'[f].status # "absent" =>
                             fact'[f].source \in 1..Len(sources') /\ fact'[f].by # Nobody
      /\ Forward /\ RowInv' /\ VerifiedWasReviewed'
  BY <1>1, <1>2, <1>4, <1>5, <1>6, NewFact
<1> DEFINE c == [request[t] EXCEPT !.step = "accepted"]
<1>8. request' = [request EXCEPT ![t] = c]
  BY CareerTyped DEF AddCareerHistoryEntry, Reply
<1>9. c \in TabRequests /\ c.step = "accepted" /\ c.kind = "entry"
  BY <1>1, CareerTyped DEF TabRequests
<1> HIDE DEF c
<1>10. PICK d \in TabRequests : d = c
  BY <1>9
<1>11. RequestOK(d)'
  BY <1>9, <1>10 DEF RequestOK, Outcomes
<1>12. WorkOK(work[t], d)'
  <2>1. work' = work /\ WorkOK(work[t], request[t])
    BY <1>1, CareerTyped
  <2>2. work[t].kind \notin {"none", "review", "preferences"}
    BY <1>1, <2>1 DEF WorkOK, ReviewOK, PreferencesOK
  <2>3. QED
    BY <1>9, <1>10, <2>1, <2>2 DEF WorkOK
<1>13. agreed' \subseteq Facts \X (0..3)
  BY <1>1, CareerTyped
<1>14. QED
  BY <1>1, <1>2, <1>7, <1>8, <1>10, <1>11, <1>12, <1>13, HandlerKeeps

LEMMA ProposeProfileFactKeeps ==
  ASSUME CareerInv, NEW t \in OpenTabs, ProposeProfileFact(t)
  PROVE  CareerInv'
<1>1. /\ UNCHANGED <<sources, organization, snapshot, out, work, agreed, deeds>> /\ Room
      /\ request[t].step = "sent" /\ request[t].kind = "propose" /\ sources \in Seq(Purposes)
      /\ request[t] \in TabRequests /\ RequestOK(request[t]) /\ WorkOK(work[t], request[t])
  BY CareerTyped DEF ProposeProfileFact, Handles
<1>2. PICK old \in TabRequests : old = request[t]
  BY <1>1
<1>3. old.source \in 1..Len(sources) /\ Len(sources) \in Nat
  BY <1>1, <1>2 DEF RequestOK
<1>4. PICK g \in Facts : g = FreshFact
  BY <1>1, FreshFactIsFree
<1>5. PICK n \in Nat, p \in BOOLEAN : n = old.source /\ p = old.preference
  BY DEF TabRequests
<1>6. PICK row \in FactRows :
        /\ row = [NoFact EXCEPT !.status = "proposed", !.revision = 1, !.preference = p,
                                !.source = n, !.by = "user"]
        /\ row.status = "proposed" /\ row.revision = 1 /\ row.source = n /\ row.by # Nobody
        /\ p => row.preference
  BY PreferenceTyped
<1>7. /\ fact' = [fact EXCEPT ![FreshFact] = row] /\ UNCHANGED <<organization, agreed>>
      /\ Len(sources) <= Len(sources') /\ sources' \in Seq(Purposes)
  BY <1>1, <1>2, <1>3, <1>5, <1>6 DEF ProposeProfileFact
<1>8. row.source \in 1..Len(sources')
  BY <1>1, <1>3, <1>5, <1>6
<1>9. /\ fact' \in [Facts -> FactRows] /\ fact'[FreshFact] = row
      /\ \A f \in Facts : fact'[f].status # "absent" =>
                             fact'[f].source \in 1..Len(sources') /\ fact'[f].by # Nobody
      /\ Forward /\ RowInv' /\ VerifiedWasReviewed'
  BY <1>1, <1>3, <1>6, <1>7, <1>8, NewFact
<1> DEFINE c == [request[t] EXCEPT !.step = "accepted", !.fact = g]
<1>10. request' = [request EXCEPT ![t] = c]
  BY <1>4, CareerTyped DEF ProposeProfileFact
<1>11. /\ c \in TabRequests /\ c.step = "accepted" /\ c.kind = "propose" /\ c.fact = g
       /\ c.source = old.source /\ c.preference = old.preference
  <2>1. g \in 0..MaxFacts
    BY NoRequestTyped
  <2>2. QED
    BY <1>1, <1>2, <2>1 DEF TabRequests
<1>17. old.preference => c.preference
  BY <1>2 DEF TabRequests
<1> HIDE DEF c
<1>12. PICK d \in TabRequests : d = c
  BY <1>11
<1>13. RequestOK(d)'
  BY <1>1, <1>3, <1>11, <1>12 DEF RequestOK, Outcomes
<1>14. WorkOK(work[t], d)'
  <2>1. work' = work /\ Len(sources)' = Len(sources)
    BY <1>1
  <2>2. work[t].kind \notin {"none", "review"}
    BY <1>1 DEF WorkOK, ReviewOK
  <2>3. work[t].kind = "preferences" => work[t].wishes > 0 /\ old.preference
    BY <1>1, <1>2 DEF WorkOK, PreferencesOK
  <2>8. fact'[d.fact] = row
    BY <1>4, <1>9, <1>11, <1>12
  <2>4. fact'[d.fact].revision > 0
    BY <1>6, <2>8
  <2>5. old.preference => fact'[d.fact].preference
    BY <1>5, <1>6, <2>8
  <2>6. PreferencesOK(work[t], d)' \/ work[t].kind # "preferences"
    BY <1>3, <1>11, <1>12, <1>17, <2>1, <2>3, <2>4, <2>5 DEF PreferencesOK
  <2>7. QED
    BY <1>11, <1>12, <2>1, <2>2, <2>6 DEF WorkOK
<1>15. agreed' \subseteq Facts \X (0..3)
  BY <1>1, CareerTyped
<1>16. QED
  BY <1>1, <1>9, <1>10, <1>12, <1>13, <1>14, <1>15, HandlerKeeps

\* A refusal is the end of the request.
LEMMA RefusalKeeps ==
  ASSUME CareerInv, NEW t \in OpenTabs, UNCHANGED <<careerTables, snapshot, out, work, agreed, deeds>>,
         request[t].step # "free", Reply(t, "refused")
  PROVE  CareerInv'
<1>1. UNCHANGED <<careerTables, snapshot, out, work, agreed>> /\ deeds' \in 0..MaxDeeds
  BY CareerTyped
<1>2. PICK step \in {"refused", "read"} : step = "refused"
  OBVIOUS
<1>3. request' = [request EXCEPT ![t].step = step]
  BY <1>2 DEF Reply
<1>4. QED
  BY <1>1, <1>2, <1>3, StepKeeps

LEMMA CaptureCorrectionKeeps ==
  ASSUME CareerInv, NEW t \in OpenTabs, CaptureCorrection(t)
  PROVE  CareerInv'
<1> DEFINE open == /\ fact[request[t].fact].revision = request[t].revision
                   /\ fact[request[t].fact].status \in {"verified", "proposed", "derived_unverified"}
<1>1. /\ UNCHANGED <<fact, organization, snapshot, out, work, agreed, deeds>>
      /\ request[t].step = "sent" /\ request[t].kind = "correct"
      /\ CareerTypeOK /\ RowInv /\ VerifiedWasReviewed /\ sources \in Seq(Purposes)
  BY DEF CaptureCorrection, Handles, CareerInv, CareerTypeOK
<1>2. CASE ~open
  <2>1. Reply(t, "refused") /\ UNCHANGED <<careerTables, snapshot, out, work, agreed, deeds>>
    BY <1>2 DEF CaptureCorrection, careerTables
  <2>2. QED
    BY <1>1, <2>1, RefusalKeeps
<1>3. CASE open
  <2>1. /\ sources' \in Seq(Purposes) /\ Len(sources') = Len(sources) + 1
        /\ Len(sources) \in Nat /\ Len(sources') \in 1..Len(sources')
    BY <1>1, <1>3 DEF CaptureCorrection, Purposes
  <2>2. Forward
    BY <1>1, <2>1 DEF Forward, FactsForward
  <2>3. PICK n \in Nat : n = Len(sources) + 1
    BY <2>1
  <2> DEFINE c == [request[t] EXCEPT !.step = "captured", !.source = n]
  <2>4. request' = [request EXCEPT ![t] = c]
    BY <1>3, <2>3, CareerTyped DEF CaptureCorrection
  <2>5. /\ c \in TabRequests /\ c.step = "captured" /\ c.kind = "correct" /\ c.source = Len(sources')
        /\ c.fact = request[t].fact /\ c.revision = request[t].revision
    BY <1>1, <2>1, <2>3, CareerTyped DEF TabRequests
  <2> HIDE DEF c, open
  <2>6. PICK d \in TabRequests : d = c
    BY <2>5
  <2>7. RequestOK(d)'
    <3>1. d.fact \in Facts /\ d.revision \in {1, 2}
      BY <1>1, <2>5, <2>6, CareerTyped DEF RequestOK
    <3>2. QED
      BY <2>1, <2>5, <2>6, <3>1 DEF RequestOK, Outcomes
  <2>8. WorkOK(work[t], d)'
    <3>1. work' = work /\ WorkOK(work[t], request[t])
      BY <1>1, CareerTyped
    <3>2. work[t].kind \notin {"none", "review", "preferences"}
      BY <1>1, <3>1 DEF WorkOK, ReviewOK, PreferencesOK
    <3>3. QED
      BY <2>5, <2>6, <3>1, <3>2 DEF WorkOK
  <2>9. RowInv' /\ VerifiedWasReviewed'
    BY <1>1 DEF RowInv, VerifiedWasReviewed
  <2>10. /\ fact' \in [Facts -> FactRows] /\ agreed' \subseteq Facts \X (0..3)
         /\ \A f \in Facts : fact'[f].status # "absent" =>
                                fact'[f].source \in 1..Len(sources') /\ fact'[f].by # Nobody
    BY <1>1, <2>1 DEF CareerTypeOK
  <2>11. QED
    BY <1>1, <2>1, <2>2, <2>4, <2>6, <2>7, <2>8, <2>9, <2>10, HandlerKeeps
<1>4. QED
  BY <1>2, <1>3

LEMMA DecidedTyped ==
  ASSUME NEW row \in FactRows, NEW status \in Statuses, NEW n \in 0..3
  PROVE  [row EXCEPT !.revision = n, !.status = status] \in FactRows
BY DEF FactRows

LEMMA CommitDecisionKeeps ==
  ASSUME CareerInv, NEW t \in OpenTabs, CommitDecision(t)
  PROVE  CareerInv'
<1>1. /\ UNCHANGED <<sources, organization, snapshot, out, work, agreed, deeds>>
      /\ request[t].step = "read" /\ request[t].kind \in Outcomes
      /\ CareerTypeOK /\ RowInv /\ VerifiedWasReviewed /\ sources \in Seq(Purposes)
      /\ RequestOK(request[t]) /\ WorkOK(work[t], request[t]) /\ request[t] \in TabRequests /\ work[t] \in Works
  BY CareerTyped DEF CommitDecision, Handles, CareerInv, CareerTypeOK
<1>2. CASE fact[request[t].fact].revision # request[t].revision
  <2>1. Reply(t, "refused") /\ UNCHANGED <<careerTables, snapshot, out, work, agreed, deeds>>
    BY <1>2 DEF CommitDecision, careerTables
  <2>2. QED
    BY <1>1, <2>1, RefusalKeeps
<1>3. CASE fact[request[t].fact].revision = request[t].revision
  <2>1. PICK f \in Facts : f = request[t].fact
    BY <1>1 DEF RequestOK
  <2>2. /\ fact[f].revision = 1 /\ fact[f] \in FactRows /\ fact \in [Facts -> FactRows]
        /\ request[t].kind = "confirm" => Reviewed(f)
    BY <1>1, <1>3, <2>1 DEF RequestOK, CareerTypeOK
  <2>3. PICK status \in {"verified", "derived_unverified", "user_cannot_confirm"} :
          /\ status = CASE request[t].kind = "confirm" -> "verified"
                         [] request[t].kind = "narrative_only" -> "derived_unverified"
                         [] OTHER -> "user_cannot_confirm"
          /\ status = "verified" => request[t].kind = "confirm"
    <3>1. CASE request[t].kind = "confirm"
      BY <3>1
    <3>2. CASE request[t].kind = "narrative_only"
      BY <3>2
    <3>3. CASE request[t].kind = "cannot_confirm"
      BY <3>3
    <3>4. QED
      BY <1>1, <3>1, <3>2, <3>3 DEF Outcomes
  <2>4. fact' = [fact EXCEPT ![f].revision = @ + 1, ![f].status = status]
    BY <1>3, <2>1, <2>3 DEF CommitDecision
  <2>23. PICK row \in FactRows : row = fact[f]
    BY <2>2
  <2>5. PICK r \in FactRows :
          /\ r = [row EXCEPT !.revision = 2, !.status = status]
          /\ r.revision = 2 /\ r.status = status /\ r.by = row.by /\ r.source = row.source
          /\ r.preference <=> row.preference
    <3> DEFINE r == [row EXCEPT !.revision = 2, !.status = status]
    <3>1. status \in Statuses /\ 2 \in 0..3
      BY DEF Statuses
    <3>2. r \in FactRows
      BY <3>1, DecidedTyped
    <3>3. r.revision = 2 /\ r.status = status /\ r.by = row.by /\ r.source = row.source
      BY DEF FactRows
    <3>4. r.preference <=> row.preference
      BY DEF FactRows
    <3> HIDE DEF r
    <3>5. QED
      BY <3>2, <3>3, <3>4 DEF r
  <2>6. /\ fact' \in [Facts -> FactRows] /\ fact'[f] = r
        /\ \A g \in Facts \ {f} : fact'[g] = fact[g]
    <3>1. /\ fact'[f] = [fact[f] EXCEPT !.revision = 2, !.status = status]
          /\ \A g \in Facts \ {f} : fact'[g] = fact[g]
          /\ DOMAIN fact' = Facts
      BY <2>2, <2>4
    <3>2. fact'[f] = r
      BY <2>5, <2>23, <3>1
    <3>3. \A g \in Facts : fact'[g] \in FactRows
      BY <2>2, <3>1, <3>2
    <3>4. QED
      BY <2>2, <2>4, <3>1, <3>2, <3>3
  <2>7. /\ r.revision = 2 /\ r.status = status /\ r.by = fact[f].by /\ r.source = fact[f].source
    BY <2>5, <2>23
  <2>8. r.preference = fact[f].preference
    <3>1. r.preference \in BOOLEAN /\ fact[f].preference \in BOOLEAN
      BY <2>2 DEF FactRows
    <3>2. QED
      BY <2>5, <2>23, <3>1
  <2>9. Forward
    <3>1. /\ fact'[f].revision = fact[f].revision + 1
          /\ fact'[f].by = fact[f].by
      BY <2>2, <2>6, <2>7
    <3>2. fact'[f].preference = fact[f].preference
      BY <2>6, <2>8
    <3>3. FactsForward
      BY <2>6, <3>1, <3>2, Zenon DEF FactsForward
    <3>4. QED
      BY <1>1, <3>3 DEF Forward, CareerTypeOK
  <2>10. \A g \in Facts : fact'[g].status # "absent" =>
                            fact'[g].source \in 1..Len(sources') /\ fact'[g].by # Nobody
    <3>1. fact[f].status # "absent"
      BY <1>1, <2>2 DEF RowInv
    <3>2. QED
      BY <1>1, <2>6, <2>7, <3>1 DEF CareerTypeOK
  <2>11. RowInv'
    BY <1>1, <2>6, <2>7 DEF RowInv
  <2>12. VerifiedWasReviewed'
    <3>1. ASSUME NEW g \in Facts, fact'[g].status = "verified", ~fact'[g].preference
          PROVE  <<g, fact'[g].revision - 1>> \in agreed' /\ Vouched(g)'
      <4>1. CASE g = f
        <5>1. Reviewed(f) /\ ~fact[f].preference
          BY <2>2, <2>3, <2>6, <2>7, <2>8, <3>1, <4>1
        <5>2. <<f, 1>> \in agreed /\ Vouched(f)
          BY <5>1 DEF Reviewed
        <5>3. Vouched(f)'
          BY <1>1, <2>6, <2>7, <5>2 DEF Vouched
        <5>4. fact'[f].revision - 1 = 1
          BY <2>6, <2>7
        <5>5. QED
          BY <1>1, <4>1, <5>2, <5>3, <5>4
      <4>2. CASE g # f
        BY <1>1, <2>6, <3>1, <4>2 DEF VerifiedWasReviewed, Vouched
      <4>3. QED
        BY <4>1, <4>2
    <3>2. QED
      BY <3>1 DEF VerifiedWasReviewed, Vouched
  <2> DEFINE c == [request[t] EXCEPT !.step = "accepted"]
  <2>13. request' = [request EXCEPT ![t] = c]
    BY <1>3, CareerTyped DEF CommitDecision, Reply
  <2>14. /\ c \in TabRequests /\ c.step = "accepted" /\ c.kind = request[t].kind /\ c.fact = request[t].fact
         /\ c.revision = request[t].revision /\ c.source = request[t].source
    BY <1>1 DEF TabRequests
  <2>15. c.preference = request[t].preference
    BY <1>1 DEF TabRequests
  <2> HIDE DEF c
  <2>16. PICK d \in TabRequests, old \in TabRequests, w \in Works : d = c /\ old = request[t] /\ w = work[t]
    BY <1>1, <2>14
  <2>17. RequestOK(old)' /\ WorkOK(w, old)' /\ WorkOK(w, old)
    BY <1>1, <2>9, <2>16, RequestKept, WorkKept
  <2>18. RequestOK(d)'
    <3>1. d.kind = "confirm" => Reviewed(d.fact)'
      <4>1. d.fact = old.fact /\ d.kind = old.kind
        BY <2>14, <2>16
      <4>2. old.kind = "confirm" => Reviewed(old.fact)'
        BY <2>17 DEF RequestOK
      <4>3. QED
        BY <4>1, <4>2
    <3>2. QED
      BY <1>1, <2>14, <2>16, <2>17, <3>1 DEF RequestOK, Outcomes
  <2>19. WorkOK(w, d)'
    <3>1. w.kind # "none"
      BY <1>1, <2>16, <2>17 DEF WorkOK
    <3>2. ReviewOK(w, old)' => ReviewOK(w, d)'
      BY <2>14, <2>16 DEF ReviewOK
    <3>3. PreferencesOK(w, old)' => PreferencesOK(w, d)'
      <4>1. old.preference => d.preference
        BY <2>15, <2>16
      <4>2. d.kind # "propose" /\ d.kind # "capture"
        BY <1>1, <2>14, <2>16 DEF Outcomes
      <4>3. d.kind = old.kind /\ d.source = old.source
        BY <2>14, <2>16
      <4>4. QED
        BY <4>1, <4>2, <4>3 DEF PreferencesOK
    <3>4. QED
      BY <2>14, <2>16, <2>17, <3>1, <3>2, <3>3 DEF WorkOK
  <2>20. WorkOK(work[t], d)' /\ agreed' \subseteq Facts \X (0..3)
    BY <1>1, <2>16, <2>19, CareerTyped
  <2>21. sources' \in Seq(Purposes) /\ request' = [request EXCEPT ![t] = d]
    BY <1>1, <2>13, <2>16
  <2>22. QED
    BY <1>1, <2>6, <2>9, <2>10, <2>11, <2>12, <2>18, <2>20, <2>21, HandlerKeeps
<1>4. QED
  BY <1>2, <1>3

LEMMA CommitCorrectionKeeps ==
  ASSUME CareerInv, NEW t \in OpenTabs, CommitCorrection(t)
  PROVE  CareerInv'
<1>1. /\ UNCHANGED <<sources, organization, snapshot, out, work, deeds>> /\ Room
      /\ request[t].step = "read" /\ request[t].kind = "correct"
      /\ CareerTypeOK /\ RowInv /\ VerifiedWasReviewed /\ sources \in Seq(Purposes)
      /\ RequestOK(request[t]) /\ WorkOK(work[t], request[t]) /\ request[t] \in TabRequests /\ work[t] \in Works
      /\ agreed \subseteq Facts \X (0..3) /\ fact \in [Facts -> FactRows] /\ Len(sources) \in Nat
  BY CareerTyped DEF CommitCorrection, Handles, CareerInv, CareerTypeOK
<1>2. CASE fact[request[t].fact].revision # request[t].revision
  <2>1. Reply(t, "refused") /\ UNCHANGED <<careerTables, snapshot, out, work, agreed, deeds>>
    BY <1>2 DEF CommitCorrection, careerTables
  <2>2. QED
    BY <1>1, <2>1, RefusalKeeps
<1>3. CASE fact[request[t].fact].revision = request[t].revision
  <2>1. PICK f \in Facts : f = request[t].fact
    BY <1>1 DEF RequestOK
  <2>2. PICK g \in Facts : g = FreshFact /\ fact[g].status = "absent"
    BY <1>1, FreshFactIsFree
  <2>3. PICK row \in FactRows, n \in Nat : row = fact[f] /\ n = request[t].source
    BY <1>1 DEF TabRequests
  <2>4. /\ row.revision \in {1, 2} /\ row.status # "absent" /\ f # g
        /\ n \in 1..Len(sources) /\ fact[g].revision = 0
    <3>1. row.revision \in {1, 2} /\ n \in 1..Len(sources)
      BY <1>1, <1>3, <2>1, <2>3 DEF RequestOK
    <3>2. row.status # "absent"
      BY <1>1, <2>3, <3>1 DEF RowInv
    <3>3. QED
      BY <1>1, <2>2, <2>3, <3>1, <3>2 DEF RowInv
  <2> DEFINE old == [row EXCEPT !.revision = row.revision + 1, !.status = "superseded"]
             new == [row EXCEPT !.status = "verified", !.revision = 1, !.source = n, !.by = "user"]
  <2>5. fact' = [fact EXCEPT ![f].revision = @ + 1, ![f].status = "superseded", ![g] = new]
    BY <1>3, <2>1, <2>2, <2>3 DEF CommitCorrection
  <2>6. /\ fact'[f] = old /\ fact'[g] = new /\ DOMAIN fact' = Facts
        /\ \A h \in Facts \ {f, g} : fact'[h] = fact[h]
    <3> HIDE DEF new
    <3>1. QED
      BY <1>1, <2>3, <2>4, <2>5
  <2>7. PICK m \in 0..3 : m = row.revision + 1
    BY <2>4
  <2>8. PICK o \in FactRows : /\ o = old /\ o.revision = row.revision + 1 /\ o.status = "superseded"
                              /\ o.by = row.by /\ o.source = row.source
                              /\ o.preference <=> row.preference
    <3>1. old = [row EXCEPT !.revision = m, !.status = "superseded"]
      BY <2>7
    <3>2. "superseded" \in Statuses
      BY DEF Statuses
    <3>3. old \in FactRows
      BY <3>1, <3>2, DecidedTyped
    <3>4. /\ old.revision = row.revision + 1 /\ old.status = "superseded"
          /\ old.by = row.by /\ old.source = row.source
      BY DEF FactRows
    <3>5. old.preference <=> row.preference
      BY DEF FactRows
    <3> HIDE DEF old
    <3>6. QED
      BY <3>3, <3>4, <3>5
  <2>9. PICK r \in FactRows : /\ r = new /\ r.revision = 1 /\ r.status = "verified"
                              /\ r.by = "user" /\ r.source = n
    <3>1. "verified" \in Statuses /\ "user" \in Organizations \cup {"user", Nobody}
      BY DEF Statuses
    <3>2. new \in FactRows
      BY <3>1, RowTyped
    <3>3. new.revision = 1 /\ new.status = "verified" /\ new.by = "user" /\ new.source = n
      BY DEF FactRows
    <3> HIDE DEF new
    <3>4. QED
      BY <3>2, <3>3
  <2>10. /\ fact'[f] = o /\ fact'[g] = r /\ fact' \in [Facts -> FactRows]
         /\ \A h \in Facts \ {f, g} : fact'[h] = fact[h]
    <3>1. fact'[f] = o /\ fact'[g] = r
      BY <2>6, <2>8, <2>9
    <3>2. \A h \in Facts : fact'[h] \in FactRows
      BY <1>1, <2>6, <3>1
    <3> HIDE DEF new
    <3>3. QED
      BY <1>1, <2>5, <2>6, <3>1, <3>2
  <2> HIDE DEF old, new
  <2>11. o.revision = row.revision + 1 /\ o.status = "superseded" /\ o.by = row.by
         /\ o.source = row.source
    BY <2>8
  <2>12. o.preference = row.preference
    <3>1. o.preference \in BOOLEAN /\ row.preference \in BOOLEAN
      BY DEF FactRows
    <3>2. QED
      BY <2>8, <3>1
  <2>13. agreed' = agreed \cup {<<g, 0>>} /\ agreed' \subseteq Facts \X (0..3)
    BY <1>1, <1>3, <2>2 DEF CommitCorrection
  <2>14. Forward
    <3>1. fact'[f].revision = fact[f].revision + 1 /\ fact'[f].by = fact[f].by
      BY <2>3, <2>10, <2>11
    <3>2. fact'[f].preference = fact[f].preference
      BY <2>3, <2>10, <2>12
    <3>3. fact'[g].revision = fact[g].revision + 1 /\ ~(fact[g].revision > 0)
      BY <2>4, <2>9, <2>10
    <3>4. FactsForward
      <4>1. ASSUME NEW h \in Facts
            PROVE  \/ fact'[h] = fact[h]
                   \/ /\ fact'[h].revision = fact[h].revision + 1
                      /\ fact[h].revision > 0 =>
                           fact'[h].preference = fact[h].preference /\ fact'[h].by = fact[h].by
        <5>1. CASE h = f
          BY <3>1, <3>2, <5>1, Zenon
        <5>2. CASE h = g
          BY <3>3, <5>2, Zenon
        <5>3. CASE h \notin {f, g}
          BY <2>10, <5>3
        <5>4. QED
          BY <5>1, <5>2, <5>3
      <4>2. QED
        BY <4>1, Zenon DEF FactsForward
    <3>5. QED
      BY <1>1, <2>13, <3>4 DEF Forward
  <2>15. \A h \in Facts : fact'[h].status # "absent" =>
                           fact'[h].source \in 1..Len(sources') /\ fact'[h].by # Nobody
    <3>1. row.source \in 1..Len(sources) /\ row.by # Nobody /\ "user" # Nobody
      BY <1>1, <2>3, <2>4, CareerAssumption DEF CareerTypeOK
    <3>2. sources' = sources
      BY <1>1
    <3>3. QED
      BY <1>1, <2>4, <2>9, <2>10, <2>11, <3>1, <3>2 DEF CareerTypeOK
  <2>16. RowInv'
    BY <1>1, <2>4, <2>9, <2>10, <2>11 DEF RowInv
  <2>17. VerifiedWasReviewed'
    <3>1. ASSUME NEW h \in Facts, fact'[h].status = "verified", ~fact'[h].preference
          PROVE  <<h, fact'[h].revision - 1>> \in agreed' /\ Vouched(h)'
      <4>1. CASE h = g
        <5>1. fact'[g].revision - 1 = 0 /\ fact'[g].by \notin Organizations
          BY <2>9, <2>10, CareerAssumption
        <5>2. Vouched(h)'
          BY <4>1, <5>1 DEF Vouched
        <5>3. QED
          BY <2>13, <4>1, <5>1, <5>2
      <4>2. CASE h = f
        BY <2>10, <2>11, <3>1, <4>2
      <4>3. CASE h \notin {f, g}
        BY <1>1, <2>10, <2>13, <3>1, <4>3 DEF VerifiedWasReviewed, Vouched
      <4>4. QED
        BY <4>1, <4>2, <4>3
    <3>2. QED
      BY <3>1 DEF VerifiedWasReviewed, Vouched
  <2> DEFINE c == [request[t] EXCEPT !.step = "accepted"]
  <2>18. request' = [request EXCEPT ![t] = c]
    BY <1>3, CareerTyped DEF CommitCorrection, Reply
  <2>19. /\ c \in TabRequests /\ c.step = "accepted" /\ c.kind = "correct" /\ c.fact = f
         /\ c.revision = request[t].revision
    BY <1>1, <2>1 DEF TabRequests
  <2> HIDE DEF c
  <2>20. PICK d \in TabRequests : d = c
    BY <2>19
  <2>21. RequestOK(d)'
    <3>1. d.revision \in {1, 2}
      BY <1>1, <2>19, <2>20 DEF RequestOK
    <3>2. QED
      BY <2>19, <2>20, <3>1 DEF RequestOK, Outcomes
  <2>22. WorkOK(work[t], d)'
    <3>1. work[t].kind \notin {"none", "review", "preferences"} /\ work' = work
      BY <1>1 DEF WorkOK, ReviewOK, PreferencesOK
    <3>2. QED
      BY <2>19, <2>20, <3>1 DEF WorkOK
  <2>23. sources' \in Seq(Purposes) /\ request' = [request EXCEPT ![t] = d]
         /\ UNCHANGED <<organization, snapshot, out, work, deeds>>
    BY <1>1, <2>18, <2>20
  <2>24. QED
    BY <2>10, <2>13, <2>14, <2>15, <2>16, <2>17, <2>21, <2>22, <2>23, HandlerKeeps
<1>4. QED
  BY <1>2, <1>3

-----------------------------------------------------------------------------
\* Organization runs move no request.
LEMMA RunKeeps ==
  ASSUME CareerInv, Forward, UNCHANGED <<work, request>>, CareerTypeOK', ShapeOK', SnapshotInv', RowInv',
         VerifiedWasReviewed'
  PROVE  CareerInv'
<1>1. ASSUME NEW u \in OpenTabs
      PROVE  RequestOK(request[u])' /\ WorkOK(work[u], request[u])'
  <2>1. /\ request[u] \in TabRequests /\ work[u] \in Works /\ request' = request /\ work' = work
        /\ RequestOK(request[u]) /\ WorkOK(work[u], request[u]) /\ CareerTypeOK
    BY CareerTyped DEF CareerInv
  <2>2. PICK c \in TabRequests, w \in Works : c = request[u] /\ w = work[u]
    BY <2>1
  <2>3. RequestOK(c)' /\ WorkOK(w, c)'
    BY <2>1, <2>2, RequestKept, WorkKept
  <2>4. QED
    BY <2>1, <2>2, <2>3
<1>2. RequestInv' /\ WorkInv'
  BY <1>1 DEF RequestInv, WorkInv
<1>3. QED
  BY <1>2 DEF CareerInv

LEMMA SuggestFactKeeps ==
  ASSUME CareerInv, NEW o \in Organizations, SuggestFact(o)
  PROVE  CareerInv'
<1>1. /\ UNCHANGED <<sources, organization, snapshot, out, work, request, agreed, deeds>> /\ Room
      /\ organization[o].state # "absent" /\ sources \in Seq(Purposes)
      /\ organization \in [Organizations -> Organization] /\ Len(sources) \in Nat
      /\ organization[o].source \in 0..Len(sources) /\ organization[o].source > 0
      /\ organization[o].source \in Nat /\ agreed \subseteq Facts \X (0..3)
      /\ request \in [OpenTabs -> TabRequests]
  BY DEF SuggestFact, CareerInv, CareerTypeOK, ShapeOK, Organization
<1>2. PICK n \in Nat : n = organization[o].source
  BY <1>1
<1>9. PICK a \in Organizations \cup {"user"} : a = o
  OBVIOUS
<1>3. PICK row \in FactRows :
        /\ row = [NoFact EXCEPT !.status = "proposed", !.revision = 1, !.source = n, !.by = a]
        /\ row.status = "proposed" /\ row.revision = 1 /\ row.source = n /\ row.by # Nobody
  BY ProposedTyped
<1>4. /\ fact' = [fact EXCEPT ![FreshFact] = row] /\ row.source \in 1..Len(sources')
      /\ UNCHANGED <<organization, agreed>>
      /\ Len(sources) <= Len(sources') /\ sources' \in Seq(Purposes)
  BY <1>1, <1>2, <1>3, <1>9 DEF SuggestFact
<1>5. /\ fact' \in [Facts -> FactRows]
      /\ \A f \in Facts : fact'[f].status # "absent" =>
                             fact'[f].source \in 1..Len(sources') /\ fact'[f].by # Nobody
      /\ Forward /\ RowInv' /\ VerifiedWasReviewed'
  BY <1>1, <1>3, <1>4, NewFact
<1>6. /\ organization' \in [Organizations -> Organization] /\ request' \in [OpenTabs -> TabRequests]
      /\ \A p \in Organizations :
           /\ organization'[p].source \in 0..Len(sources')
           /\ organization'[p].state # "absent" => organization'[p].source > 0
  BY <1>1 DEF CareerInv, CareerTypeOK, ShapeOK
<1>7. CareerTypeOK' /\ ShapeOK' /\ SnapshotInv'
  BY <1>1, <1>4, <1>5, <1>6, TablesTyped
<1>8. QED
  BY <1>1, <1>5, <1>7, RunKeeps

LEMMA EndOrganizationKeeps ==
  ASSUME CareerInv, NEW o \in Organizations, EndOrganization(o)
  PROVE  CareerInv'
<1>1. /\ UNCHANGED <<sources, fact, snapshot, out, work, request, agreed, deeds>>
      /\ organization[o].state = "running" /\ CareerTypeOK /\ RowInv /\ VerifiedWasReviewed
      /\ organization \in [Organizations -> Organization] /\ Len(sources) \in Nat
  BY DEF EndOrganization, CareerInv, CareerTypeOK, ShapeOK
<1>2. /\ organization' \in [Organizations -> Organization]
      /\ organization'[o].state # "running" /\ organization'[o].source = organization[o].source
      /\ \A p \in Organizations \ {o} : organization'[p] = organization[p]
  <2>1. CASE organization' = [organization EXCEPT ![o].state = "failed"]
    BY <1>1, <2>1 DEF Organization
  <2>2. CASE \E results \in SUBSET Facts :
               organization' = [organization EXCEPT ![o].state = "succeeded", ![o].results = results]
    <3>1. PICK results \in SUBSET Facts :
            organization' = [organization EXCEPT ![o].state = "succeeded", ![o].results = results]
      BY <2>2
    <3>2. /\ organization'[o] = [organization[o] EXCEPT !.state = "succeeded", !.results = results]
          /\ \A p \in Organizations \ {o} : organization'[p] = organization[p]
          /\ DOMAIN organization' = Organizations
      BY <1>1, <3>1
    <3>3. organization'[o] \in Organization
      BY <1>1, <3>2 DEF Organization
    <3>4. organization'[o].state # "running" /\ organization'[o].source = organization[o].source
      BY <1>1, <3>2 DEF Organization
    <3>5. organization' \in [Organizations -> Organization]
      BY <1>1, <3>1, <3>2, <3>3
    <3>6. QED
      BY <3>2, <3>4, <3>5
  <2>3. QED
    <3>1. ASSUME NEW results \in SUBSET {f \in Facts : /\ fact[f].status = "proposed"
                                             /\ fact[f].by \in Organizations
                                             /\ fact[f].source = organization[o].source}
          PROVE  results \in SUBSET Facts
      OBVIOUS
    <3>2. QED
      BY <2>1, <2>2, <3>1 DEF EndOrganization
<1>3. Forward
  BY <1>1, <1>2 DEF Forward, FactsForward
<1>4. RowInv' /\ VerifiedWasReviewed'
  BY <1>1, <1>2 DEF RowInv, VerifiedWasReviewed
<1>5. /\ \A p \in Organizations :
           /\ organization'[p].source \in 0..Len(sources')
           /\ organization'[p].state # "absent" => organization'[p].source > 0
      /\ fact' \in [Facts -> FactRows] /\ sources' \in Seq(Purposes)
      /\ agreed' \subseteq Facts \X (0..3) /\ request' \in [OpenTabs -> TabRequests]
      /\ \A f \in Facts : fact'[f].status # "absent" =>
                             fact'[f].source \in 1..Len(sources') /\ fact'[f].by # Nobody
  BY <1>1, <1>2 DEF CareerInv, CareerTypeOK, ShapeOK
<1>6. CareerTypeOK' /\ ShapeOK' /\ SnapshotInv'
  BY <1>1, <1>2, <1>3, <1>5, TablesTyped
<1>7. QED
  BY <1>1, <1>3, <1>4, <1>6, RunKeeps

-----------------------------------------------------------------------------
\* The tables as an earlier session may have left them.
LEMMA InitTables ==
  ASSUME CareerInit
  PROVE  /\ fact \in [Facts -> FactRows] /\ organization \in [Organizations -> Organization]
         /\ \A f \in Facts :
              \/ fact[f].status = "absent" /\ fact[f].revision = 0
              \/ /\ fact[f].status = "verified" /\ fact[f].revision = 2 /\ fact[f].source = 1
                 /\ fact[f].by # Nobody /\ <<f, 1>> \in agreed /\ Vouched(f)
         /\ \A o \in Organizations :
              /\ organization[o].state # "absent" => organization[o].source > 0
              /\ organization[o].source \in 0..1
         /\ agreed \subseteq Facts \X (0..3)
<1>1. NoFact \in FactRows /\ NoFact.status = "absent" /\ NoFact.revision = 0 /\ 1 \in Facts
  BY NoFactTyped, CareerAssumption DEF NoFact, Facts
<1>2. /\ NoOrganization \in Organization /\ NoOrganization.state = "absent"
      /\ NoOrganization.source = 0
  BY DEF NoOrganization, Organization
<1>3. CASE /\ fact = [f \in Facts |-> NoFact]
           /\ organization = [o \in Organizations |-> NoOrganization]
           /\ agreed = {}
  BY <1>1, <1>2, <1>3
<1>4. CASE \E o \in Organizations :
          /\ fact = [f \in Facts |-> IF f > 1 THEN NoFact ELSE
                       [NoFact EXCEPT !.status = "verified", !.revision = 2, !.source = 1, !.by = o]]
          /\ organization = [p \in Organizations |-> IF p # o THEN NoOrganization ELSE
                               [state |-> "succeeded", source |-> 1, results |-> {1}]]
          /\ agreed = {<<1, 1>>}
  <2>1. PICK o \in Organizations :
          /\ fact = [f \in Facts |-> IF f > 1 THEN NoFact ELSE
                       [NoFact EXCEPT !.status = "verified", !.revision = 2, !.source = 1, !.by = o]]
          /\ organization = [p \in Organizations |-> IF p # o THEN NoOrganization ELSE
                               [state |-> "succeeded", source |-> 1, results |-> {1}]]
          /\ agreed = {<<1, 1>>}
    BY <1>4
  <2>2. PICK row \in FactRows :
          /\ row = [NoFact EXCEPT !.status = "verified", !.revision = 2, !.source = 1, !.by = o]
          /\ row.status = "verified" /\ row.revision = 2 /\ row.source = 1 /\ row.by = o
    <3> DEFINE q == [NoFact EXCEPT !.status = "verified", !.revision = 1, !.source = 1, !.by = o]
               r == [NoFact EXCEPT !.status = "verified", !.revision = 2, !.source = 1, !.by = o]
    <3>1. "verified" \in Statuses /\ o \in Organizations \cup {"user", Nobody}
      BY DEF Statuses
    <3>2. q \in FactRows
      BY <1>1, <3>1, RowTyped
    <3>3. [q EXCEPT !.revision = 2] \in FactRows
      <4> HIDE DEF q
      <4>1. QED
        BY <3>2 DEF FactRows
    <3>4. r = [q EXCEPT !.revision = 2]
      BY <1>1 DEF FactRows
    <3>5. r.status = "verified" /\ r.revision = 2 /\ r.source = 1 /\ r.by = o
      BY <1>1 DEF FactRows
    <3> HIDE DEF q, r
    <3>6. QED
      BY <3>3, <3>4, <3>5 DEF r
  <2>3. fact = [f \in Facts |-> IF f > 1 THEN NoFact ELSE row]
    BY <2>1, <2>2
  <2>4. \A f \in Facts : f > 1 => fact[f] = NoFact
    BY <2>3
  <2>5. \A f \in Facts : ~(f > 1) => fact[f] = row /\ f = 1
    BY <2>3, CareerAssumption DEF Facts
  <2>6. fact \in [Facts -> FactRows]
    BY <1>1, <2>3
  <2>7. organization \in [Organizations -> Organization]
    <3>1. [state |-> "succeeded", source |-> 1, results |-> {1}] \in Organization
      BY <1>1 DEF Organization
    <3>2. QED
      BY <1>2, <2>1, <3>1
  <2>8. /\ \A p \in Organizations :
            /\ organization[p].state # "absent" => organization[p].source > 0
            /\ organization[p].source \in 0..1
        /\ organization[o].state = "succeeded" /\ 1 \in organization[o].results
    BY <1>2, <2>1
  <2>9. agreed \subseteq Facts \X (0..3) /\ <<1, 1>> \in agreed
    BY <1>1, <2>1
  <2>10. row.by # Nobody /\ \A f \in Facts : f = 1 => Vouched(f)
    BY <2>2, <2>8, CareerAssumption DEF Vouched
  <2>11. ASSUME NEW f \in Facts
         PROVE  \/ fact[f].status = "absent" /\ fact[f].revision = 0
                \/ /\ fact[f].status = "verified" /\ fact[f].revision = 2 /\ fact[f].source = 1
                   /\ fact[f].by # Nobody /\ <<f, 1>> \in agreed /\ Vouched(f)
    <3>1. CASE f > 1
      BY <1>1, <2>4, <3>1
    <3>2. CASE ~(f > 1)
      BY <2>2, <2>5, <2>9, <2>10, <3>2
    <3>3. QED
      BY <3>1, <3>2
  <2>12. QED
    BY <2>6, <2>7, <2>8, <2>9, <2>11
<1>5. QED
  BY <1>3, <1>4 DEF CareerInit

LEMMA InitEstablishes ==
  ASSUME CareerInit
  PROVE  CareerInv
<1>1. /\ sources = <<"material">> /\ out = [t \in OpenTabs |-> {}] /\ deeds = 0
      /\ snapshot = [t \in OpenTabs |-> [sources |-> 1, fact |-> fact, organization |-> organization]]
      /\ work = [t \in OpenTabs |-> NoWork] /\ request = [t \in OpenTabs |-> NoRequest]
  BY DEF CareerInit
<1>12. \A f \in Facts :
         \/ fact[f].status = "absent" /\ fact[f].revision = 0
         \/ /\ fact[f].status = "verified" /\ fact[f].revision = 2 /\ fact[f].source = 1
            /\ fact[f].by # Nobody /\ <<f, 1>> \in agreed /\ Vouched(f)
  BY InitTables, Zenon
<1>13. \A f \in Facts :
         \/ fact[f].status = "absent" /\ fact[f].revision = 0
         \/ /\ fact[f].status = "verified" /\ fact[f].revision = 2 /\ fact[f].source = 1
            /\ fact[f].by # Nobody
  BY <1>12, Zenon
<1>2. Len(sources) = 1 /\ sources \in Seq(Purposes)
  BY <1>1 DEF Purposes
<1>3. /\ NoWork \in Works /\ NoWork.kind = "none" /\ NoRequest \in TabRequests
      /\ NoRequest.step = "free" /\ NoRequest.kind = "none"
  BY NoWorkTyped, NoRequestTyped DEF NoRequest
<1>4. CareerTypeOK
  <2>1. \A f \in Facts : fact[f].status # "absent" =>
          fact[f].source \in 1..Len(sources) /\ fact[f].by # Nobody
    BY <1>2, <1>13
  <2>2. \A o \in Organizations :
          /\ organization[o].state \in {"absent", "running", "succeeded", "failed"}
          /\ organization[o].source \in 0..Len(sources)
          /\ organization[o].results \subseteq Facts
    BY <1>2, InitTables DEF Organization
  <2>3. \A t \in OpenTabs : snapshot[t].sources \in 0..Len(sources) /\ snapshot[t].fact \in [Facts -> FactRows]
    BY <1>1, <1>2, InitTables
  <2>4. /\ out \in [OpenTabs -> SUBSET Facts] /\ work \in [OpenTabs -> Works]
        /\ request \in [OpenTabs -> TabRequests] /\ deeds \in 0..MaxDeeds
    BY <1>1, <1>3, CareerAssumption
  <2>5. QED
    BY <1>2, <2>1, <2>2, <2>3, <2>4, InitTables DEF CareerTypeOK
<1>5. ShapeOK
  BY <1>1, InitTables DEF ShapeOK
<1>6. RowInv
  BY <1>13 DEF RowInv
<1>7. SnapshotInv
  BY <1>1, <1>4, <1>6, KnowsItself DEF SnapshotInv
<1>8. RequestInv
  BY <1>1, <1>3 DEF RequestInv, RequestOK, Outcomes
<1>9. WorkInv
  BY <1>1, <1>3 DEF WorkInv, WorkOK
<1>10. VerifiedWasReviewed
  <2>1. ASSUME NEW f \in Facts, fact[f].status = "verified"
        PROVE  <<f, fact[f].revision - 1>> \in agreed /\ Vouched(f)
    <3>1. fact[f].revision = 2 /\ <<f, 1>> \in agreed /\ Vouched(f)
      BY <1>12, <2>1
    <3>2. fact[f].revision - 1 = 1
      BY <3>1
    <3>3. QED
      BY <3>1, <3>2
  <2>2. QED
    BY <2>1 DEF VerifiedWasReviewed, Vouched
<1>11. QED
  BY <1>4, <1>5, <1>6, <1>7, <1>8, <1>9, <1>10 DEF CareerInv

LEMMA StutterKeeps ==
  ASSUME CareerInv, UNCHANGED careerVars
  PROVE  CareerInv'
<1>1. UNCHANGED <<sources, fact, organization, snapshot, out, work, request, agreed, deeds>>
  BY DEF careerVars, careerTables
<1>2. CareerTypeOK' /\ ShapeOK' /\ RowInv' /\ VerifiedWasReviewed'
  BY <1>1 DEF CareerInv, CareerTypeOK, ShapeOK, RowInv, VerifiedWasReviewed
<1>3. Forward
  BY <1>1, Still DEF CareerInv, careerTables
<1>4. SnapshotInv'
  BY <1>1, <1>2, <1>3, TablesKept
<1>5. QED
  BY <1>1, <1>2, <1>3, <1>4, RunKeeps

LEMMA TabNextKeeps ==
  ASSUME CareerInv, NEW t \in OpenTabs, TabNext(t)
  PROVE  CareerInv'
<1>1. CASE SeeFacts(t) \/ SeeOrganizations(t)
  BY <1>1, SeeFactsKeeps, SeeOrganizationsKeeps
<1>2. CASE AddMaterial(t) \/ AddEntry(t) \/ ProposeStatement(t)
  BY <1>2, AddKeeps, ProposeStatementKeeps
<1>3. CASE LeaveOut(t) \/ Review(t) \/ SavePreferences(t)
  BY <1>3, LeaveOutKeeps, ReviewKeeps, SavePreferencesKeeps
<1>4. CASE \E f \in Facts : \/ Correct(t, f) \/ UseSetting(t, f)
                            \/ \E outcome \in Outcomes : Decide(t, f, outcome)
  BY <1>4, CorrectKeeps, UseSettingKeeps, DecideKeeps
<1>5. CASE \E o \in Organizations : Organize(t, o)
  BY <1>5, OrganizeKeeps
<1>6. CASE NextFact(t) \/ FactDecided(t) \/ NextWish(t) \/ Finish(t) \/ FailRequest(t)
  BY <1>6, NextFactKeeps, FactDecidedKeeps, NextWishKeeps, FinishKeeps, FailKeeps
<1>7. QED
  BY <1>1, <1>2, <1>3, <1>4, <1>5, <1>6 DEF TabNext

LEMMA HandlerNextKeeps ==
  ASSUME CareerInv, NEW t \in OpenTabs, HandlerNext(t)
  PROVE  CareerInv'
BY CaptureSourceKeeps, AddCareerHistoryEntryKeeps, ProposeProfileFactKeeps,
   CaptureCorrectionKeeps, ReadFactKeeps, CommitDecisionKeeps, CommitCorrectionKeeps
   DEF HandlerNext

LEMMA NextKeeps ==
  ASSUME CareerInv, [CareerNext]_careerVars
  PROVE  CareerInv'
<1>1. CASE \E t \in OpenTabs : TabNext(t) \/ HandlerNext(t)
  BY <1>1, TabNextKeeps, HandlerNextKeeps
<1>2. CASE \E o \in Organizations : SuggestFact(o) \/ EndOrganization(o)
  BY <1>2, SuggestFactKeeps, EndOrganizationKeeps
<1>3. CASE UNCHANGED careerVars
  BY <1>3, StutterKeeps
<1>4. QED
  BY <1>1, <1>2, <1>3 DEF CareerNext

\* The inductive invariant of the career record: whatever a page still shows of a
\* fact, and whatever a request names, is known of the row by its revision, which
\* proposeProfileFact, confirmProfileFact and the correction raise.
THEOREM CareerInvariant == CareerSpec => []CareerInv
<1>1. CareerInit => CareerInv
  BY InitEstablishes
<1>2. CareerInv /\ [CareerNext]_careerVars => CareerInv'
  BY NextKeeps
<1>3. QED
  BY <1>1, <1>2, PTL DEF CareerSpec

\* Rows, organizations, snapshots and requests keep the shape of their schemas, and
\* every fact names a source that captureSource has stored and who suggested it.
THEOREM CareerTypeCorrect == CareerSpec => []CareerTypeOK
<1>1. CareerInv => CareerTypeOK
  BY DEF CareerInv
<1>2. QED
  BY <1>1, CareerInvariant, PTL

\* confirmProfileFact verifies no detail of the career record but as a page had
\* shown it to the user who agreed to it, and none of an agent whose organization
\* did not complete: however many tabs decide and organizations run.
THEOREM OnlyWhatWasReviewed == CareerSpec => []VerifiedWasReviewed
<1>1. CareerInv => VerifiedWasReviewed
  BY DEF CareerInv
<1>2. QED
  BY <1>1, CareerInvariant, PTL

\* Where the page shows the setup as complete (careerSetupComplete of App.tsx), an
\* organization has succeeded and each of its results is decided, although the
\* lists of the snapshot were read one after the other.
THEOREM CompletionIsTrue == CareerSpec => []CompleteMeansDecided
<1>1. CareerInv => CompleteMeansDecided
  <2> SUFFICES ASSUME CareerInv, NEW t \in OpenTabs, SetupComplete(t)
               PROVE  \E o \in Organizations :
                        /\ organization[o].state = "succeeded" /\ organization[o].results # {}
                        /\ \A f \in organization[o].results : fact[f].status # "proposed"
    BY DEF CompleteMeansDecided
  <2>1. PICK o \in Organizations :
          /\ snapshot[t].organization[o].state = "succeeded" /\ snapshot[t].organization[o].results # {}
          /\ \A f \in snapshot[t].organization[o].results :
                snapshot[t].fact[f].status \notin {"absent", "proposed"}
    BY DEF SetupComplete
  <2>2. snapshot[t].organization[o] = organization[o] /\ organization[o].results \subseteq Facts
    BY <2>1 DEF CareerInv, SnapshotInv, CareerTypeOK
  <2>3. ASSUME NEW f \in organization[o].results PROVE fact[f].status # "proposed"
    <3>1. /\ f \in Facts /\ snapshot[t].fact[f].status \notin {"absent", "proposed"}
          /\ Knows(snapshot[t].fact[f], f) /\ snapshot[t].fact[f] \in FactRows /\ fact[f] \in FactRows
          /\ RowInv
      BY <2>1, <2>2 DEF CareerInv, SnapshotInv, CareerTypeOK
    <3>2. snapshot[t].fact[f].revision > 0 /\ snapshot[t].fact[f].revision <= fact[f].revision
      BY <3>1 DEF Knows
    <3>3. CASE snapshot[t].fact[f].revision = fact[f].revision
      BY <3>1, <3>3 DEF Knows
    <3>4. CASE snapshot[t].fact[f].revision < fact[f].revision
      BY <3>1, <3>2, <3>4 DEF RowInv, FactRows
    <3>5. QED
      BY <3>1, <3>2, <3>3, <3>4 DEF FactRows
  <2>4. QED
    BY <2>1, <2>2, <2>3
<1>2. QED
  BY <1>1, CareerInvariant, PTL

-----------------------------------------------------------------------------
(***************************************************************************)
(* Events and the stream.                                                   *)
(***************************************************************************)

\* A snapshot is three lists.
Count == 1..3
Fetches == [step : {"none", "reading", "lost"}, got : Seq(Versions), retried : BOOLEAN]
Pages == [shown : [Count -> Versions], fetch : Fetches,
          session : {None} \cup 0..MaxDisturbances, asks : {None} \cup Requests]
PageOK(p) == p \in Pages /\ Len(p.fetch.got) <= 3

Polls == [tick : {0}, page : [from : Nat, to : Nat]]
Streams == [state : {"none", "opening", "serving"}, cursor : Nat, polls : SUBSET Polls,
            wire : Seq(1..MaxEvents), opened : BOOLEAN, last : Nat]
PollOf(from, to) == [tick |-> 0, page |-> [from |-> from, to |-> to]]

\* What the wire holds follows what the page has received last, up to the
\* cursor, and the one poll under way reads what follows the cursor.
StreamOK(s, n) ==
  /\ s \in Streams
  /\ s.cursor = s.last + Len(s.wire) /\ s.cursor <= n
  /\ \A i \in 1..Len(s.wire) : s.wire[i] = s.last + i
  /\ s.polls = {} \/ \E to \in 0..n : s.cursor < to /\ s.polls = {PollOf(s.cursor + 1, to)}

EventsInv == events \in Seq(Events) /\ Len(events) \in 1..MaxEvents
ServerInv ==
  /\ server \in [up : BOOLEAN, start : 0..MaxDisturbances] /\ disturbed \in 0..MaxDisturbances
  /\ server.start <= disturbed /\ (~server.up => server.start < disturbed)
DeliveriesInv ==
  /\ delivery \in [Deliveries -> [step : {"free", "admit", "send", "record"}, request : {None} \cup Requests]]
  /\ \A c \in Deliveries : delivery[c].step # "free" => delivery[c].request \in Requests
  /\ sent \in [Requests -> Nat]

\* The inductive invariant.
ActivityInv == EventsInv /\ ServerInv /\ StreamOK(stream, Len(events)) /\ PageOK(page) /\ DeliveriesInv

-----------------------------------------------------------------------------
LEMMA ThreeLists == Len(Reads) = 3 /\ 1..Len(Reads) = Count
BY DEF Reads, Count

LEMMA VersionTyped ==
  ASSUME EventsInv, NEW list
  PROVE  Version(list) \in Versions
<1> DEFINE S == {0} \cup {i \in 1..Len(events) : Changes(events[i], list)}
<1>1. S \in SUBSET (0..Len(events)) /\ S # {} /\ Len(events) \in Nat
  <2>1. 0 \in 0..Len(events) /\ Len(events) \in Nat
    BY DEF EventsInv
  <2>2. {i \in 1..Len(events) : Changes(events[i], list)} \subseteq 0..Len(events)
    BY <2>1
  <2>3. QED
    BY <2>1, <2>2
<1>2. PICK n \in Nat : n = Len(events)
  BY <1>1
<1>3. PICK R \in SUBSET (0..n) : R = S
  BY <1>1, <1>2
<1>4. Max(R) \in R
  BY <1>1, <1>3, GreatestIsOne
<1>5. Version(list) \in 0..Len(events)
  BY <1>1, <1>3, <1>4 DEF Version
<1>6. QED
  BY <1>5, ActivityAssumption DEF Versions, EventsInv

\* Events are only appended, and a stream does not mind.
LEMMA StreamKept ==
  ASSUME NEW n \in Nat, NEW m \in Nat, n <= m, NEW s, StreamOK(s, n)
  PROVE  StreamOK(s, m)
<1>1. s.cursor \in Nat /\ s.cursor <= m
  BY DEF StreamOK, Streams
<1>2. QED
  BY <1>1 DEF StreamOK

LEMMA NoStreamOK ==
  ASSUME NEW n \in Nat
  PROVE  /\ StreamOK(NoStream, n) /\ NoStream.state = "none" /\ NoStream.last = 0
         /\ StreamOK([NoStream EXCEPT !.state = "opening"], n)
         /\ [NoStream EXCEPT !.state = "opening"].last = 0
<1>1. NoStream \in Streams
  BY DEF NoStream, Streams
<1>2. /\ NoStream.cursor = 0 /\ NoStream.last = 0 /\ NoStream.wire = <<>> /\ NoStream.polls = {}
      /\ NoStream.state = "none"
  BY DEF NoStream
<1> DEFINE s == [NoStream EXCEPT !.state = "opening"]
<1>3. s \in Streams
  BY <1>1 DEF Streams
<1>4. s.cursor = 0 /\ s.last = 0 /\ s.wire = <<>> /\ s.polls = {}
  BY <1>1, <1>2 DEF Streams
<1> HIDE DEF s
<1>5. StreamOK(s, n)
  BY <1>3, <1>4 DEF StreamOK
<1>6. StreamOK(NoStream, n)
  BY <1>1, <1>2 DEF StreamOK
<1>7. QED
  BY <1>2, <1>4, <1>5, <1>6 DEF s

LEMMA RefreshOK ==
  ASSUME NEW p, PageOK(p)
  PROVE  PageOK(Refresh(p))
<1>1. PICK f \in Fetches : f.got = <<>> /\ Refresh(p) = [p EXCEPT !.fetch = f]
  <2> DEFINE f == [step |-> "reading", got |-> <<>>, retried |-> FALSE]
  <2>1. f \in Fetches /\ f.got = <<>>
    BY DEF Fetches
  <2>2. Refresh(p) = [p EXCEPT !.fetch = f]
    BY Zenon DEF Refresh, Fetching
  <2> HIDE DEF f
  <2>3. QED
    BY <2>1, <2>2
<1>2. PICK q \in Pages : q = Refresh(p) /\ q.fetch = f
  BY <1>1 DEF PageOK, Pages
<1>3. Len(q.fetch.got) = 0
  BY <1>1, <1>2
<1>4. PageOK(q)
  BY <1>3 DEF PageOK
<1>5. QED
  BY <1>2, <1>4

LEMMA Types ==
  ASSUME ActivityInv
  PROVE  ActivityTypeOK
<1>1. Cardinality(stream.polls) <= 1
  <2>1. CASE stream.polls = {}
    <3>1. Cardinality({}) = 0
      BY FS_EmptySet
    <3>2. QED
      BY <2>1, <3>1
  <2>2. CASE \E to \in 0..Len(events) : stream.polls = {PollOf(stream.cursor + 1, to)}
    <3>1. PICK poll : stream.polls = {poll}
      BY <2>2
    <3>2. Cardinality({poll}) = 1
      BY FS_Singleton
    <3>3. QED
      BY <3>1, <3>2
  <2>3. QED
    BY <2>1, <2>2 DEF ActivityInv, StreamOK
<1>2. /\ stream.state \in {"none", "opening", "serving"} /\ stream.opened \in BOOLEAN
      /\ stream.cursor \in 0..Len(events) /\ stream.last \in 0..stream.cursor
      /\ stream.wire \in Seq(1..MaxEvents)
  BY DEF ActivityInv, StreamOK, Streams, EventsInv
<1>3. /\ page.shown \in [1..Len(Reads) -> Versions]
      /\ page.fetch.step \in {"none", "reading", "lost"} /\ page.fetch.retried \in BOOLEAN
      /\ page.fetch.got \in Seq(Versions) /\ Len(page.fetch.got) <= Len(Reads)
      /\ page.session \in {None} \cup 0..MaxDisturbances /\ page.asks \in {None} \cup Requests
  BY ThreeLists DEF ActivityInv, PageOK, Pages, Fetches
<1>4. QED
  BY <1>1, <1>2, <1>3 DEF ActivityInv, ActivityTypeOK, EventsInv, ServerInv, DeliveriesInv

\* Of a step that does not move the stream.
LEMMA EventsAppended ==
  ASSUME ActivityInv, UNCHANGED events \/ \E event \in Events : CommitEvent(event)
  PROVE  /\ EventsInv' /\ Len(events) <= Len(events')
         /\ Len(events) \in Nat /\ Len(events') \in Nat
         /\ StreamOK(stream, Len(events'))
<1>1. EventsInv' /\ Len(events) <= Len(events') /\ Len(events) \in Nat /\ Len(events') \in Nat
  <2>1. events \in Seq(Events) /\ Len(events) \in 1..MaxEvents /\ Len(events) \in Nat
    BY DEF ActivityInv, EventsInv
  <2>2. CASE UNCHANGED events
    BY <2>1, <2>2 DEF EventsInv
  <2>3. ASSUME NEW event \in Events, CommitEvent(event)
        PROVE  /\ EventsInv' /\ Len(events) <= Len(events') /\ Len(events') \in Nat
    <3>1. /\ events' = Append(events, event) /\ Len(events) < MaxEvents
          /\ events' \in Seq(Events) /\ Len(events') = Len(events) + 1
      BY <2>1, <2>3 DEF CommitEvent
    <3>2. QED
      BY <2>1, <3>1, ActivityAssumption DEF EventsInv
  <2>4. QED
    BY <2>1, <2>2, <2>3
<1>2. QED
  BY <1>1, StreamKept DEF ActivityInv

-----------------------------------------------------------------------------
\* The page.
LEMMA ReadListKeeps ==
  ASSUME ActivityInv, ReadList
  PROVE  ActivityInv'
<1>1. /\ UNCHANGED <<events, server, stream, delivery, sent, disturbed>> /\ PageOK(page)
      /\ Len(page.fetch.got) < 3
      /\ page' = [page EXCEPT !.fetch.got = Append(@, Version(Reads[Len(@) + 1]))]
  BY ThreeLists DEF ReadList, parent, ActivityInv
<1>2. PICK p \in Pages, v \in Versions : p = page /\ v = Version(Reads[Len(page.fetch.got) + 1])
  BY <1>1, VersionTyped DEF ActivityInv, PageOK
<1>3. PICK f \in Fetches : f = p.fetch /\ Len(f.got) < 3
  BY <1>1, <1>2 DEF Pages
<1>4. PICK g \in Seq(Versions) : g = Append(f.got, v) /\ Len(g) <= 3
  <2>1. PICK got \in Seq(Versions) : got = f.got
    BY DEF Fetches
  <2>2. Append(got, v) \in Seq(Versions) /\ Len(Append(got, v)) = Len(got) + 1 /\ Len(got) \in Nat
    OBVIOUS
  <2>3. Len(got) < 3 /\ Append(f.got, v) = Append(got, v)
    BY <1>3, <2>1
  <2>4. Len(Append(got, v)) <= 3
    BY <2>2, <2>3
  <2>5. QED
    BY <2>2, <2>3, <2>4
<1>5. PICK h \in Fetches : h = [f EXCEPT !.got = g] /\ h.got = g
  <2> DEFINE h == [f EXCEPT !.got = g]
  <2>1. h \in Fetches /\ h.got = g
    BY DEF Fetches
  <2> HIDE DEF h
  <2>2. QED
    BY <2>1 DEF h
<1>6. PICK q \in Pages : q = [p EXCEPT !.fetch = h] /\ q.fetch = h
  <2> DEFINE q == [p EXCEPT !.fetch = h]
  <2>1. q \in Pages /\ q.fetch = h
    BY DEF Pages
  <2> HIDE DEF q
  <2>2. QED
    BY <2>1 DEF q
<1>7. page' = q
  BY <1>1, <1>2, <1>3, <1>4, <1>5, <1>6
<1>8. PageOK(page)'
  BY <1>4, <1>5, <1>6, <1>7 DEF PageOK
<1>9. QED
  BY <1>1, <1>8 DEF ActivityInv, EventsInv, ServerInv, DeliveriesInv

LEMMA NoFetchOK == NoFetch \in Fetches /\ Len(NoFetch.got) = 0
BY DEF NoFetch, Fetches

LEMMA ShowKeeps ==
  ASSUME ActivityInv, Show
  PROVE  ActivityInv'
<1>1. /\ UNCHANGED <<events, server, stream, delivery, sent, disturbed>> /\ page \in Pages
      /\ Len(page.fetch.got) = 3
      /\ page' = [page EXCEPT !.shown = page.fetch.got, !.fetch = NoFetch]
  BY ThreeLists DEF Show, parent, ActivityInv, PageOK
<1>2. page.fetch.got \in [Count -> Versions]
  <2>1. PICK got \in Seq(Versions) : got = page.fetch.got
    BY <1>1 DEF Pages, Fetches
  <2>2. Len(got) = 3
    BY <1>1, <2>1
  <2>3. got \in [1..3 -> Versions]
    BY <2>2, Z3
  <2>4. QED
    BY <2>1, <2>3 DEF Count
<1>3. page' \in Pages /\ page'.fetch = NoFetch
  BY <1>1, <1>2, NoFetchOK DEF Pages
<1>4. PageOK(page)'
  BY <1>3, NoFetchOK DEF PageOK
<1>5. QED
  BY <1>1, <1>4 DEF ActivityInv, EventsInv, ServerInv, DeliveriesInv

LEMMA RetryKeeps ==
  ASSUME ActivityInv, Retry
  PROVE  ActivityInv'
<1>1. /\ UNCHANGED <<events, server, stream, delivery, sent, disturbed>> /\ page \in Pages
  BY DEF Retry, parent, ActivityInv, PageOK
<1>2. PICK f \in Fetches : Len(f.got) = 0 /\ page' = [page EXCEPT !.fetch = f]
  <2> DEFINE f == [step |-> "reading", got |-> <<>>, retried |-> TRUE]
  <2>1. f \in Fetches /\ Len(f.got) = 0
    BY DEF Fetches
  <2>2. f = Fetching(TRUE)
    BY Zenon DEF Fetching
  <2> HIDE DEF f
  <2>3. page' = [page EXCEPT !.fetch = f] \/ page' = [page EXCEPT !.fetch = NoFetch]
    BY <2>2, Zenon DEF Retry
  <2>4. QED
    BY <2>1, <2>3, NoFetchOK
<1>3. page' \in Pages /\ page'.fetch = f
  BY <1>1, <1>2 DEF Pages
<1>4. PageOK(page)'
  BY <1>2, <1>3 DEF PageOK
<1>5. QED
  BY <1>1, <1>4 DEF ActivityInv, EventsInv, ServerInv, DeliveriesInv

-----------------------------------------------------------------------------
\* The stream.
LEMMA ConnectKeeps ==
  ASSUME ActivityInv, Connect
  PROVE  ActivityInv' /\ stream'.last = 0
<1>1. /\ UNCHANGED <<events, server, page, delivery, sent, disturbed>> /\ Len(events) \in Nat
      /\ stream' = [NoStream EXCEPT !.state = "opening"]
  BY DEF Connect, parent, ActivityInv, EventsInv
<1>2. StreamOK(stream', Len(events)) /\ stream'.last = 0
  BY <1>1, NoStreamOK
<1>3. QED
  BY <1>1, <1>2 DEF ActivityInv, EventsInv, ServerInv, DeliveriesInv, PageOK

LEMMA PollKeeps ==
  ASSUME ActivityInv, Poll
  PROVE  ActivityInv' /\ stream'.last = stream.last
<1>1. /\ UNCHANGED <<events, server, page, delivery, sent, disturbed>> /\ Len(events) \in Nat
      /\ stream.cursor < Len(events) /\ StreamOK(stream, Len(events)) /\ stream \in Streams
      /\ stream' = [stream EXCEPT !.polls = {[tick |-> 0, page |-> Page(stream.cursor)]}]
  BY DEF Poll, parent, ActivityInv, EventsInv, StreamOK
<1>8. PICK n \in Nat, cursor \in Nat, from \in Nat :
        n = Len(events) /\ cursor = stream.cursor /\ from = cursor + 1
  <2>1. stream.cursor \in Nat /\ Len(events) \in Nat
    BY <1>1 DEF Streams
  <2>2. QED
    BY <2>1
<1>2. PICK to \in Nat :
        /\ to <= n /\ cursor < to
        /\ to = IF Len(events) < stream.cursor + PollLimit THEN Len(events)
                ELSE stream.cursor + PollLimit
  <2>1. PollLimit \in Nat /\ PollLimit > 0 /\ cursor < n
    BY <1>1, <1>8, ActivityAssumption
  <2>2. PICK to \in Nat : to <= n /\ cursor < to
                          /\ to = IF n < cursor + PollLimit THEN n ELSE cursor + PollLimit
    <3>1. CASE n < cursor + PollLimit
      BY <2>1, <3>1
    <3>2. CASE ~(n < cursor + PollLimit)
      BY <2>1, <3>2
    <3>3. QED
      BY <3>1, <3>2
  <2>3. QED
    BY <1>8, <2>2
<1>7. [tick |-> 0, page |-> Page(stream.cursor)] = PollOf(from, to)
  BY <1>2, <1>8, Zenon DEF Page, PollOf
<1>3. PollOf(from, to) \in Polls
  BY DEF PollOf, Polls
<1>4. /\ stream' \in Streams /\ stream'.polls = {PollOf(from, to)}
      /\ stream'.cursor = stream.cursor /\ stream'.last = stream.last /\ stream'.wire = stream.wire
  BY <1>1, <1>2, <1>3, <1>7 DEF Streams
<1>5. StreamOK(stream', n)
  BY <1>1, <1>2, <1>4, <1>8 DEF StreamOK
<1>6. QED
  BY <1>1, <1>2, <1>4, <1>5, <1>8 DEF ActivityInv, EventsInv, ServerInv, DeliveriesInv, PageOK

LEMMA WriteKeeps ==
  ASSUME ActivityInv, NEW poll \in stream.polls, Write(poll)
  PROVE  ActivityInv' /\ stream'.last = stream.last
<1>1. /\ UNCHANGED <<events, server, page, delivery, sent, disturbed>> /\ Len(events) \in Nat
      /\ StreamOK(stream, Len(events)) /\ stream \in Streams /\ Len(events) <= MaxEvents
      /\ MaxEvents \in Nat
      /\ stream' = [stream EXCEPT !.polls = @ \ {poll}, !.cursor = poll.page.to,
                                  !.state = "serving",
                                  !.wire = @ \o [i \in 1..(poll.page.to - poll.page.from + 1) |->
                                                   poll.page.from + i - 1]]
  BY ActivityAssumption DEF Write, parent, ActivityInv, EventsInv, StreamOK
<1>2. PICK cursor \in Nat, last \in Nat, wire \in Seq(1..MaxEvents) :
        cursor = stream.cursor /\ last = stream.last /\ wire = stream.wire
  BY <1>1 DEF Streams
<1>3. PICK to \in Nat : /\ cursor < to /\ to <= Len(events)
                        /\ stream.polls = {poll} /\ poll = PollOf(cursor + 1, to)
  <2>1. PICK to \in 0..Len(events) :
          stream.cursor < to /\ stream.polls = {PollOf(stream.cursor + 1, to)}
    BY <1>1 DEF StreamOK
  <2>2. QED
    BY <1>1, <1>2, <2>1
<1>4. poll.page.from = cursor + 1 /\ poll.page.to = to
  BY <1>3 DEF PollOf
<1> DEFINE tail == [i \in 1..(poll.page.to - poll.page.from + 1) |-> poll.page.from + i - 1]
<1>5. PICK m \in Nat : m = to - cursor /\ m = poll.page.to - poll.page.from + 1
  BY <1>3, <1>4
<1>6. tail = [i \in 1..m |-> cursor + i]
  BY <1>4, <1>5
<1>7. PICK added \in Seq(1..MaxEvents) :
        added = tail /\ Len(added) = m /\ \A i \in 1..m : added[i] = cursor + i
  <2>1. \A i \in 1..m : cursor + i \in 1..MaxEvents
    BY <1>1, <1>3, <1>5
  <2>2. [i \in 1..m |-> cursor + i] \in Seq(1..MaxEvents)
    BY <2>1
  <2>3. /\ Len([i \in 1..m |-> cursor + i]) = m
        /\ \A i \in 1..m : [j \in 1..m |-> cursor + j][i] = cursor + i
    OBVIOUS
  <2> HIDE DEF tail
  <2>4. QED
    BY <1>6, <2>2, <2>3
<1> HIDE DEF tail
<1>8. PICK new \in Seq(1..MaxEvents) :
        /\ new = wire \o added /\ Len(new) = Len(wire) + m
        /\ \A i \in 1..Len(wire) : new[i] = wire[i]
        /\ \A i \in 1..m : new[Len(wire) + i] = cursor + i
  <2>1. wire \o added \in Seq(1..MaxEvents)
    OBVIOUS
  <2>2. Len(wire \o added) = Len(wire) + m
    BY <1>7
  <2>3. \A i \in 1..Len(wire) : (wire \o added)[i] = wire[i]
    OBVIOUS
  <2>4. ASSUME NEW i \in 1..m PROVE (wire \o added)[Len(wire) + i] = cursor + i
    <3>1. Len(wire) \in Nat /\ i \in Nat /\ i > 0 /\ i <= m
      OBVIOUS
    <3>2. (wire \o added)[Len(wire) + i] = added[i]
      BY <1>7, <3>1
    <3>3. QED
      BY <1>7, <3>2
  <2>5. QED
    BY <2>1, <2>2, <2>3, <2>4
<1>9. stream' = [stream EXCEPT !.polls = {}, !.cursor = to, !.state = "serving", !.wire = new]
  <2>1. stream.polls \ {poll} = {} /\ stream.wire \o tail = new
    BY <1>2, <1>3, <1>7, <1>8
  <2>2. QED
    BY <1>1, <1>4, <2>1 DEF tail
<1>10. /\ stream' \in Streams /\ stream'.polls = {} /\ stream'.cursor = to
       /\ stream'.wire = new /\ stream'.last = last
  BY <1>1, <1>2, <1>9 DEF Streams
<1>11. \A i \in 1..Len(new) : new[i] = last + i
  <2>1. cursor = last + Len(wire) /\ Len(wire) \in Nat /\ \A i \in 1..Len(wire) : wire[i] = last + i
    BY <1>1, <1>2 DEF StreamOK
  <2>2. ASSUME NEW i \in 1..Len(new) PROVE new[i] = last + i
    <3>1. CASE i \in 1..Len(wire)
      BY <1>8, <2>1, <3>1
    <3>2. CASE i \notin 1..Len(wire)
      <4>1. PICK j \in 1..m : i = Len(wire) + j
        <5>1. i - Len(wire) \in 1..m /\ i = Len(wire) + (i - Len(wire))
          BY <1>8, <2>1, <3>2
        <5>2. QED
          BY <5>1
      <4>2. new[i] = cursor + j
        BY <1>8, <4>1
      <4>3. QED
        BY <2>1, <4>1, <4>2
    <3>3. QED
      BY <3>1, <3>2
  <2>3. QED
    BY <2>2
<1>12. StreamOK(stream', Len(events))
  <2>1. to = last + Len(new)
    <3>1. cursor = last + Len(wire) /\ Len(wire) \in Nat
      BY <1>1, <1>2 DEF StreamOK
    <3>2. QED
      BY <1>5, <1>8, <3>1
  <2>2. QED
    BY <1>3, <1>10, <1>11, <2>1 DEF StreamOK
<1>13. QED
  BY <1>1, <1>2, <1>10, <1>12 DEF ActivityInv, EventsInv, ServerInv, DeliveriesInv, PageOK

LEMMA OpenedKeeps ==
  ASSUME ActivityInv, Opened
  PROVE  ActivityInv' /\ stream'.last = stream.last
<1>1. /\ UNCHANGED <<events, server, delivery, sent, disturbed>> /\ page' = Refresh(page)
      /\ StreamOK(stream, Len(events)) /\ stream \in Streams /\ PageOK(page)
      /\ stream' = [stream EXCEPT !.opened = TRUE]
  BY DEF Opened, parent, ActivityInv, StreamOK
<1>2. PageOK(page')
  BY <1>1, RefreshOK
<1>3. stream' \in Streams
  BY <1>1 DEF Streams
<1>4. /\ stream'.polls = stream.polls /\ stream'.cursor = stream.cursor
      /\ stream'.wire = stream.wire /\ stream'.last = stream.last
  BY <1>1 DEF Streams
<1>5. StreamOK(stream', Len(events))
  BY <1>1, <1>3, <1>4 DEF StreamOK
<1>6. QED
  BY <1>1, <1>2, <1>4, <1>5 DEF ActivityInv, EventsInv, ServerInv, DeliveriesInv, PageOK

LEMMA ReceiveKeeps ==
  ASSUME ActivityInv, Receive
  PROVE  ActivityInv' /\ stream'.last = stream.last + 1
<1>1. /\ UNCHANGED <<events, server, delivery, sent, disturbed>> /\ page' = Refresh(page)
      /\ StreamOK(stream, Len(events)) /\ stream \in Streams /\ PageOK(page)
      /\ stream' = [stream EXCEPT !.wire = Tail(@), !.last = Head(stream.wire)]
      /\ stream.wire # <<>>
  BY DEF Receive, parent, ActivityInv, StreamOK
<1>2. PageOK(page')
  BY <1>1, RefreshOK
<1>3. PICK last \in Nat, wire \in Seq(1..MaxEvents) :
        /\ last = stream.last /\ wire = stream.wire /\ wire # <<>>
        /\ \A i \in 1..Len(wire) : wire[i] = last + i
  BY <1>1 DEF Streams, StreamOK
<1>4. PICK rest \in Seq(1..MaxEvents) :
        /\ rest = Tail(wire) /\ Len(rest) = Len(wire) - 1 /\ Len(wire) \in Nat /\ Len(wire) > 0
        /\ \A i \in 1..Len(rest) : rest[i] = wire[i + 1]
  <2>1. wire # <<>> /\ Len(wire) \in Nat /\ Len(wire) > 0
    BY <1>3
  <2>2. Tail(wire) \in Seq(1..MaxEvents) /\ Len(Tail(wire)) = Len(wire) - 1
    BY <2>1
  <2>3. \A i \in 1..Len(Tail(wire)) : Tail(wire)[i] = wire[i + 1]
    BY <2>1
  <2>4. QED
    BY <2>1, <2>2, <2>3
<1>5. Head(wire) = last + 1
  <2>1. Head(wire) = wire[1] /\ 1 \in 1..Len(wire)
    BY <1>3, <1>4
  <2>2. QED
    BY <1>3, <2>1
<1>6. \A i \in 1..Len(rest) : rest[i] = (last + 1) + i
  <2>1. ASSUME NEW i \in 1..Len(rest) PROVE rest[i] = (last + 1) + i
    <3>1. i + 1 \in 1..Len(wire) /\ rest[i] = wire[i + 1]
      BY <1>4
    <3>2. wire[i + 1] = last + (i + 1)
      BY <1>3, <3>1
    <3>3. QED
      BY <3>1, <3>2
  <2>2. QED
    BY <2>1
<1>7. stream' = [stream EXCEPT !.wire = rest, !.last = last + 1]
  BY <1>1, <1>3, <1>4, <1>5
<1>8. /\ stream' \in Streams /\ stream'.wire = rest /\ stream'.last = last + 1
      /\ stream'.polls = stream.polls /\ stream'.cursor = stream.cursor
  <2>1. last + 1 \in Nat
    OBVIOUS
  <2>2. QED
    BY <1>1, <1>7, <2>1 DEF Streams
<1>9. StreamOK(stream', Len(events))
  <2>1. stream.cursor = (last + 1) + Len(rest)
    <3>1. stream.cursor = last + Len(wire)
      BY <1>1, <1>3 DEF StreamOK
    <3>2. QED
      BY <1>4, <3>1
  <2>2. QED
    BY <1>1, <1>6, <1>8, <2>1 DEF StreamOK
<1>10. QED
  BY <1>1, <1>2, <1>3, <1>8, <1>9 DEF ActivityInv, EventsInv, ServerInv, DeliveriesInv, PageOK

-----------------------------------------------------------------------------
\* What goes wrong.
LEMMA DropKeeps ==
  ASSUME ActivityInv, Drop
  PROVE  ActivityInv' /\ stream'.last = 0
<1>1. /\ UNCHANGED <<events, server, page, delivery, sent>> /\ Len(events) \in Nat
      /\ stream' = NoStream /\ disturbed < MaxDisturbances /\ disturbed' = disturbed + 1
      /\ MaxDisturbances \in Nat
  BY ActivityAssumption DEF Drop, Disturb, parent, ActivityInv, EventsInv
<1>2. StreamOK(stream', Len(events)) /\ stream'.last = 0
  BY <1>1, NoStreamOK
<1>3. ServerInv'
  BY <1>1 DEF ActivityInv, ServerInv
<1>4. QED
  BY <1>1, <1>2, <1>3 DEF ActivityInv, EventsInv, DeliveriesInv, PageOK

LEMMA DownKeeps ==
  ASSUME ActivityInv, Down
  PROVE  ActivityInv' /\ stream'.last = 0
<1>1. /\ UNCHANGED <<events, delivery, sent>> /\ Len(events) \in Nat /\ PageOK(page)
      /\ server.up /\ server' = [server EXCEPT !.up = FALSE]
      /\ stream' = NoStream /\ disturbed < MaxDisturbances /\ disturbed' = disturbed + 1
      /\ MaxDisturbances \in Nat /\ page' = [page EXCEPT !.fetch = Lost(@), !.asks = None]
  BY ActivityAssumption DEF Down, Disturb, parent, ActivityInv, EventsInv
<1>2. StreamOK(stream', Len(events)) /\ stream'.last = 0
  BY <1>1, NoStreamOK
<1>3. ServerInv'
  <2>1. /\ server' \in [up : BOOLEAN, start : 0..MaxDisturbances]
        /\ server'.start = server.start
    BY <1>1 DEF ActivityInv, ServerInv
  <2>2. server.start <= disturbed /\ server.start \in Nat /\ disturbed \in Nat
    BY DEF ActivityInv, ServerInv
  <2>3. QED
    BY <1>1, <2>1, <2>2 DEF ServerInv
<1>4. PageOK(page')
  <2>1. PICK f \in Fetches : f = page.fetch /\ Len(f.got) <= 3
    BY <1>1 DEF PageOK, Pages
  <2>2. Lost(f) \in Fetches /\ Len(Lost(f).got) <= 3
    <3>1. CASE f.step = "reading"
      <4> DEFINE g == [f EXCEPT !.step = "lost", !.got = <<>>]
      <4>1. g \in Fetches /\ g.got = <<>>
        <5>1. PICK h \in Fetches : h = [f EXCEPT !.step = "lost"]
          BY DEF Fetches
        <5>6. <<>> \in Seq(Versions)
          OBVIOUS
        <5>2. PICK got \in Seq(Versions) : got = <<>>
          BY <5>6, Zenon
        <5>3. [h EXCEPT !.got = got] \in Fetches /\ [h EXCEPT !.got = got].got = got
          BY DEF Fetches
        <5>4. g = [h EXCEPT !.got = got]
          BY <5>1, <5>2 DEF Fetches
        <5>5. QED
          BY <5>2, <5>3, <5>4
      <4>2. Lost(f) = g
        BY <3>1 DEF Lost
      <4> HIDE DEF g
      <4>3. Len(g.got) = 0
        BY <4>1
      <4>4. QED
        BY <4>1, <4>2, <4>3
    <3>2. CASE f.step # "reading"
      BY <2>1, <3>2 DEF Lost
    <3>3. QED
      BY <3>1, <3>2
  <2>3. PICK g \in Fetches : g = Lost(page.fetch) /\ Len(g.got) <= 3
    BY <2>1, <2>2
  <2>4. page' = [page EXCEPT !.fetch = g, !.asks = None]
    BY <1>1, <2>3
  <2>5. page' \in Pages /\ page'.fetch = g
    BY <1>1, <2>4 DEF PageOK, Pages
  <2>6. QED
    BY <2>3, <2>5 DEF PageOK
<1>5. QED
  BY <1>1, <1>2, <1>3, <1>4 DEF ActivityInv, EventsInv, DeliveriesInv, PageOK

LEMMA UpKeeps ==
  ASSUME ActivityInv, Up
  PROVE  ActivityInv' /\ stream' = stream
<1>1. /\ UNCHANGED <<events, stream, page, delivery, sent, disturbed>> /\ ~server.up
      /\ server' = [up |-> TRUE, start |-> server.start + 1]
      /\ MaxDisturbances \in Nat
  BY ActivityAssumption DEF Up, parent
<1>2. ServerInv'
  <2>1. /\ server.start < disturbed /\ server.start \in Nat /\ disturbed \in 0..MaxDisturbances
    BY <1>1 DEF ActivityInv, ServerInv
  <2>2. PICK n \in 0..MaxDisturbances : n = server.start + 1 /\ n <= disturbed
    BY <1>1, <2>1
  <2>3. server' = [up |-> TRUE, start |-> n]
    BY <1>1, <2>2
  <2>4. server' \in [up : BOOLEAN, start : 0..MaxDisturbances] /\ server'.start = n
    BY <2>3
  <2>5. server'.up
    BY <2>3
  <2>6. QED
    BY <1>1, <2>1, <2>2, <2>4, <2>5 DEF ServerInv
<1>3. QED
  BY <1>1, <1>2 DEF ActivityInv, EventsInv, DeliveriesInv, PageOK

-----------------------------------------------------------------------------
\* Commands and follow-ups leave the stream to itself.
LEMMA OthersKeep ==
  ASSUME ActivityInv, UNCHANGED stream,
         UNCHANGED events \/ \E event \in Events : CommitEvent(event),
         ServerInv', PageOK(page'), DeliveriesInv'
  PROVE  ActivityInv'
<1>1. EventsInv' /\ StreamOK(stream, Len(events'))
  BY EventsAppended
<1>2. QED
  BY <1>1 DEF ActivityInv, PageOK, StreamOK

LEMMA EventsTyped ==
  /\ \A kind \in {"source", "operation"} : Plain(kind) \in Events
  /\ \A r \in Requests : /\ [kind |-> "requested", request |-> r] \in Events
                         /\ [kind |-> "delivered", request |-> r] \in Events
BY DEF Plain, Events

LEMMA AskKeeps ==
  ASSUME ActivityInv, NEW r \in Requests, AskFollowUp(r)
  PROVE  ActivityInv' /\ stream' = stream
<1>1. /\ UNCHANGED <<events, server, stream, delivery, sent, disturbed>> /\ PageOK(page)
      /\ page' = [page EXCEPT !.asks = r,
                      !.session = IF page.session = None THEN server.start ELSE page.session]
  BY DEF AskFollowUp, parent, ActivityInv
<1>2. PICK s \in {None} \cup 0..MaxDisturbances :
        s = IF page.session = None THEN server.start ELSE page.session
  BY <1>1 DEF ActivityInv, ServerInv, PageOK, Pages
<1>3. page' \in Pages /\ page'.fetch = page.fetch
  BY <1>1, <1>2 DEF PageOK, Pages
<1>4. PageOK(page')
  BY <1>1, <1>3 DEF PageOK
<1>5. ServerInv' /\ DeliveriesInv'
  BY <1>1 DEF ActivityInv, ServerInv, DeliveriesInv
<1>6. QED
  BY <1>1, <1>4, <1>5, OthersKeep

LEMMA ActivityRequestKeeps ==
  ASSUME ActivityInv, Request
  PROVE  ActivityInv' /\ stream' = stream
<1>1. /\ UNCHANGED <<server, stream, delivery, sent, disturbed>> /\ PageOK(page) /\ page \in Pages
      /\ page.asks \in Requests
  BY DEF Request, parent, ActivityInv, PageOK, Pages
<1>2. PICK p \in Pages : p = [page EXCEPT !.asks = None] /\ PageOK(p)
  <2> DEFINE p == [page EXCEPT !.asks = None]
  <2>1. p \in Pages /\ p.fetch = page.fetch
    BY <1>1 DEF Pages
  <2> HIDE DEF p
  <2>2. PageOK(p)
    BY <1>1, <2>1 DEF PageOK
  <2>3. QED
    BY <2>1, <2>2 DEF p
<1>3. page' = Refresh(p) \/ page' = p
  BY <1>2 DEF Request
<1>4. PageOK(page')
  BY <1>2, <1>3, RefreshOK
<1>5. UNCHANGED events \/ \E event \in Events : CommitEvent(event)
  BY <1>1, EventsTyped DEF Request
<1>6. ServerInv' /\ DeliveriesInv'
  BY <1>1 DEF ActivityInv, ServerInv, DeliveriesInv
<1>7. QED
  BY <1>1, <1>4, <1>5, <1>6, OthersKeep

LEMMA OtherKeeps ==
  ASSUME ActivityInv, Other
  PROVE  ActivityInv' /\ stream' = stream
<1>1. UNCHANGED <<server, stream, page, delivery, sent, disturbed>> /\ PageOK(page')
  BY DEF Other, parent, ActivityInv
<1>2. \E event \in Events : CommitEvent(event)
  BY EventsTyped DEF Other
<1>3. ServerInv' /\ DeliveriesInv'
  BY <1>1 DEF ActivityInv, ServerInv, DeliveriesInv
<1>4. QED
  BY <1>1, <1>2, <1>3, OthersKeep

Steps == [step : {"free", "admit", "send", "record"}, request : {None} \cup Requests]

\* A call of the tool moves; the page hears of it by the stream.
LEMMA DeliveryKeeps ==
  ASSUME ActivityInv, UNCHANGED <<server, stream, page>>,
         UNCHANGED events \/ \E event \in Events : CommitEvent(event),
         disturbed' = disturbed \/ Disturb,
         NEW c \in Deliveries, NEW d \in Steps, delivery' = [delivery EXCEPT ![c] = d],
         d.step # "free" => d.request \in Requests,
         sent' \in [Requests -> Nat]
  PROVE  ActivityInv' /\ stream' = stream
<1>1. /\ delivery \in [Deliveries -> Steps] /\ PageOK(page')
      /\ \A b \in Deliveries : delivery[b].step # "free" => delivery[b].request \in Requests
  BY DEF ActivityInv, DeliveriesInv, Steps
<1>2. DeliveriesInv'
  <2>1. delivery' \in [Deliveries -> Steps]
    BY <1>1
  <2>2. \A b \in Deliveries : delivery'[b].step # "free" => delivery'[b].request \in Requests
    BY <1>1
  <2>3. QED
    BY <2>1, <2>2 DEF DeliveriesInv, Steps
<1>3. ServerInv'
  BY ActivityAssumption DEF ActivityInv, ServerInv, Disturb
<1>4. QED
  BY <1>1, <1>2, <1>3, OthersKeep

LEMMA FollowUpKeeps ==
  ASSUME ActivityInv, NEW c \in Deliveries,
         \/ \E r \in Requests : Look(c, r)
         \/ Admit(c) \/ Send(c) \/ Record(c) \/ Fail(c)
  PROVE  ActivityInv' /\ stream' = stream
<1>1. /\ delivery \in [Deliveries -> Steps] /\ delivery[c] \in Steps /\ sent \in [Requests -> Nat]
      /\ delivery[c].step # "free" => delivery[c].request \in Requests
  BY DEF ActivityInv, DeliveriesInv, Steps
<1>2. NoDelivery \in Steps /\ NoDelivery.step = "free"
  BY DEF NoDelivery, Steps
<1>3. ASSUME NEW r \in Requests, Look(c, r) PROVE ActivityInv' /\ stream' = stream
  <2> DEFINE d == [step |-> "admit", request |-> r]
  <2>1. d \in Steps /\ d.request = r
    BY DEF Steps
  <2>2. /\ UNCHANGED <<events, server, stream, page, sent, disturbed>>
        /\ delivery' = [delivery EXCEPT ![c] = d]
    BY <1>3 DEF Look
  <2> HIDE DEF d
  <2>3. QED
    BY <1>1, <2>1, <2>2, DeliveryKeeps
<1>4. CASE Admit(c) \/ Send(c)
  <2>1. PICK step \in {"send", "record"} : delivery' = [delivery EXCEPT ![c].step = step]
    BY <1>4 DEF Admit, Send
  <2> DEFINE d == [delivery[c] EXCEPT !.step = step]
  <2>2. d \in Steps /\ d.request = delivery[c].request /\ delivery[c].request \in Requests
    BY <1>1, <1>4 DEF Steps, Admit, Send
  <2>3. delivery' = [delivery EXCEPT ![c] = d]
    BY <1>1, <2>1
  <2> HIDE DEF d
  <2>4. /\ UNCHANGED <<server, stream, page, disturbed>>
        /\ UNCHANGED events \/ \E event \in Events : CommitEvent(event)
    BY <1>4, EventsTyped DEF Admit, Send
  <2>5. sent' \in [Requests -> Nat]
    BY <1>1, <1>4, <2>2 DEF Admit, Send
  <2>6. QED
    BY <2>2, <2>3, <2>4, <2>5, DeliveryKeeps
<1>5. CASE Record(c)
  <2>1. /\ UNCHANGED <<server, stream, page, sent, disturbed>> /\ delivery' = [delivery EXCEPT ![c] = NoDelivery]
        /\ \E event \in Events : CommitEvent(event)
    BY <1>1, <1>5, EventsTyped DEF Record
  <2>2. QED
    BY <1>1, <1>2, <2>1, DeliveryKeeps
<1>6. CASE Fail(c)
  <2>1. /\ UNCHANGED <<server, stream, page, sent>> /\ delivery' = [delivery EXCEPT ![c] = NoDelivery] /\ Disturb
        /\ UNCHANGED events \/ \E event \in Events : CommitEvent(event)
    BY <1>6, EventsTyped DEF Fail
  <2>2. QED
    BY <1>1, <1>2, <2>1, DeliveryKeeps
<1>7. QED
  BY <1>3, <1>4, <1>5, <1>6

-----------------------------------------------------------------------------
LEMMA ActivityInitEstablishes ==
  ASSUME ActivityInit
  PROVE  ActivityInv
<1>1. EventsInv /\ Len(events) = 1
  <2>1. Plain("source") \in Events /\ events = <<Plain("source")>>
    BY EventsTyped DEF ActivityInit
  <2>2. QED
    BY <2>1, ActivityAssumption DEF EventsInv
<1>2. ServerInv
  BY ActivityAssumption DEF ActivityInit, ServerInv
<1>3. StreamOK(stream, Len(events))
  BY <1>1, NoStreamOK DEF ActivityInit
<1>4. PageOK(page)
  <2>1. PICK shown \in [Count -> Versions] :
          page = [shown |-> shown, fetch |-> NoFetch, session |-> None, asks |-> None]
    BY <1>1, VersionTyped, ThreeLists DEF ActivityInit
  <2>2. page \in Pages /\ page.fetch = NoFetch
    BY <2>1, NoFetchOK DEF Pages
  <2>3. QED
    BY <2>2, NoFetchOK DEF PageOK
<1>5. DeliveriesInv
  BY DEF ActivityInit, DeliveriesInv, NoDelivery
<1>6. QED
  BY <1>1, <1>2, <1>3, <1>4, <1>5 DEF ActivityInv

LEMMA ActivityNextKeeps ==
  ASSUME ActivityInv, [ActivityNext]_activityVars
  PROVE  ActivityInv' /\ stream'.last \in {stream.last, 0, stream.last + 1}
<1>1. CASE ReadList \/ Show \/ Retry
  <2>1. stream' = stream
    BY <1>1 DEF ReadList, Show, Retry
  <2>2. QED
    BY <1>1, <2>1, ReadListKeeps, ShowKeeps, RetryKeeps
<1>2. CASE Connect \/ Poll \/ (\E poll \in stream.polls : Write(poll)) \/ Opened \/ Receive
  BY <1>2, ConnectKeeps, PollKeeps, WriteKeeps, OpenedKeeps, ReceiveKeeps
<1>3. CASE Drop \/ Down \/ Up
  BY <1>3, DropKeeps, DownKeeps, UpKeeps
<1>4. CASE Request \/ Other \/ \E r \in Requests : AskFollowUp(r)
  BY <1>4, ActivityRequestKeeps, OtherKeeps, AskKeeps
<1>5. CASE \E c \in Deliveries : \/ \E r \in Requests : Look(c, r)
                                 \/ Admit(c) \/ Send(c) \/ Record(c) \/ Fail(c)
  BY <1>5, FollowUpKeeps
<1>6. CASE UNCHANGED activityVars
  BY <1>6 DEF activityVars, ActivityInv, EventsInv, ServerInv, DeliveriesInv, PageOK, StreamOK
<1>7. QED
  BY <1>1, <1>2, <1>3, <1>4, <1>5, <1>6 DEF ActivityNext

\* The inductive invariant of the stream (sse.ts): the wire continues what the page
\* has received last, up to the cursor, and the one poll under way reads what
\* follows the cursor.
THEOREM ActivityInvariant == ActivitySpec => []ActivityInv
<1>1. ActivityInit => ActivityInv
  BY ActivityInitEstablishes
<1>2. ActivityInv /\ [ActivityNext]_activityVars => ActivityInv'
  BY ActivityNextKeeps
<1>3. QED
  BY <1>1, <1>2, PTL DEF ActivitySpec

\* Events, the connection, the snapshot that is fetched and the calls that deliver
\* follow-ups keep their types; a connection has one poll at a time (sse.ts).
THEOREM ActivityTypeCorrect == ActivitySpec => []ActivityTypeOK
<1>1. ActivityInv => ActivityTypeOK
  BY Types
<1>2. QED
  BY <1>1, ActivityInvariant, PTL

\* A connection hands the page (useActivityStream) the events of the workspace one
\* after the other, none twice and none left out, however the polls of sse.ts, the
\* commits, lost connections and restarts interleave.
THEOREM InOrder == ActivitySpec => StreamInOrder
<1>1. ActivityInv /\ [ActivityNext]_activityVars =>
        [stream'.last \notin {stream.last, 0} => stream'.last = stream.last + 1]_activityVars
  BY ActivityNextKeeps
<1>2. QED
  BY <1>1, ActivityInvariant, PTL DEF ActivitySpec, StreamInOrder
=============================================================================
