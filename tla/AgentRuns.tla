------------------------------- MODULE AgentRuns -------------------------------
(***************************************************************************)
(* The two embedded agent runs of the server (discovery-runner.ts,          *)
(* profile-organization-runner.ts, and their endpoints in server.ts): a     *)
(* request of the browser marks its saved search or its source as in use,    *)
(* drives one agent session through an objective, a repair and, for         *)
(* organizations, a recovery turn, and answers with the operation that the  *)
(* session settled.  The agent is a language model: it calls its tools in   *)
(* any order, one at a time.  The tools' requests go to the same server,    *)
(* where they are handled like all others and may still be under way when   *)
(* the agent has given them up.                                             *)
(* A lead that was known before is the subject of module Inbox; a restart   *)
(* of the server, which ends every run, that of module Operations.          *)
(***************************************************************************)
EXTENDS Naturals, FiniteSets

CONSTANTS
  Requests,    \* requests for a run; each draws one agent session
  Searches,    \* saved searches, the subjects of job discovery
  Sources,     \* candidate sources, the subjects of profile organization
  Operations,  \* identities of operations
  Items,       \* listings of the job source; identities of suggested facts
  Handlers,    \* requests of the agents' tools the server can have at a time
  NoOperation, \* the operation of a call that names none
  Nobody,      \* the owner of an operation that no agent is bound to
  MaxOffers,   \* limit on recorded listings (8) or suggested facts (12) of a run
  MaxCalls,    \* bound: requests of the agents' tools, all sessions together
  MaxDisturbances, \* bound: calls given up early, cancellations by the user and
               \* requests the browser gives up, taken together
  Discovering, \* bound: the requests that may ask for a discovery
  MaxSessions  \* bound: sessions at work at a time

Subjects == Searches \cup Sources

ASSUME ConstantsAssumption ==
  /\ Discovering \subseteq Requests
  /\ Searches \cap Sources = {}
  /\ NoOperation \notin Operations /\ Nobody \notin Requests \cup Subjects
  /\ MaxOffers \in Nat \ {0} /\ MaxCalls \in Nat /\ MaxDisturbances \in Nat
  /\ MaxSessions \in Nat \ {0}

VARIABLES
  run,       \* the requests for runs, and their runners
  agent,     \* what a session's agent remembers: its log and the plugin's maps
  owner,     \* OperationAuthorities of the plugin
  inFlight,  \* profileOrganizationsInFlight and jobDiscoveriesInFlight
  call,      \* tool calls under way, as handlers of the server
  operation, \* the table of operations
  item,      \* the tables of discovery leads and of the agents' profile facts
  calls,     \* how many requests the agents' tools have made
  disturbed  \* how often a call was given up early, or a user intervened

counts == <<calls, disturbed>>
vars == <<run, agent, owner, inFlight, call, operation, item, counts>>
browser == <<run, inFlight>>
plugin == <<agent, owner>>
tables == <<operation, item>>

-----------------------------------------------------------------------------
Logs == {"none", "open", "closed", "spoilt"}
Terminal == {"succeeded", "indeterminate"}
Runs == [phase : {"idle", "checked", "mounting", "turn", "finding", "answered"},
         subject : Subjects \cup {Nobody}, attempt : 0..3, stop : BOOLEAN,
         timedOut : BOOLEAN, left : BOOLEAN, results : SUBSET Items,
         outcome : {"none", "succeeded", "failed"}]
Agents == [log : Logs, offers : 0..MaxOffers, listed : SUBSET Items,
           told : [Operations -> SUBSET Items]]
Calls == [step : {"free", "sent", "admitted", "checked", "answered", "refused"},
          tool : {"start", "offer", "complete"}, run : Requests \cup {Nobody},
          waits : BOOLEAN, op : Operations \cup {NoOperation},
          item : Items \cup {Nobody}, results : SUBSET Items]
Rows == [state : {"absent", "queued", "running"} \cup Terminal, revision : 0..4,
         session : Requests \cup {Nobody}, subject : Subjects \cup {Nobody},
         cancelled : BOOLEAN, results : SUBSET Items]

NoRun == [phase |-> "idle", subject |-> Nobody, attempt |-> 0, stop |-> FALSE,
          timedOut |-> FALSE, left |-> FALSE, results |-> {}, outcome |-> "none"]
NewAgent == [log |-> "none", offers |-> 0, listed |-> {},
             told |-> [o \in Operations |-> {}]]
NoCall == [step |-> "free", tool |-> "start", run |-> Nobody, waits |-> FALSE,
           op |-> NoOperation, item |-> Nobody, results |-> {}]
NoRow == [state |-> "absent", revision |-> 0, session |-> Nobody, subject |-> Nobody,
          cancelled |-> FALSE, results |-> {}]
NoItem == [op |-> NoOperation, subject |-> Nobody]

Init ==
  /\ run = [r \in Requests |-> NoRun]
  /\ agent = [r \in Requests |-> NewAgent]
  /\ owner = [o \in Operations |-> Nobody]
  /\ inFlight = {}
  /\ call = [h \in Handlers |-> NoCall]
  /\ operation = [o \in Operations |-> NoRow]
  /\ item = [i \in Items |-> NoItem]
  /\ calls = 0
  /\ disturbed = 0

Disturb == disturbed < MaxDisturbances /\ disturbed' = disturbed + 1

Active(r) == run[r].phase \notin {"idle", "checked", "answered"}
Organizes(r) == run[r].subject \in Sources
\* The revision an operation has when its start is answered; no tool of the
\* agent tells it another one.
StartRevision == 2

-----------------------------------------------------------------------------
\* The request and its mark.

Enter(r, s, phase) == run' = [run EXCEPT ![r].subject = s, ![r].phase = phase]
Refuse(r, s) ==
  run' = [run EXCEPT ![r].subject = s, ![r].phase = "answered", ![r].outcome = "failed"]

\* Fault: the mark of an organization is set after a further await.
ReceiveOrganizationLate(r, s) ==
  /\ run[r].phase = "idle" /\ s \in Sources
  /\ IF s \in inFlight THEN Refuse(r, s) ELSE Enter(r, s, "checked")
  /\ UNCHANGED <<plugin, inFlight, call, tables, counts>>

\* The source is looked up, found unused and marked without an await between.
ReceiveOrganization(r, s) ==
  /\ run[r].phase = "idle" /\ s \in Sources
  /\ \/ /\ s \in inFlight
        /\ Refuse(r, s)
        /\ UNCHANGED inFlight
     \/ /\ s \notin inFlight
        /\ Enter(r, s, "mounting")
        /\ inFlight' = inFlight \cup {s}
  /\ UNCHANGED <<plugin, call, tables, counts>>

\* The saved search is found unused ...
ReceiveDiscovery(r, s) ==
  /\ run[r].phase = "idle" /\ s \in Searches /\ r \in Discovering
  /\ IF s \in inFlight THEN Refuse(r, s) ELSE Enter(r, s, "checked")
  /\ UNCHANGED <<plugin, inFlight, call, tables, counts>>

\* ... and marked once the verified facts are listed, without another look.
MarkSearch(r) ==
  /\ run[r].phase = "checked"
  /\ run' = [run EXCEPT ![r].phase = "mounting"]
  /\ inFlight' = inFlight \cup {run[r].subject}
  /\ UNCHANGED <<plugin, call, tables, counts>>

\* Every way out of a run disposes of the session and unmarks the subject,
\* whoever marked it.
Answer(r, outcome, results) ==
  /\ run' = [run EXCEPT ![r] = [NoRun EXCEPT !.phase = "answered", !.subject = run[r].subject,
                                             !.outcome = outcome, !.results = results]]
  /\ agent' = [agent EXCEPT ![r] = NewAgent]
  /\ inFlight' = inFlight \ {run[r].subject}
\* The capability is unavailable, or the run was canceled, incomplete or
\* indeterminate: one outcome to the properties.
Fail(r) == Answer(r, "failed", {})

\* The session is created and given its objective.
Open(r) ==
  /\ Cardinality({q \in Requests : run[q].phase = "turn"}) < MaxSessions
  /\ run' = [run EXCEPT ![r].phase = "turn", ![r].attempt = 1]
  /\ UNCHANGED <<inFlight, agent>>

\* Each runner mounts a plugin host of its own; the provider may be
\* unconfigured or unavailable, and is asked again for the next run.
MountDiscovery(r) ==
  /\ run[r].phase = "mounting" /\ ~Organizes(r)
  /\ Open(r) \/ Fail(r)
  /\ UNCHANGED <<owner, call, tables, counts>>
MountOrganization(r) ==
  /\ run[r].phase = "mounting" /\ Organizes(r)
  /\ Open(r) \/ Fail(r)
  /\ UNCHANGED <<owner, call, tables, counts>>

-----------------------------------------------------------------------------
\* The turns of a run.

Waiting(r) == \E h \in Handlers : call[h].run = r /\ call[h].waits
Working(r) == run[r].phase = "turn" /\ ~run[r].stop /\ ~Waiting(r)

\* The calls of a session that did not fail: a start, then searches and offers
\* within their limits, then the completion, or anything else.
\* Fault: the limit on offers is not looked at.
LoggedUnlimited(a, tool) ==
  CASE tool = "start" /\ a.log = "none" -> [a EXCEPT !.log = "open"]
    [] tool = "search" /\ a.log = "open" -> a
    [] tool = "offer" /\ a.log = "open" -> [a EXCEPT !.offers = @ + 1]
    [] tool = "complete" /\ a.log = "open" -> [a EXCEPT !.log = "closed"]
    [] OTHER -> [a EXCEPT !.log = "spoilt"]
Logged(a, tool) ==
  CASE tool = "start" /\ a.log = "none" -> [a EXCEPT !.log = "open"]
    [] tool = "search" /\ a.log = "open" -> a
    [] tool = "offer" /\ a.log = "open" /\ a.offers < MaxOffers -> [a EXCEPT !.offers = @ + 1]
    [] tool = "complete" /\ a.log = "open" -> [a EXCEPT !.log = "closed"]
    [] OTHER -> [a EXCEPT !.log = "spoilt"]
\* hasSuccessfulCompletion.
HasCompleted(r) == agent[r].log = "closed"

\* A further message to the agent, which may go on.
NextTurn(r, attempt) ==
  /\ run' = [run EXCEPT ![r].attempt = attempt, ![r].stop = FALSE]
  /\ UNCHANGED <<inFlight, agent>>

\* A repair follows a first turn that did not complete; a recovery follows a
\* timeout of an organization that has started.
Repairs(r) == run[r].attempt = 1 /\ ~HasCompleted(r) /\ ~run[r].timedOut /\ ~run[r].left
Recovers(r) ==
  /\ Organizes(r) /\ run[r].attempt < 3 /\ run[r].timedOut /\ ~run[r].left
  /\ ~HasCompleted(r) /\ agent[r].log # "none"

\* whenIdle: the agent has nothing more to do, or was stopped.
TurnEnds(r) ==
  /\ run[r].phase = "turn" /\ ~Waiting(r)
  /\ \/ Repairs(r) /\ NextTurn(r, 2)
     \/ ~Repairs(r) /\ Recovers(r) /\ NextTurn(r, 3)
     \/ /\ ~Repairs(r) /\ ~Recovers(r)
        /\ \/ (run[r].left \/ ~HasCompleted(r)) /\ Fail(r)
           \/ /\ ~run[r].left /\ HasCompleted(r)
              /\ run' = [run EXCEPT ![r].phase = "finding"]
              /\ UNCHANGED <<inFlight, agent>>
  /\ UNCHANGED <<owner, call, tables, counts>>

\* The time of the run is over: the agent is cancelled.
RunTimesOut(r) ==
  /\ run[r].phase = "turn" /\ ~run[r].timedOut
  /\ run' = [run EXCEPT ![r].timedOut = TRUE, ![r].stop = TRUE]
  /\ UNCHANGED <<plugin, inFlight, call, tables, counts>>

\* The browser gives the request up.
BrowserLeaves(r) ==
  /\ run[r].phase = "turn" /\ ~run[r].left
  /\ Disturb
  /\ run' = [run EXCEPT ![r].left = TRUE, ![r].stop = TRUE]
  /\ UNCHANGED <<plugin, inFlight, call, tables, calls>>

\* Fault: the recovery turn has no time limit of its own.
RecoveryUnlimited(r) == FALSE /\ UNCHANGED vars

\* The recovery turn is cancelled after its own two minutes.
RecoveryTimesOut(r) ==
  /\ run[r].phase = "turn" /\ run[r].attempt = 3 /\ ~run[r].stop
  /\ run' = [run EXCEPT ![r].stop = TRUE]
  /\ UNCHANGED <<plugin, inFlight, call, tables, counts>>

\* Fault: any completed operation on the subject will do.
SettledByAnyone(r, o) ==
  operation[o].subject = run[r].subject /\ operation[o].state = "succeeded"

SettledBy(r, o) ==
  /\ operation[o].subject = run[r].subject
  /\ operation[o].session = r
  /\ operation[o].state = "succeeded"

\* The operation which the session completed is looked up in the table.
Find(r) ==
  /\ run[r].phase = "finding"
  /\ \/ \E o \in Operations : SettledBy(r, o) /\ Answer(r, "succeeded", operation[o].results)
     \/ (\A o \in Operations : ~SettledBy(r, o)) /\ Fail(r)
  /\ UNCHANGED <<owner, call, tables, counts>>

-----------------------------------------------------------------------------
\* The agent's tools.

Send(r, tool, o, i, results) ==
  /\ calls < MaxCalls
  /\ calls' = calls + 1
  /\ \E h \in Handlers : call[h].step = "free"
  /\ LET h == CHOOSE h \in Handlers : call[h].step = "free" IN
       call' = [call EXCEPT ![h] = [step |-> "sent", tool |-> tool, run |-> r, waits |-> TRUE,
                                    op |-> o, item |-> i, results |-> results]]

\* What the job source returns: any of its listings, or none.
Listings == SUBSET Items

\* search_current_jobs; the runner keeps the listings for this agent.
Search(r) ==
  /\ Working(r) /\ ~Organizes(r)
  /\ \E jobs \in Listings :
       LET found == Logged(agent[r], "search") IN
       agent' = [agent EXCEPT ![r] = [found EXCEPT !.listed = @ \cup jobs]]
  /\ UNCHANGED <<browser, owner, call, tables, counts>>

StartDiscovery(r) ==
  /\ Working(r) /\ ~Organizes(r)
  /\ Send(r, "start", NoOperation, Nobody, {})
  /\ UNCHANGED <<browser, plugin, tables, disturbed>>

StartOrganization(r) ==
  /\ Working(r) /\ Organizes(r)
  /\ Send(r, "start", NoOperation, Nobody, {})
  /\ UNCHANGED <<browser, plugin, tables, disturbed>>

\* record_searched_job, for a listing that a search returned to this agent
\* and under an operation it is bound to.
RecordJob(r) ==
  /\ Working(r) /\ ~Organizes(r)
  /\ \E o \in Operations, i \in agent[r].listed : owner[o] = r /\ Send(r, "offer", o, i, {})
  /\ UNCHANGED <<browser, plugin, tables, disturbed>>

ProposeFact(r) ==
  /\ Working(r) /\ Organizes(r)
  /\ \E o \in Operations : owner[o] = r /\ Send(r, "offer", o, Nobody, {})
  /\ UNCHANGED <<browser, plugin, tables, disturbed>>

\* complete_searched_jobs: the runner fills in what was recorded under the
\* operation and answered.
CompleteDiscovery(r) ==
  /\ Working(r) /\ ~Organizes(r)
  /\ \E o \in Operations : owner[o] = r /\ Send(r, "complete", o, Nobody, agent[r].told[o])
  /\ UNCHANGED <<browser, plugin, tables, disturbed>>

\* The agent itself names the facts, of all it was told.
CompleteOrganization(r) ==
  /\ Working(r) /\ Organizes(r)
  /\ \E o \in Operations, facts \in SUBSET UNION {agent[r].told[p] : p \in Operations} :
       owner[o] = r /\ Send(r, "complete", o, Nobody, facts)
  /\ UNCHANGED <<browser, plugin, tables, disturbed>>

\* The answer of a call comes back to the agent that waits for it.
Deliver(h) ==
  LET c == call[h]
      a == Logged(agent[c.run], c.tool) IN
  /\ c.waits /\ c.step \in {"answered", "refused"}
  /\ call' = [call EXCEPT ![h] = NoCall]
  /\ IF c.step = "refused"
       THEN UNCHANGED plugin
       ELSE /\ agent' = [agent EXCEPT ![c.run] =
                 IF c.tool = "offer" THEN [a EXCEPT !.told[c.op] = @ \cup {c.item}] ELSE a]
            /\ owner' = CASE c.tool = "start" -> [owner EXCEPT ![c.op] = c.run]
                          [] c.tool = "complete" -> [owner EXCEPT ![c.op] = Nobody]
                          [] OTHER -> owner
  /\ UNCHANGED <<browser, tables, counts>>

\* The plugin's request times out, or is aborted with the agent.  The server
\* goes on with it.  An aborted call may leave no error in the session's log.
GiveUp(h) ==
  LET c == call[h] IN
  /\ c.waits
  /\ \/ /\ run[c.run].stop
        /\ \/ agent' = [agent EXCEPT ![c.run] = Logged(@, c.tool)]
           \/ UNCHANGED agent
        /\ UNCHANGED disturbed
     \/ /\ ~run[c.run].stop /\ Disturb
        /\ UNCHANGED agent
  /\ call' = [call EXCEPT ![h] = IF c.step \in {"answered", "refused"}
                                   THEN NoCall ELSE [c EXCEPT !.waits = FALSE]]
  /\ UNCHANGED <<browser, owner, tables, calls>>

-----------------------------------------------------------------------------
\* The tools' requests at the server.

\* What a handler leaves behind: an answer for who still waits.
Reply(h, c, step) == call' = [call EXCEPT ![h] = IF c.waits THEN [c EXCEPT !.step = step] ELSE NoCall]

\* A request that was given up does not arrive.
NeverArrives(h) ==
  /\ call[h].step = "sent" /\ ~call[h].waits
  /\ call' = [call EXCEPT ![h] = NoCall]
  /\ UNCHANGED <<browser, plugin, tables, counts>>

\* startOperation: the first of its two commits ...
AdmitOperation(h) ==
  LET c == call[h] IN
  /\ c.step = "sent" /\ c.tool = "start"
  /\ \E o \in Operations : operation[o].state = "absent"
  /\ LET o == CHOOSE o \in Operations : operation[o].state = "absent" IN
       /\ operation' = [operation EXCEPT ![o] =
            [NoRow EXCEPT !.state = "queued", !.revision = 1, !.session = c.run,
                          !.subject = run[c.run].subject]]
       /\ call' = [call EXCEPT ![h].step = "admitted", ![h].op = o]
  /\ UNCHANGED <<browser, plugin, item, counts>>

\* ... and the second, on the revision of the first.
StartOperation(h) ==
  LET c == call[h] IN
  /\ c.step = "admitted"
  /\ \/ /\ operation[c.op].revision = 1
        /\ operation' = [operation EXCEPT ![c.op].state = "running", ![c.op].revision = @ + 1]
        /\ Reply(h, c, "answered")
     \/ /\ operation[c.op].revision # 1
        /\ Reply(h, c, "refused")
        /\ UNCHANGED operation
  /\ UNCHANGED <<browser, plugin, item, counts>>

\* recordDiscoveryLead reads the operation ...
AcceptsLead(o) == operation[o].state = "running" /\ ~operation[o].cancelled
\* ... as does proposeProfileFact, which does not ask whether a cancellation
\* was requested.
AcceptsFact(o) == operation[o].state = "running"
CheckOffer(h) ==
  LET c == call[h] IN
  /\ c.step = "sent" /\ c.tool = "offer"
  /\ IF IF operation[c.op].subject \in Searches THEN AcceptsLead(c.op) ELSE AcceptsFact(c.op)
       THEN call' = [call EXCEPT ![h].step = "checked"]
       ELSE Reply(h, c, "refused")
  /\ UNCHANGED <<browser, plugin, tables, counts>>

\* The insert, which compares nothing but the identity of a lead.
CommitOffer(h) ==
  LET c == call[h] IN
  /\ c.step = "checked" /\ c.tool = "offer"
  /\ \/ \E i \in IF c.item = Nobody THEN Items ELSE {c.item} :
          /\ item[i] = NoItem
          /\ item' = [item EXCEPT ![i] = [op |-> c.op, subject |-> operation[c.op].subject]]
          /\ Reply(h, [c EXCEPT !.item = i], "answered")
     \/ /\ c.item # Nobody /\ item[c.item] # NoItem
        /\ Reply(h, c, "refused")
        /\ UNCHANGED item
  /\ UNCHANGED <<browser, plugin, operation, counts>>

\* terminateOperation: the results of a discovery are leads of the operation,
\* those of an organization suggestions from its source.
Belongs(o, i) ==
  IF operation[o].subject \in Searches THEN item[i].op = o
                                       ELSE item[i].subject = operation[o].subject
CheckCompletion(h) ==
  LET c == call[h] IN
  /\ c.step = "sent" /\ c.tool = "complete"
  /\ IF /\ operation[c.op].revision = StartRevision /\ operation[c.op].state \notin Terminal
        /\ \A i \in c.results : Belongs(c.op, i)
       THEN call' = [call EXCEPT ![h].step = "checked"]
       ELSE Reply(h, c, "refused")
  /\ UNCHANGED <<browser, plugin, tables, counts>>

CommitCompletion(h) ==
  LET c == call[h] IN
  /\ c.step = "checked" /\ c.tool = "complete"
  /\ \/ /\ operation[c.op].revision = StartRevision
        /\ operation' = [operation EXCEPT ![c.op].state = "succeeded", ![c.op].revision = @ + 1,
                                          ![c.op].results = c.results]
        /\ Reply(h, c, "answered")
     \/ /\ operation[c.op].revision # StartRevision
        /\ Reply(h, c, "refused")
        /\ UNCHANGED operation
  /\ UNCHANGED <<browser, plugin, item, counts>>

\* requestUserOperationCancellation, asked for once at most.
UserCancels(o) ==
  /\ operation[o].state \in {"queued", "running"} /\ ~operation[o].cancelled
  /\ Disturb
  /\ operation' = [operation EXCEPT ![o].cancelled = TRUE, ![o].revision = @ + 1]
  /\ UNCHANGED <<browser, plugin, call, item, calls>>

-----------------------------------------------------------------------------
Runner(r) ==
  \/ MarkSearch(r) \/ MountDiscovery(r) \/ MountOrganization(r)
  \/ TurnEnds(r) \/ Find(r)
Timers(r) == RunTimesOut(r) \/ RecoveryTimesOut(r)
Tools(r) ==
  \/ Search(r) \/ StartDiscovery(r) \/ RecordJob(r) \/ CompleteDiscovery(r)
  \/ StartOrganization(r) \/ ProposeFact(r) \/ CompleteOrganization(r)
Serve(h) ==
  \/ AdmitOperation(h) \/ StartOperation(h) \/ CheckOffer(h) \/ CommitOffer(h)
  \/ CheckCompletion(h) \/ CommitCompletion(h)

Next ==
  \/ \E r \in Requests :
       \/ \E s \in Subjects : ReceiveOrganization(r, s) \/ ReceiveDiscovery(r, s)
       \/ Runner(r) \/ Timers(r) \/ BrowserLeaves(r) \/ Tools(r)
  \/ \E h \in Handlers : Deliver(h) \/ GiveUp(h) \/ NeverArrives(h) \/ Serve(h)
  \/ \E o \in Operations : UserCancels(o)

Spec == Init /\ [][Next]_vars

\* Every run goes on: its runner is one sequence of steps with timers, a
\* stopped agent ends its turn, and an aborted request ends.  Neither the agent
\* nor the server promises anything.
GoesOn(r) ==
  \/ MarkSearch(r) \/ MountDiscovery(r) \/ MountOrganization(r)
  \/ Find(r) \/ RunTimesOut(r) \/ RecoveryTimesOut(r)
  \/ run[r].stop /\ (TurnEnds(r) \/ \E h \in Handlers : call[h].run = r /\ GiveUp(h))
FairSpec == Spec /\ \A r \in Requests : WF_vars(GoesOn(r))

-----------------------------------------------------------------------------
TypeOK ==
  /\ run \in [Requests -> Runs]
  /\ agent \in [Requests -> Agents]
  /\ owner \in [Operations -> Requests \cup {Nobody}]
  /\ inFlight \subseteq Subjects
  /\ call \in [Handlers -> Calls]
  /\ operation \in [Operations -> Rows]
  /\ item \in [Items -> [op : Operations \cup {NoOperation}, subject : Subjects \cup {Nobody}]]
  /\ calls \in 0..MaxCalls /\ disturbed \in 0..MaxDisturbances

\* A run that is reported as succeeded names the results of an operation that
\* its own session completed on its subject, although requests of the session
\* may have been lost, may arrive after it gave them up, and may belong to an
\* operation it abandoned (the lookup at the end of both endpoints).
AnswerIsSettled ==
  \A r \in Requests : run[r].outcome = "succeeded" =>
    \E o \in Operations :
      /\ operation[o].session = r /\ operation[o].state = "succeeded"
      /\ operation[o].subject = run[r].subject /\ operation[o].results = run[r].results
      /\ \A i \in run[r].results : item[i].subject = run[r].subject

\* A source is marked exactly while one run organizes it: no second run begins,
\* no way out of a run leaves the mark behind, and none takes another's away
\* (profileOrganizationsInFlight).
OneOrganizationAtATime ==
  \A s \in Sources :
    LET active == {r \in Requests : Active(r) /\ run[r].subject = s} IN
    Cardinality(active) = IF s \in inFlight THEN 1 ELSE 0

\* Every request for a run is answered, whatever its agent does and loses:
\* the timeouts, the repair and the recovery turn leave no run behind.
RunsEnd == \A r \in Requests : (run[r].phase # "idle") ~> (run[r].phase = "answered")

\* "Late work from a canceled or retired generation is fenced by operation and
\* generation identity" (SPEC.md:1136): nothing is recorded under an operation
\* for which a cancellation was requested.
CanceledWorkIsFenced ==
  [][\A i \in Items : (item[i] = NoItem /\ item'[i] # NoItem) =>
        ~operation[item'[i].op].cancelled]_vars
===============================================================================
