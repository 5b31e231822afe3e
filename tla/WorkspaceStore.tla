---------------------------- MODULE WorkspaceStore ----------------------------
(***************************************************************************)
(* SqliteWorkspaceStore.commit as the application services use it: each    *)
(* service reads the records it will update outside any lock, checks its   *)
(* caller's expected revision, and hands the store one commit.  The store  *)
(* serves commits of one workspace root in the order of their tickets and  *)
(* runs each in a SQLite transaction that looks its idempotency key up,    *)
(* applies its mutations one by one, appends one event per mutation and    *)
(* records the key.  The server process can stop between any two steps.    *)
(***************************************************************************)
EXTENDS Naturals, Sequences

CONSTANTS
  Callers,      \* the requests the server can be serving at the same time
  Rows,         \* identities of records, and slots of unique indexes
  Keys,         \* idempotency keys
  Shapes,       \* kinds of commands
  Plan,         \* Plan[shape]: the mutations the command asks for, in order
  NoCommand,    \* an idempotency key nothing was recorded under
  NoRequest,    \* a caller that has nothing to ask
  MaxRevision,  \* bound: no command is composed on a record at this revision
  MaxCrashes    \* bound: how often the process stops

Mutations == [action : {"insert", "update"}, row : Rows]

\* Every service hands the store at least one mutation, and one per record.
ASSUME PlanAssumption ==
  /\ Plan \in [Shapes -> Seq(Mutations)]
  /\ \A s \in Shapes :
       /\ Len(Plan[s]) > 0
       /\ \A i, j \in 1..Len(Plan[s]) : Plan[s][i].row = Plan[s][j].row => i = j

ASSUME BoundAssumption == MaxRevision \in Nat /\ MaxCrashes \in Nat

VARIABLES
  \* What SQLite holds.
  revision,     \* revision[row] of each record, 0 while it does not exist
  trail,        \* domain_events in sequence order
  commands,     \* idempotency_commands
  \* The transaction on the store's one connection.
  phase,        \* "closed", "applying", "auditing", "recording", "committed"
  next,         \* the mutation or event the transaction is at
  viewRevision, \* the records as the open transaction sees them
  viewTrail,    \* the events as the open transaction sees them
  \* The server process.
  queue,        \* write tickets in the order they were taken, head served
  \* The callers.
  stage,        \* "idle", "sent", "queued", "lost"
  request,      \* the command a caller sent and still wants answered
  answer,       \* the last answer a caller was given, while it asks nothing new
  crashes       \* how often the process has stopped

stored == <<revision, trail, commands>>
transaction == <<phase, next, viewRevision, viewTrail>>
clients == <<stage, request, answer>>
vars == <<stored, transaction, queue, clients, crashes>>

-----------------------------------------------------------------------------
Updates(shape) == {Plan[shape][i].row : i \in {j \in 1..Len(Plan[shape]) :
                                                 Plan[shape][j].action = "update"}}

\* The command content whose digest the store compares: it carries the
\* revisions the author saw.
Contents == [shape : Shapes, expected : [Rows -> Nat]]
Requests == [key : Keys, content : Contents]
Outcomes == {"ok", "revision_conflict", "duplicate_identity", "entity_not_found"}
Answers == [key : Keys, content : Contents, outcome : Outcomes, by : Callers]
Events == [row : Rows, revision : Nat, key : Keys, by : Callers]
Recorded == [content : Contents, by : Callers]

ASSUME SentinelAssumption ==
  NoRequest \notin Requests \cup Answers /\ NoCommand \notin Recorded

Init ==
  /\ revision = [r \in Rows |-> 0]
  /\ trail = <<>>
  /\ commands = [k \in Keys |-> NoCommand]
  /\ phase = "closed"
  /\ next = 1
  /\ viewRevision = revision
  /\ viewTrail = trail
  /\ queue = <<>>
  /\ stage = [c \in Callers |-> "idle"]
  /\ request = [c \in Callers |-> NoRequest]
  /\ answer = [c \in Callers |-> NoRequest]
  /\ crashes = 0

\* Fault: a caller whose answer is lost forgets what it asked.
AnswerForgotten(c, outcome, by) ==
  /\ stage' = [stage EXCEPT ![c] = "lost"]
  /\ request' = [request EXCEPT ![c] = NoRequest]
  /\ UNCHANGED answer

\* The caller gets an answer, or the answer is lost on the way and the caller
\* still holds a request it does not know the fate of.
Answer(c, outcome, by) ==
  \/ /\ answer' = [answer EXCEPT ![c] = [key     |-> request[c].key,
                                        content |-> request[c].content,
                                        outcome |-> outcome,
                                        by      |-> by]]
     /\ stage' = [stage EXCEPT ![c] = "idle"]
     /\ request' = [request EXCEPT ![c] = NoRequest]
  \/ /\ stage' = [stage EXCEPT ![c] = "lost"]
     /\ UNCHANGED <<request, answer>>

\* A caller composes a command on the records as it sees them and sends it.
Send(c, k, s) ==
  /\ stage[c] = "idle"
  /\ \A i \in 1..Len(Plan[s]) : revision[Plan[s][i].row] < MaxRevision
  /\ stage' = [stage EXCEPT ![c] = "sent"]
  /\ request' = [request EXCEPT ![c] =
       [key     |-> k,
        content |-> [shape    |-> s,
                     expected |-> [r \in Rows |-> IF r \in Updates(s) THEN revision[r]
                                                                     ELSE 0]]]]
  /\ answer' = [answer EXCEPT ![c] = NoRequest]
  /\ UNCHANGED <<stored, transaction, queue, crashes>>

\* A caller whose answer never came sends the same command again.
Resend(c) ==
  /\ stage[c] = "lost"
  /\ stage' = [stage EXCEPT ![c] = "sent"]
  /\ UNCHANGED <<stored, transaction, queue, request, answer, crashes>>

GiveUp(c) ==
  /\ stage[c] = "lost"
  /\ stage' = [stage EXCEPT ![c] = "idle"]
  /\ request' = [request EXCEPT ![c] = NoRequest]
  /\ UNCHANGED <<stored, transaction, queue, answer, crashes>>

\* The service reads the records it is to update and refuses a command whose
\* author saw another revision; the connection serves no read while a
\* transaction is open.  A command that passes takes a write ticket.
Read(c) ==
  /\ stage[c] = "sent"
  /\ phase = "closed"
  /\ LET wanted == request[c].content
         updates == Updates(wanted.shape)
     IN \/ /\ \E r \in updates : revision[r] = 0
           /\ Answer(c, "entity_not_found", c)
           /\ UNCHANGED queue
        \/ /\ \E r \in updates : revision[r] # 0 /\ revision[r] # wanted.expected[r]
           /\ Answer(c, "revision_conflict", c)
           /\ UNCHANGED queue
        \/ /\ \A r \in updates : revision[r] # 0 /\ revision[r] = wanted.expected[r]
           /\ stage' = [stage EXCEPT ![c] = "queued"]
           /\ queue' = Append(queue, c)
           /\ UNCHANGED <<request, answer>>
  /\ UNCHANGED <<stored, transaction, crashes>>

-----------------------------------------------------------------------------
Holds(c) == queue # <<>> /\ Head(queue) = c
PlanOf(c) == Plan[request[c].content.shape]

\* Fault: the digest of a repeated command is not compared.
FindPriorUndigested(c) ==
  /\ Holds(c) /\ phase = "closed"
  /\ commands[request[c].key] # NoCommand
  /\ Answer(c, "ok", commands[request[c].key].by)
  /\ queue' = Tail(queue)
  /\ UNCHANGED <<stored, transaction, crashes>>

\* Fault: another command under a spent key has no outcome at all.
FindPriorSilent(c) ==
  /\ Holds(c) /\ phase = "closed"
  /\ commands[request[c].key] # NoCommand
  /\ commands[request[c].key].content = request[c].content
  /\ Answer(c, "ok", commands[request[c].key].by)
  /\ queue' = Tail(queue)
  /\ UNCHANGED <<stored, transaction, crashes>>

\* The key was spent: the same command is answered with what it was recorded
\* with, another command under the key is refused.
FindPrior(c) ==
  LET prior == commands[request[c].key] IN
  /\ Holds(c) /\ phase = "closed"
  /\ prior # NoCommand
  /\ IF prior.content = request[c].content
       THEN Answer(c, "ok", prior.by)
       ELSE Answer(c, "duplicate_identity", c)
  /\ queue' = Tail(queue)
  /\ UNCHANGED <<stored, transaction, crashes>>

Begin(c) ==
  /\ Holds(c) /\ phase = "closed"
  /\ commands[request[c].key] = NoCommand
  /\ phase' = "applying"
  /\ next' = 1
  /\ UNCHANGED <<stored, viewRevision, viewTrail, queue, clients, crashes>>

\* Fault: the UPDATE has no revision in its WHERE clause.
AdmitsAnyRevision(c, m) ==
  IF m.action = "insert" THEN viewRevision[m.row] = 0 ELSE viewRevision[m.row] # 0

\* The record as the transaction sees it allows the mutation.
Admits(c, m) ==
  IF m.action = "insert" THEN viewRevision[m.row] = 0
                         ELSE viewRevision[m.row] = request[c].content.expected[m.row]

ApplyMutation(c) ==
  LET m == PlanOf(c)[next] IN
  /\ Holds(c) /\ phase = "applying"
  /\ Admits(c, m)
  /\ viewRevision' = [viewRevision EXCEPT ![m.row] = @ + 1]
  /\ IF next = Len(PlanOf(c)) THEN phase' = "auditing" /\ next' = 1
                              ELSE phase' = phase /\ next' = next + 1
  /\ UNCHANGED <<stored, viewTrail, queue, clients, crashes>>

\* Fault: the failure is caught and what was applied before it is committed.
RollBackCommitting(c) ==
  LET m == PlanOf(c)[next] IN
  /\ Holds(c) /\ phase = "applying"
  /\ ~Admits(c, m)
  /\ Answer(c, "revision_conflict", c)
  /\ phase' = "closed"
  /\ next' = 1
  /\ queue' = Tail(queue)
  /\ revision' = viewRevision
  /\ UNCHANGED <<viewRevision, viewTrail, trail, commands, crashes>>

\* One mutation fails: nothing of the transaction survives.
RollBack(c) ==
  LET m == PlanOf(c)[next] IN
  /\ Holds(c) /\ phase = "applying"
  /\ ~Admits(c, m)
  /\ Answer(c, IF m.action = "insert" THEN "duplicate_identity" ELSE "revision_conflict", c)
  /\ phase' = "closed"
  /\ next' = 1
  /\ viewRevision' = revision
  /\ viewTrail' = trail
  /\ queue' = Tail(queue)
  /\ UNCHANGED <<stored, crashes>>

AppendEvent(c) ==
  LET m == PlanOf(c)[next] IN
  /\ Holds(c) /\ phase = "auditing"
  /\ viewTrail' = Append(viewTrail, [row      |-> m.row,
                                     revision |-> viewRevision[m.row],
                                     key      |-> request[c].key,
                                     by       |-> c])
  /\ IF next = Len(PlanOf(c)) THEN phase' = "recording" /\ next' = 1
                              ELSE phase' = phase /\ next' = next + 1
  /\ UNCHANGED <<stored, viewRevision, queue, clients, crashes>>

\* The key is recorded and the transaction becomes durable.
Commit(c) ==
  /\ Holds(c) /\ phase = "recording"
  /\ revision' = viewRevision
  /\ trail' = viewTrail
  /\ commands' = [commands EXCEPT ![request[c].key] =
                    [content |-> request[c].content, by |-> c]]
  /\ phase' = "committed"
  /\ UNCHANGED <<next, viewRevision, viewTrail, queue, clients, crashes>>

\* The ticket is released and the service hands the result to its caller.
Reply(c) ==
  /\ Holds(c) /\ phase = "committed"
  /\ Answer(c, "ok", c)
  /\ phase' = "closed"
  /\ queue' = Tail(queue)
  /\ UNCHANGED <<stored, next, viewRevision, viewTrail, crashes>>

\* The process stops: the open transaction and the tickets are gone, and
\* every request in the server is one whose answer never comes.
Crash ==
  /\ crashes < MaxCrashes
  /\ crashes' = crashes + 1
  /\ phase' = "closed"
  /\ next' = 1
  /\ viewRevision' = revision
  /\ viewTrail' = trail
  /\ queue' = <<>>
  /\ stage' = [c \in Callers |-> IF stage[c] \in {"sent", "queued"} THEN "lost"
                                                                   ELSE stage[c]]
  /\ UNCHANGED <<stored, request, answer>>

Serve(c) ==
  \/ Read(c)
  \/ FindPrior(c)
  \/ Begin(c)
  \/ ApplyMutation(c)
  \/ RollBack(c)
  \/ AppendEvent(c)
  \/ Commit(c)
  \/ Reply(c)

Next ==
  \/ \E c \in Callers :
       \/ \E k \in Keys, s \in Shapes : Send(c, k, s)
       \/ Resend(c)
       \/ GiveUp(c)
       \/ Serve(c)
  \/ Crash

\* Each step of a service is a settled promise away from the next: the server
\* never leaves a ready handler waiting for ever.  Callers promise nothing.
Fairness == \A c \in Callers : WF_vars(Serve(c))

Spec == Init /\ [][Next]_vars
FairSpec == Spec /\ Fairness

-----------------------------------------------------------------------------
TypeOK ==
  /\ revision \in [Rows -> Nat]
  /\ trail \in Seq(Events)
  /\ commands \in [Keys -> Recorded \cup {NoCommand}]
  /\ phase \in {"closed", "applying", "auditing", "recording", "committed"}
  /\ next \in Nat \ {0}
  /\ viewRevision \in [Rows -> Nat]
  /\ viewTrail \in Seq(Events)
  /\ queue \in Seq(Callers)
  /\ stage \in [Callers -> {"idle", "sent", "queued", "lost"}]
  /\ request \in [Callers -> Requests \cup {NoRequest}]
  /\ \A c \in Callers : stage[c] # "idle" => request[c] \in Requests
  /\ answer \in [Callers -> Answers \cup {NoRequest}]
  /\ crashes \in Nat

\* The events of a record are its whole history: one for every revision the
\* record has had, and in the order of the revisions.
HistoryOf(rev, events) ==
  /\ \A i \in 1..Len(events) : events[i].revision \in 1..rev[events[i].row]
  /\ \A r \in Rows : \A n \in 1..rev[r] :
       \E i \in 1..Len(events) : events[i].row = r /\ events[i].revision = n
  /\ \A i, j \in 1..Len(events) :
       i < j /\ events[i].row = events[j].row => events[i].revision < events[j].revision

\* What SQLite holds is at every moment, also right after the process stopped
\* in the middle of a commit, a set of records with their exact history: no
\* mutation without its event, no event of a mutation that was rolled back.
TrailIsHistory == HistoryOf(revision, trail)

\* Two callers told that a command under one key succeeded were told the same
\* of the same command, and that command is on record: a success survives a
\* crash, a lost answer and a retry.
SuccessIsOnRecord ==
  \A c \in Callers :
    answer[c] # NoRequest /\ answer[c].outcome = "ok" =>
      commands[answer[c].key] = [content |-> answer[c].content, by |-> answer[c].by]

\* Every step of the store is a step of the ledger or changes nothing it shows.
Ledger ==
  INSTANCE CommandLedger
    WITH revision <- revision, trail <- trail, commands <- commands, answer <- answer
ImplementsLedger == Ledger!Spec

\* A commit that took its ticket is answered unless the process stops: tickets
\* are served in their order and every outcome of a commit releases its own.
TicketsAreServed ==
  \A c \in Callers : (stage[c] = "queued") ~> (stage[c] # "queued")

\* docs/DETERMINISTIC_WORKFLOW.md: "Matching retries return the prior result".
\* A command that is on record is never refused to the caller who repeats it.
MatchingRetryReturnsPriorResult ==
  [][\A c \in Callers :
       answer'[c] # answer[c] /\ answer'[c] # NoRequest
       /\ commands[answer'[c].key] # NoCommand
       /\ commands[answer'[c].key].content = answer'[c].content
         => answer'[c].outcome = "ok"]_vars
=============================================================================
