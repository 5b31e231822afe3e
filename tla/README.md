# Career Workbench: specifications and proofs

TLA+ modules for the state-changing core of Career Workbench: the workspace store and
its files, the approval of effects, operations and the agents that drive them, the
provenance of what the product shows, the inbox of discovered positions, the career
record, and how pages in the browser keep up with all of it. TLC checks each module on a
small instance; TLAPS proves types, safety and the one refinement of all but two of them
for every value of the constants.

    tlc -workers 2 -config approvals.cfg MCApprovals      # any run of the table below
    tlapm ApprovalsProofs.tla                             # any proof module

`PROJECT.json` names the source lines of every definition. Below, `workbench.ts` is
`packages/application/src/workbench.ts`, `workspace-store.ts` is in `packages/storage/src`,
`children.ts` and `http-provider.ts` in `packages/dsh-plugin/src`, `server.ts`,
`routes.ts`, `sse.ts` and the runners in `apps/server/src`, `App.tsx` and `api.ts` in
`apps/web/src`.

## The system

A local server (`apps/server`) serves a browser and embedded DSH agents. Every state
change is a method of `WorkbenchService` (`workbench.ts`). A method *reads* records
at one `await` each, *checks* what it read, and hands the store *one commit* (evaluate
and startOperation: two): mutations with expected revisions, one event per mutation,
an idempotency key. Between two awaits any other request may run, and the process
may stop. The store is the only serialisation point: it protects the rows a commit
updates and nothing the commit was merely decided on. The callers are no better off: a
page decides from the snapshot it last received, a runner and its agent from the last
answer, the DSH host from its last view of an operation. Most of the interesting
behaviour, and every disagreement found, comes from that.

| component | state | operations | what makes it correct | hard part |
|---|---|---|---|---|
| workspace store | records with revisions, `domain_events`, `idempotency_commands`, write tickets | `commit`, `get`, `list`, `eventsAfter` | all-or-nothing commits, audit trail = history, a key is spent once | crash in a commit, lost answers, retries that race |
| approvals | `approvals`, their targets | request, decide, expire; accept comparison, review draft, move application | single use, bound to the displayed effect, user only | check-then-act of two handlers, expiry races, corrections in between |
| operations, evaluations | `operations`, `evaluations`, revision of opportunity and rubric | start, activity, terminate, cancel, follow-up, evaluate, fail, reconcile | one terminal, kept for good; evaluation and operation settled together | two commits of evaluate, redelivery, late results, restart |
| provenance | facts, evidence, evaluations, comparisons, artifacts | propose, decide, correct; evaluate, compare, report, draft | outputs rest on accepted evidence of verified facts; corrections reach them | dependents listed outside the commit |
| discovery, opportunities | search, leads, opportunities, applications | save search, record, triage, capture, track | a decision is on what the user saw; a lead makes one opportunity | leads rewritten while shown, limits and duplicates checked by reads |
| career record | sources, facts, setup status | add source, suggest, review, correct, set preferences | only what was shown and left in becomes verified | one press is many requests, snapshots read list by list |
| workspace files | directory, database, write-ahead log, backups, sealed bytes | create, migrate, back up, restore, seal, import | bytes before records, nothing answered is lost, only the confirmed is imported | crashes between renames, directories that change |
| agent runners (`discovery-runner.ts`, `profile-organization-runner.ts`) | marks in flight, sessions | mount, turn, repair, recover, answer | answered only with what its own session settled; every run ends | tools in any order, timeouts against late answers |
| native children (`children.ts`) | entries by operation and by child, cached views, timers | start, follow up, report, cancel, delete, settle | an operation is settled once its child has ended, by the end of its own work | requests under cached revisions, ends out of order, timers against late answers |
| event stream, pages (`sse.ts`, `App.tsx`, `api.ts`) | cursor, snapshot, token | poll, reconnect, refetch, command | the page ends up showing what is stored | events during a fetch, lost connections, restarts |
| domain rules | none | transition tables, scoring, evidence rules | determinism | numeric boundaries |
| RLM sessions, contracts, import parser, evals, scripts, vendored code | a kernel process; schemas, files | | | none of their state is shared |

`PROJECT.json` lists every component with its status and every hazard with the line
where it bites and the properties that cover it.

## Modules

| module | what it is |
|---|---|
| `CommandLedger` | abstract: what the store promises. A command takes effect as a whole under its key or leaves no trace; callers are told outcomes. No tickets, transactions or crashes. |
| `WorkspaceStore` | `SqliteWorkspaceStore.commit` step by step, its callers with lost answers and repeats, and crashes. It implements `CommandLedger`: `ImplementsLedger` is the specification of `Ledger == INSTANCE CommandLedger WITH ...`, in which the four shared variables map to themselves and tickets, transaction and crashes are hidden. |
| `WorkspaceStoreProofs` | proofs about `WorkspaceStore` |
| `Approvals` | approvals and the three effects that consume one |
| `ApprovalsProofs` | proofs about `Approvals` |
| `Operations` | operations, `evaluate`, and the reconciliation at startup |
| `OperationsProofs` | proofs about `Operations` |
| `NativeChildren` | `NativeChildCoordinator`: operations it admits for child sessions, their delivery, ends, timers and settlement |
| `NativeChildrenProofs` | proofs about `NativeChildren` |
| `AgentRuns` | the two runs of an embedded agent: request, session, turns, tools, answer |
| `AgentRunsProofs` | proofs about `AgentRuns` |
| `Provenance` | facts, evidence and what rests on them; `correctVerifiedFact` table by table |
| `ProvenanceProofs` | proofs about `Provenance` |
| `Career` | sources, suggested facts and the user's review of them; preferences; the status of the setup |
| `Inbox` | saved search, leads, triage, opportunities, applications |
| `WorkspaceFiles` | directory, database, log, backups, sealed bytes; migration, restore, import |
| `WorkspaceFilesProofs` | proofs about `WorkspaceFiles` |
| `Activity` | events, stream, snapshot and the page that reads them; delivery of a user's follow-up |
| `PageProofs` | proofs about the pages' modules: `Inbox`, `Career` and `Activity` |
| `MC*` | small instances of them |

The modules divide the state and meet at the commit. `WorkspaceStore` shows that a
commit may be one action, and every other module relies on it. `Operations`, `NativeChildren`
and `AgentRuns` look at the row of one operation from the server, from the DSH host and
from a runner; `Provenance`, `Career` and `Inbox` own the rows that those operations
write; `Activity` composes the server's reads with a page and its stream, `Inbox` and
`Career` with tabs that hold snapshots.

### How state and actions correspond to the code

* **A handler** (`handler[h]`, `call[t]`, `request[t]`) is one request in the server: its `step` is the await
  it is at, its other fields the values that live on its stack. An action is what
  runs between two awaits. Reads of records that the code reads one after the other are
  one action only where reading them apart changes nothing but which requests
  are refused (said at the definition); elsewhere they are actions of their own, as
  `ListEvidence` ... `ListArtifacts` of a correction.
* **A commit** is one action in every module but `WorkspaceStore`, which shows why
  that is right (`ImplementsLedger`, `TrailIsHistory`). It compares exactly the
  rows the code's mutation list updates. Inserts have fresh identities.
* **Revisions** are kept where handlers rely on them (`Approvals`, `Operations`, `Inbox`). In
  `Provenance` no row except an undecided fact returns to a state it has left, so the
  state stands for the revision and keeps the instance small; a handler that decides
  on a fact has read no more than its state, so that a decision which the model
  accepts on an unchanged state is one the code accepts from a later read.
* **Data** are reduced to what properties tell apart: a command's content is its shape
  and the revisions its author saw; an effect is target, revision and details;
  an evaluation is its evidence; a listing is its address, its text and the requisition it
  names; an imported directory is its content; scores, texts and sources are left out. A score
  that fails is a choice (`ScoreFails`, `FailEvaluation`).
* **A tab** (`Inbox`, `Career`, `Activity`) has the snapshot it last received and one sequence of
  requests under way. The forms of the pages say what a tab may ask: a decision names the
  revision shown, an editor what it was filled with. In `Career` a snapshot is read list by
  list, as `server.ts` does, because the status of the setup depends on two lists, and in
  `Activity` so that commits can fall in between (`ReadList`).
* **The coordinator** of `NativeChildren` runs in the DSH host and shares nothing with
  the server but requests: `post[t][o]` is the request which the parent's tool call,
  a report, a settlement or a timer has under way for operation `o`, sent, answered or failed.
  `row` is the server's table as in `Operations`, reduced to state and revision. Of DSH, which is
  not in the repository, the module keeps what `children.ts` relies on: a child has one
  activation at a time, which takes in messages and ends once, with one `subagent/end`; an
  interrupt or a deletion makes it end as aborted; the parent's tool calls run one at a
  time, since none is declared concurrency safe.
* **An agent** of `AgentRuns` calls any of its tools, in any order, one at a time, on whatever
  it was answered before. Its calls are requests to the server like any other: one that the
  agent has given up may still be carried out. A run's `phase` is the await of the
  runner that drives it.
* **Files** of `WorkspaceFiles` are what they hold: the database is records
  (with their schema version) and the stamp of the database it is, the log is records stamped with the file it belongs to. Commits go to
  the log, a clean close moves them to the file; the log of another database, replayed on
  a restored file, leaves records that are `torn`. Each rename, copy and flush is a step; `Crash` keeps
  the files and loses all else. Server and administration do not run at once (OPERATIONS.md:19).
* **Left out of actions** are calls that are refused at once and change nothing
  (wrong session, malformed input).

Definitions under a comment "Fault:" are plausible defects that the mutation of a
run substitutes for the definition after them. No specification uses them.

## Runs

| run | instance | shows |
|---|---|---|
| `store_commit` | 2 callers, 3 keys, 2 rows, 3 command shapes (insert, update, both), revision < 2 when composed, 1 crash | `TrailIsHistory`, `SuccessIsOnRecord`, `ImplementsLedger`, `TicketsAreServed` |
| `approvals` | 2 handlers, 2 approvals, a comparison, a draft, an application, a correction; time 0..1 | `ConsumedOnce`, `EffectIsTheApprovedOne`, `OneEffectPerRevision`, `ApprovalsFollowTheirGraph`, `ListedIsAcceptedInTime` |
| `operations` | 2 handlers, 2 operations, 2 evaluations, 3 keys, revision < 3 when composed, 1 crash | `SettledTogether`, `NeverTakenBack`, `InterruptedAreSettled` |
| `children` | 2 operations of 1 child, both may be active, 1 disturbance | `InterruptsAreForOpenWork`, `SuccessIsACompletion` |
| `children_settle` | the same, without a disturbance | **violated**: `EndedIsSettled` |
| `agent_runs` | 2 requests (one may be a discovery), 1 search, 1 source, 2 operations, 1 listing or suggestion, 1 request of a tool under way, 4 calls, 1 disturbance | `AnswerIsSettled`, `OneOrganizationAtATime`, `RunsEnd` |
| `provenance` | 2 handlers, 3 facts, 1 evidence item, 1 evaluation, 1 comparison, 1 artifact | `OneSuccessor`, `OutputsAreGrounded`, `StaleIsFinal`, `CorrectionReachesWhatItMet` |
| `career` | 2 tabs, 1 organization run, 3 facts, 1 preference at a save, 3 events | `VerifiedWasReviewed`, `CompleteMeansDecided` |
| `inbox` | 2 tabs, 2 discoveries, 2 criteria (one paused), 2 addresses of one requisition, 2 texts, 2 leads, 2 opportunities, 2 listings offered, 2 requests of users | `DecisionIsOnSeenContent`, `OneOpportunityPerLead` |
| `workspace_files` | 2 contents of the directory, 2 import handlers, 2 schema versions, 2 crashes, 2 restores, 1 edit, 3 imports, 3 starts | `RecordsHaveTheirBytes`, `ImportsAreDurable`, `ImportIsWhatWasReviewed` |
| `activity` | 1 follow-up, 1 delivery at a time, 4 events, 1 disturbance | `StreamInOrder`, `Converges` |
| `activity_twice` | the same with 5 events | **violated**: `DeliveredOnce` |

Each passing run also checks its module's `TypeOK`.

**Why the bounds are enough.** Every race here is between two requests, so two
handlers show it; a third actor (a correction in `Approvals`, the clock, a crash, the
reconciliation, a discovery beside two tabs) is an action of its own. Two identities of each kind let two
requests meet on one record and on different ones. Two revisions of a row make a stale
expectation possible, the third lets it be stale by more than one. Facts need three
identities for a chain of two corrections or a fork. `Compared` is 3 in the code and
1 here: a comparison only asks that all its evaluations are completed. Symmetry is used for
safety only.

* `Approvals`: a handler that asks for an approval takes a fresh identity at its commit, and begins only
  while one is left and the clock outlives it, so that each approval can also expire. The correction is
  one: of several under way at most one takes effect, since each updates the fact. It may be refused and
  repeated. 1.7 million states.
* `NativeChildren`: two operations are a start and a follow-up of one child, which
  is where ends and answers can be credited to the wrong one, and the follow-up may come at any time, also
  while the first operation is open. A *disturbance* is a report, a cancellation or a deletion by
  the parent, a user's request in the browser or a request that fails; one can fall anywhere, beside the
  timers and ends, which are not bounded (1.2 million states). A deletion and another disturbance were checked
  together once, with 10.2 million states, which is too many for a run; the theorems are about any number
  of operations and disturbances.
* `AgentRuns`: two requests are two organizations of one source, or a discovery beside one.
  A disturbance is a browser that leaves, a call that is given up early, or a user's cancellation; four calls
  let the agent start, record and settle, and one of these be made again by another session. The
  turns and time limits of a run are those of the code.
* `Inbox`: `MaxLeads` (64 in one operation, 20 of one host) is 1 and the limit of the workspace is 2,
  so that each is reached.
* `Career`: a preference is a source and two requests, so that one is enough for a save that stops midway, and a
  second save repeats it. An agent's suggestion is one action though the code checks the operation before it
  inserts: it may come when the operation has ended. The theorems are about any number of each.
* `WorkspaceFiles`: two crashes fall into a restore and into what follows it; `MaxPreviews` (8) is 1, so that a
  second preview takes the place of the first; the schema's version 6 is 2, and each migration
  is the same step.
* `Activity`: the window of 1000 newest events is 3 and a poll's 100 events are 2, so that events slide out
  of the one and need two of the other. A disturbance is a lost connection, a restart of the server or a
  failed delivery.

All other bounds (`MaxRevision`, `MaxCrashes`, `MaxTime`, `Requested`, `MaxOffers`, `MaxRequests`, `MaxFacts`, `MaxDeeds`, `MaxEvents`,
`MaxEdits`, `MaxApplies`, `MaxStarts`, `MaxRestores`, `MaxSessions`, `MaxCalls`) are guards of what the
environment begins (composing a request, ticking, crashing), never of a commit. The
instances stop when identities or bounds run out, so deadlock is not checked.

**Fairness.**

* `TicketsAreServed`: weak fairness of each caller's steps inside
  the server: each continues a promise that settles (`withWorkspaceWriteLock`
  releases a ticket in `finally`). Callers promise nothing: a lost
  answer may never be asked for again.
* `InterruptedAreSettled`: weak fairness of
  `Reconcile`: `server.ts` awaits `reconcileInterruptedOperations` before it listens.
* `RunsEnd`: weak fairness of `GoesOn(r)` for each run: what the runner does by itself,
  the firing of its time limits, and that a session which was told to stop becomes idle. Nothing
  is assumed of the agent: it may call its tools or stay silent until a limit fires.
* `Converges`: weak fairness of the page's reads and their retries (React Query), of the stream's
  reconnecting (`EventSource`), its 250 ms poll and its writes, of the page's taking in of what
  arrives, and of the server's coming up again. Commits and disturbances are bounded and
  promise nothing.

### Where code and documents disagree

Two runs show a behaviour that a document or an assertion of the repository excludes:

1. `children_settle`. The coordinator makes every request under the revision of its last
   view. If the child ends while the timer's request is under way, the settlement is refused,
   the refusal is logged, and nothing repeats it: the operation has no terminal until a
   restart of the server. A user's request for a cancellation or a follow-up at any time
   before the end does the same (seen with one disturbance). SPEC.md:400 asks for one terminal.
2. `activity_twice`. `followup` sends the message first and records its identity
   afterwards (children.ts:770). When the record is lost, the request still counts as pending
   and is delivered again, although children.ts:704 refuses what was already delivered and
   docs/SECURITY.md:67 says the correlation is committed at the delivery.

The modules state these as well, each at its definition with the line it quotes. TLC
refutes each in the instance of its run above (`TrackedOnce` with three requests of the users and one
listing offered); they are not part of a run, and no
theorem or passing run depends on them:

| definition | module | what the code does |
|---|---|---|
| `MatchingRetryReturnsPriorResult` (SPEC.md:532) | `WorkspaceStore` | A service compares the caller's expected revision with what it reads *before* the store looks the key up: an update that took effect and whose answer was lost is refused when repeated under its key. |
| `TerminalNamesItsResult` | `Operations` | `evaluate` draws an evaluation identity per delivery. A second delivery gets the recorded admission, completes the *recorded* evaluation, and writes its *own* identity into `resultIds`. |
| `AcceptedOnCurrentInputs` (SPEC.md:646) | `Approvals` | A correction lists the comparisons (workbench.ts:3369) before its commit (3462). One that is inserted in between stays as it is while its evaluations become stale, and an acceptance that checked them (4057) before still commits, since the commit compares comparison and approval only (4076). (`ListedIsAcceptedInTime`: one that was on the list is accepted in time or not at all.) |
| `SuccessIsItsOwn` (SPEC.md:818) | `NativeChildren` | `followup` replaces the child's entry before its message is delivered (children.ts:756): the end of the earlier work, still under way, settles the follow-up as succeeded, and no end settles the earlier operation. TLC shows it with two operations and no disturbance. (`SuccessIsACompletion`: it is at least a completion.) |
| `InterruptHitsItsOwn` | `NativeChildren` | An interruption names a child and no operation: the answer to a timer's or the parent's cancellation can come when the child has ended the work it is about and is at work for a follow-up, which it stops. TLC shows it with two operations. (`InterruptsAreForOpenWork`: the operation it is for is still open.) |
| `CorrectionReachesAll` (SPEC.md:652) | `Provenance` | A correction lists dependents outside its commit. What completes after its table was listed stays current, and so does what rests on the fact through an evaluation that another correction marks in between. (`CorrectionReachesWhatItMet`: what was there when it began and still depends on the fact is reached.) |
| `OldEvidenceStaysOut` (ARCHITECTURE.md:237) | `Provenance` | Evidence of a superseded fact stays accepted, and scoring asks only for that. |
| `CanceledWorkIsFenced` (SPEC.md:1136) | `AgentRuns` | `recordDiscoveryLead` checks the operation at a read that its commit does not compare. |
| `SavesKeepNewerCriteria` (SPEC.md:361) | `Inbox` | The editor is filled once and a save names the latest revision, so criteria saved in another tab are overwritten without a conflict. |
| `TrackedOnce` (workbench.ts:4140) | `Inbox` | Two requests to track one opportunity both look before either commits. |
| `SwapIsAtomic` (OPERATIONS.md:36) | `WorkspaceFiles` | A restore is several renames: a crash between them leaves no database, or one beside the log of another. |
| `ImportedOnce` (SPEC.md:996) | `WorkspaceFiles` | Two confirmations of one preview both look for the manifest before either commits. |

docs/OPERATIONS.md:82 says that the page "reconnects from its last event ID". The stream's URL names `after=0`,
which wins over `Last-Event-ID` (sse.ts:90), so that each reconnection starts from the first event again.
`Connect` of `Activity` does the same: the page takes every event as a reason to fetch anew, and is none the
worse for it (`Converges`). A comment at children.ts:926 says that the audit activity of a deletion "never races a
stale cached projection": a user's request, or a late answer, between the refresh and the activity makes it refused
(`Refresh`, `Deleted` of `NativeChildren`).

## Proofs

TLAPS checks these for all values of the constants that satisfy the modules'
`ASSUME`s (plans of distinct rows, non-empty sets, sentinels outside the sets they
complete). None of the invariants that the runs check is inductive: they speak of stored
rows, and say nothing of what a handler, a page or a coordinator is about to write. Each
module proves an inductive `IInv` (its first theorem, `Invariant`; `CareerInv` and
`ActivityInv` in the other parts of `PageProofs`) that says what those hold
is worth, and takes type correctness (`TypeCorrect`) and the others from it. The argument is nearly
always the same: *while a row still has the revision that was read, what was read is true*.

**`WorkspaceStoreProofs`**: `TypeCorrect`, `TrailTheorem` (`[]TrailIsHistory`),
`SuccessTheorem` (`[]SuccessIsOnRecord`), `StoreImplementsLedger` (`ImplementsLedger`).
`TrailIsHistory` says nothing of the open transaction that becomes the stored state. `IInv` adds

* `QueueInv`: tickets are distinct and belong to queued callers, and an open
  transaction has a holder. It makes "the one being served" well defined.
* `TransactionInv`: what the transaction sees is what is stored, raised by exactly the
  mutations before `next`, with their events once it audits. At `Commit` this gives
  the history of the new records by `HistoryAppend`, one event at a time.

`SuccessTheorem` needs in addition that a recorded key is never written again, which
follows from `Begin`'s guard and from the holder keeping its ticket until the reply.
The refinement maps `Commit` to the ledger's `TakeEffect`, answers to `TellSuccess` and `TellRefusal`,
`Send` to `AskAgain`, and every other step, crashes included, to a stutter. At `Commit` all mutations
and events of the command appear at once: `LedgerInv`
(theorem `LedgerInvariant`) says that what an open transaction sees is the stored rows raised by
the first mutations of the command its caller asked for, and the stored trail with their events.

**`ApprovalsProofs`**: `ApprovalsTypeCorrect`, `ConsumedOnceTheorem`,
`ApprovedEffectTheorem`, `OneEffectTheorem`, `ApprovalGraphTheorem`,
`AcceptedInTime` (`ListedIsAcceptedInTime`). The properties speak of commits, the checks happened an await
or two before. `IInv` carries the checks over that gap:

* `ReliesInv`: what a handler checked of its approval (state, binding, interaction) was
  true at the revision it names. Revisions never repeat (`ApprovalAdvances`,
  `TargetAdvances`), so it is true whenever the commit's comparison succeeds.
* `FitsInv` and `AloneInv`: the same for the target and for actions without approval.
* `EffectsInv`: effects found their target at a revision it has left, and
  correspond to consumed approvals; this is what makes an effect at a
  current revision a new one.
* `FitsInv` says of a comparison that passed its check: while it has the revision that was read, its inputs
  are current or the correction has not listed it. A correction moves what it has listed on to
  another revision, in the commit in which it marks the inputs.

**`OperationsProofs`**: `EvaluationsSettleWithTheirOperation` (`[]SettledTogether`), `OutcomesAreFinal`
(`NeverTakenBack`). Every handler writes back a whole operation. `Replaces` says that a
row about to be written keeps terminal, results and cancellation if it replaces the very
revision it was read at; `Recorded` says what an admission left behind, in a handler or
under its key (`AdmittedInv`), so that a redelivery finds the row as it was admitted or
is refused; `FreshInv` and `FreshEvaluationInv` keep drawn identities with their handler until
they are committed.

**`ProvenanceProofs`**: `CorrectionsNeverFork` (`[]OneSuccessor`), `NothingUnvouchedGetsOut`
(`[]OutputsAreGrounded`), `MarkedForGood` (`StaleIsFinal`), `CorrectionReaches`
(`CorrectionReachesWhatItMet`). The commits compare none of the rows they rest on. What makes that
sound is that rows only move forward: a fact once verified is verified or superseded, evidence once
accepted stays so, an evaluation that was completed is completed or stale. `confirmed` tells a fact that the
user has confirmed (`confirmedByUserAt`) from a suggestion that was superseded unseen; `Confirmed` says that it
is set on every verified fact and never taken back. `HandlerInv` states
what a handler may go on relying on; `MetInv` says, table by table, that what a
correction met is on its lists already, or will be found, or was marked by another.

**`PageProofs`** holds the proofs about the three modules of the web client's pages and extends them; the
names of `Career` and `Activity` are their own for that reason (`CareerSpec`, `ActivityTypeOK`).

* `Inbox`: `DecidedAsSeen` (`[]DecisionIsOnSeenContent`), `SavedOnce` (`[]OneOpportunityPerLead`).
  `ViewInv`: a page that shows the revision of a lead shows its state and text. `TabInv` and
  `DiscoveryInv` say the same of the requests under way, at the read and after it, and `FromInv` makes
  leads and the opportunities made from them correspond.
* `Career`: `CareerTypeCorrect`, `OnlyWhatWasReviewed` (`[]VerifiedWasReviewed`),
  `CompletionIsTrue` (`[]CompleteMeansDecided`). `VerifiedWasReviewed` speaks of the table only
  and is not inductive: what makes it so is what the pages and the requests may still do. `Knows`
  is what any earlier row of a fact says of it now: the same revision means the same row, and who
  suggested it never changes; `SnapshotInv` has it for every row a tab shows. A suggestion is at
  revision 1 (`RowInv`), so a request to confirm names revision 1 and the commit accepts it only
  while nobody else has decided. `RequestOK` and `ReviewOK` say that what a request or the rest of
  a review is to confirm was agreed to as it was shown and is vouched for by a completed
  organization (`Reviewed`), which `Forward` keeps: agreements and successes are never taken back.
  It does not matter, therefore, that a snapshot's facts and operations were read apart: a success
  that the page shows is final, and a fact it shows as decided is.
* `Activity`: `ActivityTypeCorrect`, `InOrder` (`StreamInOrder`). `StreamOK`: the i-th event on
  the wire is the i-th after the last one received, the cursor is the last on the wire, and there
  is at most one poll, which reads from the event after the cursor. A poll that ends late can then
  neither repeat nor skip an event; the second poll that `PollUnguarded` would start is the case
  the invariant excludes. `ServerInv` bounds the starts of the server by the disturbances. The
  proof uses no fairness, and so holds of `FairSpec`.

**`AgentRunsProofs`**: `AnswersAreSettled` (`[]AnswerIsSettled`), `OneOrganization`
(`[]OneOrganizationAtATime`). `ItemInv`, `CallInv` and `ResultsInv`: subjects of operations and items
never change, and a completion that was checked names only items of its operation's subject, so
that it may be carried out at any later time; `MarkInv`: the marks in flight are those of the organizations
under way, one each.

**`WorkspaceFilesProofs`**: `NothingNamedIsMissing` (`[]RecordsHaveTheirBytes`), `ReviewedIsImported`
(`[]ImportIsWhatWasReviewed`), `DoneIsDurable` (`[]ImportsAreDurable`), for any number of
crashes. `FilesInv`: whatever database or copy is on the disk, live or displaced or staged, names
only bytes that are sealed and were confirmed, and both only grow. `DurableInv` is stronger
than the property: what was answered is in a *rollback*, or no restore runs and the
database with its log has it. It is what the order of a restore is for: `KeepRollback` comes first and takes
the log into account, so that from then on the database may be lost.

**`NativeChildrenProofs`**: `TypeCorrect`, `InterruptsForOpenWork` (`InterruptsAreForOpenWork`),
`SuccessesAreCompletions` (`[]SuccessIsACompletion`). Nothing is assumed of the parent. `IInv` rests on two
arguments:

* `RevisionInv`: every request is made under a revision the coordinator knows, and an answer
  that is still under way is ahead of its view (`Ahead`). So no second request of an
  operation is granted before the first answer is taken in, and a late answer to a
  cancellation finds its operation open, or its child deleted and idle.
* `CreditInv`: a completion is followed from the end that credits it to the row that records it. An
  end in `pending` or `ends`, a settlement that asks for success and a row that has succeeded each have a
  completed activation of the same child credited to their operation (`Credited`); and once an end is
  being settled the timer is off for good, so that what was decided (`Decided`) is
  not overtaken by a timeout.

`CallInv`, `PostInv` and `WorkInv` tie requests to the step of the tool call, to the entry and to what the
child is at work on.

**What the proofs corrected.** Some statements had passed their runs and were false in a larger
instance, or were not what they seemed:

* `CorrectionReachesWhatItMet` claimed all that a correction had met. With two evidence items on
  two facts another correction may mark the evaluation in between, and what rests on it is then
  not found; the property is now about what still depends on the fact, and the table above has the rest.
* `InterruptHitsItsOwn` and `SuccessIsItsOwn` held with two operations as long as the parent was assumed to
  follow up only on a child whose work is settled, and failed with three even so. The code assumes
  nothing of the kind; both are now among the refuted claims, and what is proved holds for any parent.
* `terminalFor` was a CASE whose guards overlap when an end is completed and its operation timed out, which
  leaves the choice open; TLC takes the first. The time limit now comes first, as in children.ts:218.
* A conjunct of the type invariant of `Inbox` was read as part of a quantified one.

**Only model-checked**: liveness (`TicketsAreServed`, `InterruptedAreSettled`, `RunsEnd`,
`Converges`), which with fairness and ENABLED is outside the prover; the two violations and the
refuted claims, which are counterexamples. Every invariant and every action property that a run
expects to hold is stated by a theorem. Facts that need induction over data, and recursive operators,
stay with TLC as well.

## Not modelled, and why

* Cookies, CSRF, parsing, contracts, path checks: no shared state, refused calls
  change nothing. That a token is lost with the server is in `Activity`; the page keeps the promise of its
  first one (api.ts:44), so its commands are refused until it is loaded again.
* `OPERATION_TRANSITIONS` (state-machines.ts:37) has no step from queued to succeeded or
  failed; `terminateOperation` refuses only terminal operations, and both
  `Operations` and `NativeChildren` take such steps, as the code does. The evaluation's
  table is not consulted by the services either.
* A restart of the DSH host: the entries are lost, `entryForParent` builds one of them
  anew from the server's view, and the sequence of command identities starts again.
  Nested children and the follow-up's omission of `maxConcurrentChildren` (children.ts:732).
* Rejected evidence under another identity, claims and sources: they would need the
  texts; `ListRejected` may or may not find an equal identity.
* Expiry at the commit: `requireApprovedEffect` looks at the clock when it reads, and
  the effect may commit later. The model does the same and no property forbids it.
* Evaluations left running when an operation was settled by others, or by a
  restart: present in `Operations`; no document says what should become of them.
* `updateOpportunitySignals`, `createRubric`: single commits on rows that no modelled
  decision rests on; the first is the pattern of the callers of `WorkspaceStore`, a read and a commit. The search index and the exports are derived from the records and only read.
* `eventsBefore` (the history page of events) only reads. `StreamInOrder` is about one connection, since
  each begins with the first event again (see above).
* `workspace-admin` backup or health on a directory without a database, as a crash in a restore leaves it,
  creates an empty one. `Backup` waits for a database instead; what was imported is in the rollback
  by then, where `ImportsAreDurable` finds it.
* In `AgentRuns` an offer of a lead that is known already is refused; finding a lead again is in `Inbox`.
* `cleanupStaging` (artifact-store.ts) is never called by the program, so parts of a seal
  that a crash interrupted stay; no property forbids that.
* A crash in the creation of a workspace, or one that is refused midway, leaves a directory in
  which none can be created (`CreateDirectory`); no document promises more.
* RLM sessions: a Python kernel in another process; its calls are relayed one at a time, and what
  they commit is in `Provenance` and `Operations`.
* Scoring, canonical JSON and the import's parser are pure functions; the comparison and approval
  pages are forms over `Approvals`. Evaluation harness, scripts (but `workspace-admin.ts`) and vendored packages are
  no part of the running system.

## Plan

1. Done: all modules above, and theorems for every invariant and action property of their runs, among them
   that every step of `WorkspaceStore` is one of `CommandLedger` or a stutter.
2. Proofs left, by what they would add: `Operations`: that a restart leaves no handler which could still
   settle an operation.
3. Modelling left: the restart of the DSH host for `NativeChildren`; the life of an RLM kernel;
   `validateRubric` and `calculateScore` as functions against a reference definition, at the ends
   of their ranges.
