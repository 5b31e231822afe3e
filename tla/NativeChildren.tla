---------------------------- MODULE NativeChildren ----------------------------
(***************************************************************************)
(* NativeChildCoordinator (children.ts): the plugin in the DSH host that    *)
(* admits operations for delegated work at the workspace server, hands the  *)
(* work to continuable child sessions, and settles each operation when the  *)
(* child's activation ends.  It keeps one entry per operation with its last *)
(* view of the record, and makes every request under the revision of that   *)
(* view.  A tool call of the parent, a report of the child, a settlement    *)
(* and a timer can each have a request under way for one operation; users   *)
(* write the same records from the browser; a response can fail to come     *)
(* back.  The parent's tool calls are not concurrency safe, so DSH runs     *)
(* them one at a time; there is one parent, with one level of children.     *)
(* Not modelled: a restart of the host.                                     *)
(***************************************************************************)
EXTENDS Naturals, Sequences, FiniteSets

CONSTANTS
  Operations,   \* identities of operations
  Children,     \* identities of child sessions
  NoOperation,  \* a child no operation is correlated with
  MaxConcurrent,\* maxConcurrentChildren of the plugin's configuration
  NoChild,      \* an operation the coordinator does not know
  MaxDisturbances \* bound: how often a child reports, the parent cancels or deletes, a
                  \* user asks for something or a request fails, taken together

ASSUME ConstantsAssumption ==
  /\ NoOperation \notin Operations /\ NoChild \notin Children
  /\ MaxConcurrent \in Nat \ {0}
  /\ MaxDisturbances \in Nat

VARIABLES
  row,       \* the operation table of the workspace server
  entry,     \* byOperation: what the coordinator knows of each operation
  byChild,   \* the operation the end of a child's activation is credited to
  call,      \* the tool call of the parent that is under way
  post,      \* the request each task has under way for each operation
  work,      \* operations whose messages a child's activation has taken in
  stopped,   \* the operation on whose behalf that activation was interrupted
  revoked,   \* children that were deleted
  ended,     \* how the activation that took an operation's message in ended, and
             \* the operation that end was credited to
  extras,    \* how often a child reported, or the parent or a user intervened
  failures   \* how many requests or responses were lost

coordinator == <<entry, byChild, call>>
dsh == <<work, stopped, revoked, ended>>
counts == <<extras, failures>>
vars == <<row, coordinator, post, dsh, counts>>

-----------------------------------------------------------------------------
Terminal == {"succeeded", "failed", "canceled"}
Views == [state : {"absent", "queued", "running"} \cup Terminal, revision : Nat]
Unknown == [state |-> "absent", revision |-> 0]

Reasons == {"completed", "aborted", "error"}
Tasks == {"call", "report", "settle", "timer"}
Writes == {"admit", "started", "report", "message", "cancel", "deleted"} \cup Terminal

Entries == [child : Children \cup {NoChild}, view : Views, accepted : BOOLEAN,
            pending : Reasons \cup {"none"}, timer : BOOLEAN, timedOut : BOOLEAN,
            ends : Seq(Reasons)]
Posts == [phase : {"none", "sent", "answered", "failed"}, write : Writes,
          expected : Nat, view : Views]
Ends == [reason : Reasons \cup {"none"}, to : Operations \cup {NoOperation}]
Calls == [step : {"idle", "admit", "deliver", "record", "fail", "cancel", "dispose", "audit"},
          tool : {"start", "followup", "cancel", "delete"},
          operation : Operations \cup {NoOperation}, child : Children \cup {NoChild}]

NoEntry == [child |-> NoChild, view |-> Unknown,
            accepted |-> FALSE, pending |-> "none", timer |-> FALSE, timedOut |-> FALSE,
            ends |-> <<>>]
NoPost == [phase |-> "none", write |-> "report", expected |-> 0, view |-> Unknown]
Failure == [NoPost EXCEPT !.phase = "failed"]
NoCall == [step |-> "idle", tool |-> "start", operation |-> NoOperation, child |-> NoChild]
Known(o) == entry[o].child # NoChild

Init ==
  /\ row = [o \in Operations |-> Unknown]
  /\ entry = [o \in Operations |-> NoEntry]
  /\ byChild = [c \in Children |-> NoOperation]
  /\ call = NoCall
  /\ post = [t \in Tasks |-> [o \in Operations |-> NoPost]]
  /\ work = [c \in Children |-> {}]
  /\ stopped = [c \in Children |-> NoOperation]
  /\ revoked = {}
  /\ ended = [o \in Operations |-> [reason |-> "none", to |-> NoOperation]]
  /\ extras = 0
  /\ failures = 0

\* What a tool call, a settlement or a timer asks the server to write.
Asked(write, expected) ==
  [phase |-> "sent", write |-> write, expected |-> expected, view |-> Unknown]
Ask(t, o, write, expected) == post' = [post EXCEPT ![t][o] = Asked(write, expected)]
Done(t, o) == post' = [post EXCEPT ![t][o] = NoPost]

-----------------------------------------------------------------------------
\* The workspace server.

Granted(o, p) ==
  IF p.write = "admit"
    THEN row[o].state = "absent"
    ELSE /\ row[o].revision = p.expected
         /\ row[o].state \in Terminal => p.write = "deleted"

Written(v, write) ==
  [state    |-> CASE write = "admit" -> "queued"
                  [] write = "started" -> "running"
                  [] write \in Terminal -> write
                  [] OTHER -> v.state,
   revision |-> v.revision + 1]

\* A request reaches the server, which grants or refuses it; the response to
\* a granted one may be lost.
Serve(t, o) ==
  LET p == post[t][o] IN
  /\ p.phase = "sent"
  /\ \/ /\ Granted(o, p)
        /\ row' = [row EXCEPT ![o] = Written(@, p.write)]
        /\ \/ /\ post' = [post EXCEPT ![t][o] = [p EXCEPT !.phase = "answered", !.expected = 0,
                                                          !.view = row'[o]]]
              /\ UNCHANGED failures
           \/ /\ extras + failures < MaxDisturbances
              /\ failures' = failures + 1
              /\ post' = [post EXCEPT ![t][o] = Failure]
     \/ /\ ~Granted(o, p)
        /\ post' = [post EXCEPT ![t][o] = Failure]
        /\ UNCHANGED <<row, failures>>
  /\ UNCHANGED <<coordinator, dsh, extras>>

\* A request does not reach the server.
Drop(t, o) ==
  /\ post[t][o].phase = "sent"
  /\ extras + failures < MaxDisturbances
  /\ failures' = failures + 1
  /\ post' = [post EXCEPT ![t][o] = Failure]
  /\ UNCHANGED <<row, coordinator, dsh, extras>>

Extra == extras + failures < MaxDisturbances /\ extras' = extras + 1

\* A user asks in the browser for a cancellation, or for a follow-up.
BrowserRequest(o) ==
  /\ row[o].state # "absent"
  /\ Extra
  /\ row' = [row EXCEPT ![o].revision = @ + 1]
  /\ UNCHANGED <<coordinator, post, dsh, failures>>

-----------------------------------------------------------------------------
\* Admission, delivery and start: the tools start_child and child_followup.

Fresh(o) == row[o].state = "absent" /\ ~Known(o)
ActiveEntries == {o \in Operations : Known(o) /\ entry[o].view.state \notin Terminal}

Start(o, c) ==
  /\ call.step = "idle"
  /\ Fresh(o)
  /\ \A p \in Operations : entry[p].child # c
  /\ Cardinality(ActiveEntries) < MaxConcurrent
  /\ call' = [step |-> "admit", tool |-> "start", operation |-> o, child |-> c]
  /\ Ask("call", o, "admit", 0)
  /\ UNCHANGED <<row, entry, byChild, dsh, counts>>

Followup(previous, o) ==
  /\ call.step = "idle"
  /\ Known(previous)
  /\ Fresh(o)
  /\ call' = [step |-> "admit", tool |-> "followup", operation |-> o,
              child |-> entry[previous].child]
  /\ Ask("call", o, "admit", 0)
  /\ UNCHANGED <<row, entry, byChild, dsh, counts>>

\* The operation is admitted: the next end of the child is credited to it.
Admitted(o) ==
  LET p == post["call"][o] IN
  /\ call.step = "admit" /\ call.operation = o
  /\ \/ /\ p.phase = "answered"
        /\ entry' = [entry EXCEPT ![o] = [NoEntry EXCEPT !.child = call.child,
                                                         !.view = p.view]]
        /\ byChild' = [byChild EXCEPT ![call.child] = o]
        /\ call' = [call EXCEPT !.step = "deliver"]
     \/ /\ p.phase = "failed"
        /\ call' = NoCall
        /\ UNCHANGED <<entry, byChild>>
  /\ Done("call", o)
  /\ UNCHANGED <<row, dsh, counts>>

\* A start settles a failure under the revision of the admission, a follow-up
\* under that of its latest view.
FailureRevision(o) == IF call.tool = "start" THEN 1 ELSE entry[o].view.revision

\* DSH takes the message into the child's activation, or refuses it.
Deliver(o) ==
  /\ call.step = "deliver" /\ call.operation = o
  /\ \/ /\ call.child \notin revoked
        /\ work' = [work EXCEPT ![call.child] = @ \cup {o}]
        /\ call' = [call EXCEPT !.step = "record"]
        /\ Ask("call", o, "started", entry[o].view.revision)
        /\ UNCHANGED entry
     \/ /\ entry' = [entry EXCEPT ![o].accepted = TRUE]
        /\ call' = [call EXCEPT !.step = "fail"]
        /\ \E terminal \in {"canceled", "failed"} : Ask("call", o, terminal, FailureRevision(o))
        /\ UNCHANGED work
  /\ UNCHANGED <<row, byChild, stopped, revoked, ended, counts>>

\* The start is on record: the timer is armed, and an end that came before is
\* settled now.  If it is not on record, the operation is settled as one whose
\* message DSH never took in.
Started(o) ==
  LET p == post["call"][o] IN
  /\ call.step = "record" /\ call.operation = o
  /\ \/ /\ p.phase = "answered"
        /\ entry' = [entry EXCEPT ![o].view = p.view, ![o].accepted = TRUE, ![o].timer = TRUE,
                                  ![o].pending = "none",
                                  ![o].ends = IF entry[o].pending = "none" THEN @
                                              ELSE Append(@, entry[o].pending)]
        /\ call' = NoCall
        /\ Done("call", o)
     \/ /\ p.phase = "failed"
        /\ entry' = [entry EXCEPT ![o].accepted = TRUE]
        /\ call' = [call EXCEPT !.step = "fail"]
        /\ \E terminal \in {"canceled", "failed"} : Ask("call", o, terminal, FailureRevision(o))
  /\ UNCHANGED <<row, byChild, dsh, counts>>

\* The settlement of a failed delivery came back, granted or not.
Failed(o) ==
  LET p == post["call"][o] IN
  /\ call.step = "fail" /\ call.operation = o
  /\ p.phase \in {"answered", "failed"}
  /\ entry' = [entry EXCEPT ![o].view = IF p.phase = "answered" THEN p.view ELSE @]
  /\ call' = NoCall
  /\ Done("call", o)
  /\ UNCHANGED <<row, byChild, dsh, counts>>

-----------------------------------------------------------------------------
\* The end of an activation, and its settlement.

\* DSH ends the activation of a child, with every message it has taken in, and
\* tells the coordinator, which credits the operation admitted last.
End(c, reason) ==
  LET o == byChild[c] IN
  /\ work[c] # {}
  /\ stopped[c] # NoOperation \/ c \in revoked => reason = "aborted"
  /\ work' = [work EXCEPT ![c] = {}]
  /\ stopped' = [stopped EXCEPT ![c] = NoOperation]
  /\ ended' = [p \in Operations |->
                 IF p \in work[c] THEN [reason |-> reason, to |-> o] ELSE ended[p]]
  /\ entry' = [entry EXCEPT ![o].pending = IF entry[o].accepted THEN @ ELSE reason,
                            ![o].ends = IF entry[o].accepted THEN Append(@, reason) ELSE @]
  /\ UNCHANGED <<row, byChild, call, post, revoked, counts>>

\* Fault: a reason is passed on as a state.
terminalForUnmapped(e, reason) ==
  IF e.timedOut THEN "canceled" ELSE IF reason = "completed" THEN "succeeded" ELSE reason

terminalFor(e, reason) ==
  IF e.timedOut
    THEN "canceled"
    ELSE CASE reason = "completed" -> "succeeded"
           [] reason = "aborted"   -> "canceled"
           [] OTHER                -> "failed"

\* Fault: the timer is left armed.
SettleUnderTimer(o) ==
  /\ entry[o].ends # <<>>
  /\ post["settle"][o] = NoPost
  /\ IF entry[o].view.state \in Terminal
       THEN entry' = [entry EXCEPT ![o].ends = Tail(@)] /\ UNCHANGED post
       ELSE /\ \E write \in {"message", terminalFor(entry[o], Head(entry[o].ends))} :
                 Ask("settle", o, write, entry[o].view.revision)
            /\ UNCHANGED entry
  /\ UNCHANGED <<row, byChild, call, dsh, counts>>

\* The next end of an operation is settled: the timer is cleared, and a view
\* that is not terminal leads to a message, if the child left one, and then to
\* the terminal.
Settle(o) ==
  /\ entry[o].ends # <<>>
  /\ post["settle"][o] = NoPost
  /\ IF entry[o].view.state \in Terminal
       THEN /\ entry' = [entry EXCEPT ![o].timer = FALSE, ![o].ends = Tail(@)]
            /\ UNCHANGED post
       ELSE /\ entry' = [entry EXCEPT ![o].timer = FALSE]
            /\ \E write \in {"message", terminalFor(entry[o], Head(entry[o].ends))} :
                 Ask("settle", o, write, entry[o].view.revision)
  /\ UNCHANGED <<row, byChild, call, dsh, counts>>

\* A granted message is followed by the terminal; a failure ends the
\* settlement, with a warning in the log and nothing else.
SettleAnswered(o) ==
  LET p == post["settle"][o] IN
  /\ \/ /\ p.phase = "answered" /\ p.write = "message"
        /\ entry' = [entry EXCEPT ![o].view = p.view]
        /\ Ask("settle", o, terminalFor(entry[o], Head(entry[o].ends)), p.view.revision)
     \/ /\ p.phase = "answered" /\ p.write # "message"
        /\ entry' = [entry EXCEPT ![o].view = p.view, ![o].ends = Tail(@)]
        /\ Done("settle", o)
     \/ /\ p.phase = "failed"
        /\ entry' = [entry EXCEPT ![o].ends = Tail(@)]
        /\ Done("settle", o)
  /\ UNCHANGED <<row, byChild, call, dsh, counts>>

-----------------------------------------------------------------------------
\* Timeout, cancellation, report and deletion.

TimerFires(o) ==
  /\ entry[o].timer
  /\ IF entry[o].view.state \in Terminal
       THEN entry' = [entry EXCEPT ![o].timer = FALSE] /\ UNCHANGED post
       ELSE /\ entry' = [entry EXCEPT ![o].timer = FALSE, ![o].timedOut = TRUE]
            /\ Ask("timer", o, "cancel", entry[o].view.revision)
  /\ UNCHANGED <<row, byChild, call, dsh, counts>>

\* DSH interrupts what the child is doing; a child that does nothing is not
\* disturbed.
Interrupt(o) ==
  LET c == entry[o].child IN
  stopped' = [stopped EXCEPT ![c] = IF work[c] = {} THEN @ ELSE o]

\* Fault: the child is interrupted whether or not the request was granted.
TimerAnsweredAnyway(o) ==
  /\ post["timer"][o].phase \in {"answered", "failed"}
  /\ Interrupt(o)
  /\ Done("timer", o)
  /\ UNCHANGED <<row, coordinator, work, revoked, ended, counts>>

TimerAnswered(o) ==
  LET p == post["timer"][o] IN
  /\ \/ /\ p.phase = "answered"
        /\ entry' = [entry EXCEPT ![o].view = p.view]
        /\ Interrupt(o)
     \/ /\ p.phase = "failed"
        /\ UNCHANGED <<entry, stopped>>
  /\ Done("timer", o)
  /\ UNCHANGED <<row, byChild, call, work, revoked, ended, counts>>

Cancel(o) ==
  /\ call.step = "idle"
  /\ Known(o)
  /\ Extra
  /\ call' = [step |-> "cancel", tool |-> "cancel", operation |-> o, child |-> entry[o].child]
  /\ Ask("call", o, "cancel", entry[o].view.revision)
  /\ UNCHANGED <<row, entry, byChild, dsh, failures>>

CancelAnswered(o) ==
  LET p == post["call"][o] IN
  /\ call.step = "cancel" /\ call.operation = o
  /\ \/ /\ p.phase = "answered"
        /\ entry' = [entry EXCEPT ![o].view = p.view]
        /\ Interrupt(o)
     \/ /\ p.phase = "failed"
        /\ UNCHANGED <<entry, stopped>>
  /\ call' = NoCall
  /\ Done("call", o)
  /\ UNCHANGED <<row, byChild, work, revoked, ended, counts>>

\* The child at work reports under an operation it was given.
Report(o) ==
  /\ Known(o) /\ o \in work[entry[o].child]
  /\ entry[o].view.state \notin Terminal
  /\ Extra
  /\ post["report"][o] = NoPost
  /\ Ask("report", o, "report", entry[o].view.revision)
  /\ UNCHANGED <<row, coordinator, dsh, failures>>

ReportAnswered(o) ==
  LET p == post["report"][o] IN
  /\ p.phase \in {"answered", "failed"}
  /\ entry' = [entry EXCEPT ![o].view = IF p.phase = "answered" THEN p.view ELSE @]
  /\ Done("report", o)
  /\ UNCHANGED <<row, byChild, call, dsh, counts>>

\* Deletion revokes the child and waits for its activation, then refreshes
\* the view and leaves an audit event.
Delete(o) ==
  /\ call.step = "idle"
  /\ Known(o) /\ entry[o].child \notin revoked
  /\ Extra
  /\ call' = [step |-> "dispose", tool |-> "delete", operation |-> o, child |-> entry[o].child]
  /\ revoked' = revoked \cup {entry[o].child}
  /\ UNCHANGED <<row, entry, byChild, post, work, stopped, ended, failures>>

Refresh(o) ==
  /\ call.step = "dispose" /\ call.operation = o
  /\ work[call.child] = {}
  /\ entry' = [entry EXCEPT ![o].view = row[o]]
  /\ call' = [call EXCEPT !.step = "audit"]
  /\ Ask("call", o, "deleted", row[o].revision)
  /\ UNCHANGED <<row, byChild, dsh, counts>>

Deleted(o) ==
  LET p == post["call"][o] IN
  /\ call.step = "audit" /\ call.operation = o
  /\ p.phase \in {"answered", "failed"}
  /\ entry' = [entry EXCEPT ![o].view = IF p.phase = "answered" THEN p.view ELSE @]
  /\ call' = NoCall
  /\ Done("call", o)
  /\ UNCHANGED <<row, byChild, dsh, counts>>

Next ==
  \/ \E o \in Operations :
       \/ \E t \in Tasks : Serve(t, o) \/ Drop(t, o)
       \/ BrowserRequest(o)
       \/ \E c \in Children : Start(o, c)
       \/ \E previous \in Operations : Followup(previous, o)
       \/ Admitted(o) \/ Deliver(o) \/ Started(o) \/ Failed(o)
       \/ Settle(o) \/ SettleAnswered(o)
       \/ TimerFires(o) \/ TimerAnswered(o)
       \/ Cancel(o) \/ CancelAnswered(o)
       \/ Report(o) \/ ReportAnswered(o)
       \/ Delete(o) \/ Refresh(o) \/ Deleted(o)
  \/ \E c \in Children, reason \in Reasons : End(c, reason)

Spec == Init /\ [][Next]_vars

-----------------------------------------------------------------------------
TypeOK ==
  /\ row \in [Operations -> Views]
  /\ entry \in [Operations -> Entries]
  /\ byChild \in [Children -> Operations \cup {NoOperation}]
  /\ call \in Calls
  /\ post \in [Tasks -> [Operations -> Posts]]
  /\ work \in [Children -> SUBSET Operations]
  /\ stopped \in [Children -> Operations \cup {NoOperation}]
  /\ revoked \in SUBSET Children
  /\ ended \in [Operations -> Ends]
  /\ extras \in Nat /\ failures \in Nat

\* However late the answer to a timer's or the parent's cancellation comes, a child
\* is interrupted for no operation that has its terminal by then: while the answer is
\* under way the record is ahead of the coordinator's view, so that nothing settles
\* the operation, unless a deletion has read the record, and then the child is gone.
InterruptsAreForOpenWork ==
  [][\A c \in Children :
       stopped'[c] # stopped[c] /\ stopped'[c] # NoOperation
         => row[stopped'[c]].state \notin Terminal]_vars

\* An operation is recorded as succeeded only if an activation of its child has
\* completed and that end was credited to it, and never when its time was up before
\* the settlement, however the end, the timer and their requests race.  (The message
\* that was completed need not be the operation's own.)
SuccessIsACompletion ==
  \A o \in Operations : row[o].state = "succeeded" =>
    /\ ~entry[o].timedOut
    /\ \E p \in Operations : /\ ended[p] = [reason |-> "completed", to |-> o]
                            /\ entry[p].child = entry[o].child

\* SPEC.md:818, of delegated work: "Returning a child handle or initial report does
\* not mean the child completed."  An operation is recorded as succeeded only if its
\* own message was completed.  A follow-up takes the next end of its child over, so
\* that the code does not have this, and no run checks it.
SuccessIsItsOwn ==
  \A o \in Operations : row[o].state = "succeeded" => ended[o].reason = "completed"

\* A timeout or a cancellation of one operation interrupts no activation that works
\* for another one which is still open.  The interruption names a child and no
\* operation, so that the code does not have this, and no run checks it.
InterruptHitsItsOwn ==
  \A c \in Children : stopped[c] # NoOperation =>
    stopped[c] \in work[c] \/ \A p \in work[c] : row[p].state \in Terminal

\* SPEC.md 5.10: "Exactly one terminal record exists per operation."  While no
\* request fails, an operation whose child has ended, with nothing left under
\* way that could still settle it, has one.
EndedIsSettled ==
  failures = 0 =>
    \A o \in Operations :
      /\ ended[o].reason # "none"
      /\ call.step = "idle"
      /\ entry[o].ends = <<>>
      /\ \A t \in Tasks : post[t][o] = NoPost
      => row[o].state \in Terminal
=============================================================================
