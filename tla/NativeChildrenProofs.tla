------------------------- MODULE NativeChildrenProofs -------------------------
(***************************************************************************)
(* For every number of operations, children and disturbances: the state is  *)
(* well typed; no child is interrupted for an operation that has its        *)
(* terminal; and a success is a completion that was credited to the         *)
(* operation before its time was up.  The second rests on an order: an      *)
(* answer that is still under way is ahead of what the coordinator knows,   *)
(* so that nothing else can be granted for its operation before it is taken *)
(* in.  The third follows a completion on its way from the end of an        *)
(* activation through the pending end or the queue and the request to the   *)
(* record.                                                                  *)
(***************************************************************************)
EXTENDS NativeChildren, TLAPS

Open(o) == row[o].state \notin Terminal
Named(o) == entry[o].child

\* Who works where.  What nobody has admitted has left no trace.
WorkInv ==
  /\ \A c \in Children : byChild[c] # NoOperation => Named(byChild[c]) = c
  /\ \A o \in Operations : Known(o) => byChild[Named(o)] \in Operations
  /\ \A c \in Children : \A o \in work[c] : Named(o) = c /\ ended[o].reason = "none"
  /\ \A o \in Operations : ~Known(o) =>
       /\ entry[o] = NoEntry /\ ended[o].reason = "none" /\ row[o].state \in {"absent", "queued"}
       /\ \A t \in Tasks \ {"call"} : post[t][o] = NoPost

\* The request of the tool call at its step.
Writing(step) ==
  CASE step = "admit" -> {"admit"}   [] step = "record" -> {"started"}
    [] step = "fail" -> {"failed", "canceled"} [] step = "cancel" -> {"cancel"}
    [] step = "audit" -> {"deleted"} [] OTHER -> {}

CallInv ==
  /\ \A o \in Operations : post["call"][o] # NoPost =>
       /\ call.operation = o /\ call.step \notin {"idle", "deliver", "dispose"}
       /\ post["call"][o].phase = "failed" \/ post["call"][o].write \in Writing(call.step)
  /\ call.step # "idle" => call.operation \in Operations /\ call.child \in Children
  /\ call.step = "admit" => ~Known(call.operation)
  /\ call.step \notin {"idle", "admit"} => Named(call.operation) = call.child
  /\ call.step = "deliver" =>
       /\ call.operation \notin work[call.child] /\ ended[call.operation].reason = "none"
       /\ \A t \in Tasks : post[t][call.operation] = NoPost
  /\ call.step \in {"deliver", "record"} =>
       /\ entry[call.operation].ends = <<>> /\ ~entry[call.operation].timer
       /\ ~entry[call.operation].accepted
       /\ post["settle"][call.operation] = NoPost /\ post["timer"][call.operation] = NoPost
  /\ call.step \in {"dispose", "audit"} => call.child \in revoked
  /\ call.step = "audit" => work[call.child] = {}

\* The requests of the other tasks.
PostOK(o) ==
  /\ post["timer"][o].phase \in {"sent", "answered"} => post["timer"][o].write = "cancel"
  /\ post["report"][o].phase \in {"sent", "answered"} => post["report"][o].write = "report"
  /\ post["settle"][o] # NoPost => entry[o].ends # <<>>
  /\ post["settle"][o].phase \in {"sent", "answered"} =>
       post["settle"][o].write \in {"message"} \cup Terminal
PostInv == \A o \in Operations : PostOK(o)

\* A child that was deleted and does nothing will never do anything.
Gone(c) == c \in revoked /\ work[c] = {}

\* Every request is made under a revision the coordinator knows, and an answer
\* under way is ahead of it.
Ahead(o) ==
  /\ \A t \in Tasks : post[t][o].phase = "sent" => post[t][o].expected <= entry[o].view.revision
  /\ \A t \in Tasks : post[t][o].phase = "answered" =>
       /\ entry[o].view.revision < post[t][o].view.revision
       /\ post[t][o].view.revision <= row[o].revision
       /\ post[t][o].write = "cancel" => Open(o)
       /\ \A u \in Tasks : post[u][o].phase = "answered" => u = t
  /\ entry[o].view.revision <= row[o].revision
  /\ Known(o) => entry[o].view.revision >= 1
RevisionOK(o) == (Known(o) /\ Gone(Named(o))) \/ Ahead(o)
RevisionInv == \A o \in Operations : RevisionOK(o)

\* Something of the operation's child was completed, and credited to it.
Credited(o) ==
  \E p \in Operations : Named(p) = Named(o) /\ ended[p] = [reason |-> "completed", to |-> o]

\* What is to become a success is a completion credited to the operation, and
\* whatever is being settled has no timer that could still fire.
Decided(o) == post["settle"][o] # NoPost \/ row[o].state = "succeeded"
CreditOK(o) ==
  /\ entry[o].pending = "completed" => Credited(o)
  /\ \A i \in 1..Len(entry[o].ends) : entry[o].ends[i] = "completed" => Credited(o)
  /\ post["settle"][o].write = "succeeded" \/ row[o].state = "succeeded" =>
       Credited(o) /\ ~entry[o].timedOut
  /\ entry[o].ends # <<>> \/ Decided(o) => entry[o].accepted
  /\ Decided(o) => ~entry[o].timer
CreditInv == \A o \in Operations : CreditOK(o)

IInv ==
  TypeOK /\ WorkInv /\ CallInv /\ PostInv /\ RevisionInv /\ CreditInv

-------------------------------------------------------------------------------
LEMMA Typed ==
  ASSUME TypeOK
  PROVE  /\ \A o \in Operations : /\ row[o] \in Views /\ entry[o] \in Entries
                                  /\ ended[o] \in Ends
         /\ \A t \in Tasks, o \in Operations : post[t][o] \in Posts
         /\ \A c \in Children : /\ work[c] \subseteq Operations
                                /\ byChild[c] \in Operations \cup {NoOperation}
                                /\ stopped[c] \in Operations \cup {NoOperation}
         /\ {"call", "report", "settle", "timer"} = Tasks
BY DEF TypeOK, Tasks

LEMMA NoPostTyped ==
  /\ NoPost \in Posts /\ NoPost.phase = "none" /\ NoPost.write = "report"
  /\ Failure \in Posts /\ Failure.phase = "failed" /\ Failure.write = "report"
  /\ NoPost # Failure
  /\ \A write \in Writes, expected \in Nat :
       /\ Asked(write, expected) \in Posts /\ Asked(write, expected).phase = "sent"
       /\ Asked(write, expected).write = write
       /\ Asked(write, expected).expected = expected
       /\ Asked(write, expected) # NoPost
BY DEF NoPost, Failure, Posts, Asked, Unknown, Views, Writes, Terminal

\* A request of one task is written.
LEMMA PostSet ==
  ASSUME TypeOK, NEW t \in Tasks, NEW o \in Operations, NEW x \in Posts,
         post' = [post EXCEPT ![t][o] = x]
  PROVE  /\ post' \in [Tasks -> [Operations -> Posts]] /\ post'[t][o] = x
         /\ \A u \in Tasks, p \in Operations : u # t \/ p # o => post'[u][p] = post[u][p]
BY DEF TypeOK

LEMMA CallPostSet ==
  ASSUME TypeOK, NEW o \in Operations, NEW x \in Posts, post' = [post EXCEPT !["call"][o] = x]
  PROVE  /\ post' \in [Tasks -> [Operations -> Posts]] /\ post'["call"][o] = x
         /\ \A u \in Tasks, p \in Operations : u # "call" \/ p # o => post'[u][p] = post[u][p]
BY PostSet DEF Tasks

LEMMA NoEntryTyped ==
  /\ NoEntry \in Entries /\ NoEntry.child = NoChild /\ NoEntry.view.revision = 0
  /\ NoEntry.ends = <<>> /\ NoEntry.timer = FALSE /\ NoEntry.accepted = FALSE
  /\ NoEntry.pending = "none" /\ NoEntry.timedOut = FALSE
<1>1. Unknown \in Views /\ Unknown.revision = 0
  BY DEF Unknown, Views
<1>2. QED
  BY <1>1 DEF NoEntry, Entries

LEMMA NewEntryTyped ==
  ASSUME NEW c \in Children, NEW v \in Views
  PROVE  /\ [NoEntry EXCEPT !.child = c, !.view = v] \in Entries
         /\ [NoEntry EXCEPT !.child = c, !.view = v].child = c
         /\ [NoEntry EXCEPT !.child = c, !.view = v].view = v
         /\ [NoEntry EXCEPT !.child = c, !.view = v].ends = <<>>
         /\ [NoEntry EXCEPT !.child = c, !.view = v].timer = FALSE
         /\ [NoEntry EXCEPT !.child = c, !.view = v].accepted = FALSE
         /\ [NoEntry EXCEPT !.child = c, !.view = v].pending = "none"
BY NoEntryTyped DEF Entries

LEMMA StepTyped ==
  ASSUME NEW c \in Calls,
         NEW step \in {"idle", "admit", "deliver", "record", "fail", "cancel", "dispose", "audit"}
  PROVE  /\ [c EXCEPT !.step = step] \in Calls /\ [c EXCEPT !.step = step].step = step
         /\ [c EXCEPT !.step = step].operation = c.operation
         /\ [c EXCEPT !.step = step].child = c.child
         /\ [c EXCEPT !.step = step].tool = c.tool
BY DEF Calls

LEMMA CallTyped ==
  /\ NoCall \in Calls /\ NoCall.step = "idle"
  /\ \A step \in {"admit", "cancel", "dispose"}, tool \in {"start", "followup", "cancel", "delete"},
        o \in Operations, c \in Children \cup {NoChild} :
       [step |-> step, tool |-> tool, operation |-> o, child |-> c] \in Calls
BY DEF NoCall, Calls

\* What a step may do to the operations, but for one of them.
Elsewhere(o) ==
  \A p \in Operations \ {o} :
    entry'[p] = entry[p] /\ row'[p] = row[p] /\ \A t \in Tasks : post'[t][p] = post[t][p]

\* What is settled remains so, and what was completed remains completed.
Lasting ==
  /\ \A p \in Operations : Known(p) => Named(p)' = Named(p)
  /\ \A p \in Operations : ~Open(p) => row'[p].state = row[p].state
  /\ \A p \in Operations : ended[p].reason = "completed" => ended'[p] = ended[p]

LEMMA CreditedLasts ==
  ASSUME IInv, Lasting, NEW o \in Operations, Credited(o)
  PROVE  Known(o) /\ Credited(o)'
<1>1. PICK p \in Operations : Named(p) = Named(o) /\ ended[p] = [reason |-> "completed", to |-> o]
  BY DEF Credited
<1>2. ended[p].reason = "completed"
  BY <1>1
<1>3. Known(p)
  BY <1>2 DEF IInv, WorkInv
<1>4. Known(o)
  BY <1>1, <1>3 DEF Known, Named
<1>5. Named(p)' = Named(o)' /\ ended'[p] = [reason |-> "completed", to |-> o]
  BY <1>1, <1>2, <1>3, <1>4 DEF Lasting
<1>6. QED
  BY <1>4, <1>5 DEF Credited

LEMMA CreditKept ==
  ASSUME IInv, Lasting, NEW o \in Operations, Elsewhere(o), CreditOK(o)'
  PROVE  CreditInv'
<1> SUFFICES ASSUME NEW p \in Operations \ {o}
             PROVE  CreditOK(p)'
  BY DEF CreditInv
<1>1. CreditOK(p) /\ "settle" \in Tasks
  BY DEF IInv, CreditInv, Tasks
<1>2. entry'[p] = entry[p] /\ row'[p] = row[p] /\ post'["settle"][p] = post["settle"][p]
  BY <1>1 DEF Elsewhere
<1>3. Credited(p) => Credited(p)'
  BY CreditedLasts
<1>4. QED
  BY <1>1, <1>2, <1>3 DEF CreditOK, Decided

LEMMA PostKept ==
  ASSUME IInv, NEW o \in Operations, Elsewhere(o), PostOK(o)'
  PROVE  PostInv'
<1> SUFFICES ASSUME NEW p \in Operations \ {o}
             PROVE  PostOK(p)'
  BY DEF PostInv
<1>1. PostOK(p) /\ {"call", "report", "settle", "timer"} = Tasks
  BY DEF IInv, PostInv, Tasks
<1>2. QED
  BY <1>1 DEF Elsewhere, PostOK

LEMMA RevisionKept ==
  ASSUME IInv, Lasting, NEW o \in Operations, Elsewhere(o), RevisionOK(o)',
         \A c \in Children : Gone(c) => Gone(c)'
  PROVE  RevisionInv'
<1> SUFFICES ASSUME NEW p \in Operations \ {o}
             PROVE  RevisionOK(p)'
  BY DEF RevisionInv
<1>1. RevisionOK(p)
  BY DEF IInv, RevisionInv
<1>2. entry'[p] = entry[p] /\ row'[p] = row[p] /\ \A t \in Tasks : post'[t][p] = post[t][p]
  BY DEF Elsewhere
<1>3. CASE Known(p) /\ Gone(Named(p))
  <2>1. Named(p) \in Children
    BY <1>3, Typed DEF IInv, Known, Named, Entries
  <2>2. QED
    BY <1>2, <1>3, <2>1 DEF RevisionOK, Known, Named
<1>4. CASE Ahead(p)
  <2>1. Ahead(p)'
    BY <1>2, <1>4 DEF Ahead, Open, Known
  <2>2. QED
    BY <2>1 DEF RevisionOK
<1>5. QED
  BY <1>1, <1>3, <1>4 DEF RevisionOK

\* The tool call is not disturbed by what another task does about o.
LEMMA CallKept ==
  ASSUME IInv, NEW o \in Operations, Elsewhere(o),
         call' = call, UNCHANGED <<row, byChild, work, revoked, ended>>, Named(o)' = Named(o),
         post'["call"][o] = post["call"][o],
         call.operation = o => call.step # "deliver",
         call.operation = o /\ call.step = "record" =>
           /\ entry'[o].ends = entry[o].ends /\ entry'[o].accepted = entry[o].accepted
           /\ ~entry'[o].timer
           /\ post'["settle"][o] = NoPost /\ post'["timer"][o] = NoPost
  PROVE  CallInv'
<1>1. CallInv /\ {"call", "report", "settle", "timer"} = Tasks
  BY DEF IInv, Tasks
<1>2. \A p \in Operations : post'["call"][p] = post["call"][p] /\ Named(p)' = Named(p)
  BY <1>1 DEF Elsewhere, Named
<1>3. \A p \in Operations : Known(p)' = Known(p)
  BY <1>2 DEF Known, Named
<1>4. UNCHANGED <<work, revoked, ended>>
  OBVIOUS
<1>5. \A p \in Operations : post'["call"][p] # NoPost =>
        /\ call'.operation = p /\ call'.step \notin {"idle", "deliver", "dispose"}
        /\ post'["call"][p].phase = "failed" \/ post'["call"][p].write \in Writing(call'.step)
  BY <1>1, <1>2 DEF CallInv
<1>6. call.step # "idle" => call.operation \in Operations
  BY <1>1 DEF CallInv
<1>7. call'.step \in {"deliver", "record"} =>
        /\ entry'[call.operation].ends = <<>> /\ ~entry'[call.operation].timer
        /\ ~entry'[call.operation].accepted
        /\ post'["settle"][call.operation] = NoPost /\ post'["timer"][call.operation] = NoPost
  <2> HAVE call'.step \in {"deliver", "record"}
  <2>1. CASE call.operation = o
    BY <1>1, <2>1 DEF CallInv
  <2>2. CASE call.operation # o
    BY <1>1, <1>6, <2>2 DEF CallInv, Elsewhere
  <2>3. QED
    BY <2>1, <2>2
<1>8. call'.step = "deliver" => \A t \in Tasks : post'[t][call.operation] = NoPost
  BY <1>1, <1>6 DEF CallInv, Elsewhere
<1>9. call'.step = "admit" => ~Known(call.operation)'
  BY <1>1, <1>2, <1>3, <1>6 DEF CallInv
<1>10. call'.step \notin {"idle", "admit"} => Named(call.operation)' = call.child
  BY <1>1, <1>2, <1>6 DEF CallInv
<1>11. QED
  BY <1>1, <1>4, <1>5, <1>6, <1>7, <1>8, <1>9, <1>10 DEF CallInv, Named, Known

\* A step that changes what the coordinator knows and asks of one operation, but
\* no record, and nothing in DSH but an interruption.
LEMMA Interrupting ==
  ASSUME IInv, NEW o \in Operations, Elsewhere(o), UNCHANGED <<row, byChild, work, revoked, ended>>,
         Named(o)' = Named(o),
         ~Known(o) => /\ entry'[o] = entry[o]
                      /\ \A t \in Tasks \ {"call"} : post'[t][o] = post[t][o],
         TypeOK', CallInv', PostOK(o)', RevisionOK(o)', CreditOK(o)'
  PROVE  IInv'
<1>1. WorkInv
  BY DEF IInv
<1>2. UNCHANGED <<work, revoked, ended>>
  OBVIOUS
<1>3. /\ \A p \in Operations : Named(p)' = Named(p) /\ Known(p)' = Known(p) /\ Open(p)' = Open(p)
      /\ byChild' = byChild
  BY DEF Elsewhere, Named, Known, Open
<1>4. Lasting
  BY <1>2, <1>3 DEF Lasting
<1>5. \A c \in Children : Gone(c) => Gone(c)'
  BY <1>2 DEF Gone
<1>6. PostInv' /\ RevisionInv' /\ CreditInv'
  BY <1>2, <1>4, <1>5, PostKept, RevisionKept, CreditKept
<1>7. WorkInv'
  <2>1. ASSUME NEW p \in Operations, ~Known(p)'
        PROVE  /\ entry'[p] = NoEntry /\ ended'[p].reason = "none"
               /\ row'[p].state \in {"absent", "queued"}
               /\ \A t \in Tasks \ {"call"} : post'[t][p] = NoPost
    <3>1. ~Known(p)
      BY <1>3, <2>1
    <3>2. /\ entry[p] = NoEntry /\ ended[p].reason = "none"
          /\ row[p].state \in {"absent", "queued"}
          /\ \A t \in Tasks \ {"call"} : post[t][p] = NoPost
      BY <1>1, <3>1 DEF WorkInv
    <3>3. entry'[p] = entry[p] /\ \A t \in Tasks \ {"call"} : post'[t][p] = post[t][p]
      BY <3>1 DEF Elsewhere
    <3>4. QED
      BY <1>2, <3>2, <3>3
  <2>2. \A c \in Children : byChild'[c] # NoOperation => entry'[byChild'[c]].child = c
    <3>1. \A c \in Children : byChild[c] \in Operations \cup {NoOperation}
      BY Typed DEF IInv
    <3>2. QED
      BY <1>1, <1>3, <3>1 DEF WorkInv, Named
  <2>3. \A p \in Operations : Known(p)' => byChild'[Named(p)'] \in Operations
    BY <1>1, <1>3 DEF WorkInv
  <2>4. \A c \in Children : \A p \in work'[c] : Named(p)' = c /\ ended'[p].reason = "none"
    <3>1. \A c \in Children : work[c] \subseteq Operations
      BY Typed DEF IInv
    <3>2. QED
      BY <1>1, <1>2, <1>3, <3>1 DEF WorkInv, Named
  <2>5. QED
    BY <2>1, <2>2, <2>3, <2>4 DEF WorkInv, Named, Known
<1>8. QED
  BY <1>6, <1>7 DEF IInv

LEMMA Quiet ==
  ASSUME IInv, NEW o \in Operations, Elsewhere(o), UNCHANGED <<row, byChild, dsh>>,
         Named(o)' = Named(o),
         ~Known(o) => /\ entry'[o] = entry[o]
                      /\ \A t \in Tasks \ {"call"} : post'[t][o] = post[t][o],
         TypeOK', CallInv', PostOK(o)', RevisionOK(o)', CreditOK(o)'
  PROVE  IInv'
BY Interrupting DEF dsh

\* A request under a revision that the coordinator knows, or none.
Timely(x, view) == x.phase = "sent" => x.expected <= view.revision

LEMMA NothingSent ==
  /\ NoPost.phase # "answered" /\ Failure.phase # "answered"
  /\ \A view : Timely(NoPost, view) /\ Timely(Failure, view)
BY DEF NoPost, Failure, Timely

LEMMA SameView ==
  ASSUME IInv, NEW t \in Tasks, NEW o \in Operations, NEW x \in Posts,
         x.phase # "answered", Timely(x, entry[o].view),
         post' = [post EXCEPT ![t][o] = x], UNCHANGED <<row, work, revoked>>,
         Named(o)' = Named(o), entry'[o].view = entry[o].view
  PROVE  RevisionOK(o)'
<1>1. RevisionOK(o)
  BY DEF IInv, RevisionInv
<1>2. CASE Known(o) /\ Gone(Named(o))
  BY <1>2 DEF RevisionOK, Known, Named, Gone
<1>3. CASE Ahead(o)
  <2>1. /\ post'[t][o] = x
        /\ \A u \in Tasks : u # t => post'[u][o] = post[u][o]
    BY PostSet DEF IInv
  <2>2. Ahead(o)'
    BY <1>3, <2>1 DEF Ahead, Timely, Open, Known, Named
  <2>3. QED
    BY <2>2 DEF RevisionOK
<1>4. QED
  BY <1>1, <1>2, <1>3 DEF RevisionOK

LEMMA NewView ==
  ASSUME IInv, NEW t \in Tasks, NEW o \in Operations, NEW x \in Posts,
         post[t][o].phase = "answered",
         x.phase # "answered", Timely(x, post[t][o].view),
         post' = [post EXCEPT ![t][o] = x], UNCHANGED <<row, work, revoked>>,
         Named(o)' = Named(o), entry'[o].view = post[t][o].view
  PROVE  RevisionOK(o)'
<1>1. RevisionOK(o)
  BY DEF IInv, RevisionInv
<1>2. CASE Known(o) /\ Gone(Named(o))
  BY <1>2 DEF RevisionOK, Known, Named, Gone
<1>3. CASE Ahead(o)
  <2>1. /\ post'[t][o] = x
        /\ \A u \in Tasks : u # t => post'[u][o] = post[u][o]
    BY PostSet DEF IInv
  <2>2. /\ entry[o].view.revision \in Nat /\ row[o].revision \in Nat
        /\ post[t][o].view.revision \in Nat
        /\ \A u \in Tasks : post[u][o].expected \in Nat
    BY Typed DEF IInv, Entries, Views, Posts
  <2>3. \A u \in Tasks : u # t => post[u][o].phase # "answered"
    BY <1>3 DEF Ahead
  <2>4. \A u \in Tasks :
          post'[u][o].phase = "sent" => post'[u][o].expected <= entry'[o].view.revision
    BY <1>3, <2>1, <2>2 DEF Ahead, Timely
  <2>5. Ahead(o)'
    BY <1>3, <2>1, <2>2, <2>3, <2>4 DEF Ahead, Known, Named
  <2>6. QED
    BY <2>5 DEF RevisionOK
<1>4. QED
  BY <1>1, <1>2, <1>3 DEF RevisionOK

\* A record changes at the server, and perhaps the request that changed it.
LEMMA RowChanged ==
  ASSUME IInv, NEW o \in Operations, Elsewhere(o), UNCHANGED <<coordinator, dsh>>,
         TypeOK', CallInv', PostOK(o)', RevisionOK(o)', CreditOK(o)',
         \A t \in Tasks : t # "call" /\ post[t][o] = NoPost => post'[t][o] = NoPost,
         ~Open(o) => row'[o].state = row[o].state,
         ~Known(o) => row'[o].state \in {"absent", "queued"}
  PROVE  IInv'
<1>1. WorkInv
  BY DEF IInv
<1>2. UNCHANGED <<entry, byChild, call, work, stopped, revoked, ended>>
  BY DEF dsh, coordinator
<1>3. \A p \in Operations : Named(p)' = Named(p) /\ Known(p)' = Known(p)
  BY <1>2 DEF Named, Known
<1>4. Lasting
  BY <1>2, <1>3 DEF Lasting, Elsewhere
<1>5. \A c \in Children : Gone(c) => Gone(c)'
  BY <1>2 DEF Gone
<1>6. PostInv' /\ RevisionInv' /\ CreditInv'
  BY <1>2, <1>4, <1>5, PostKept, RevisionKept, CreditKept
<1>7. WorkInv'
  <2>1. ASSUME NEW p \in Operations, ~Known(p)
        PROVE  /\ row'[p].state \in {"absent", "queued"}
               /\ \A t \in Tasks \ {"call"} : post'[t][p] = NoPost
    <3>1. /\ row[p].state \in {"absent", "queued"}
          /\ \A t \in Tasks \ {"call"} : post[t][p] = NoPost
      BY <1>1, <2>1 DEF WorkInv
    <3>2. QED
      BY <2>1, <3>1 DEF Elsewhere
  <2>2. QED
    BY <1>1, <1>2, <1>3, <2>1 DEF WorkInv, Named, Known
<1>8. QED
  BY <1>6, <1>7 DEF IInv

LEMMA CallServed ==
  ASSUME IInv, NEW o \in Operations, Elsewhere(o), UNCHANGED <<coordinator, dsh>>,
         \A t \in Tasks : post[t][o] = NoPost => post'[t][o] = NoPost,
         post["call"][o] # NoPost =>
           \/ post'["call"][o].phase = "failed"
           \/ post'["call"][o].write = post["call"][o].write /\ post["call"][o].phase # "failed"
  PROVE  CallInv'
<1>1. CallInv /\ {"call", "report", "settle", "timer"} = Tasks
  BY DEF IInv, Tasks
<1>2. UNCHANGED <<entry, byChild, call, work, revoked, ended>>
  BY DEF dsh, coordinator
<1>3. call.step # "idle" => call.operation \in Operations
  BY <1>1 DEF CallInv
<1>4. \A p \in Operations : post'["call"][p] # NoPost =>
        /\ call.operation = p /\ call.step \notin {"idle", "deliver", "dispose"}
        /\ post'["call"][p].phase = "failed" \/ post'["call"][p].write \in Writing(call.step)
  <2> SUFFICES ASSUME NEW p \in Operations, post'["call"][p] # NoPost
               PROVE  /\ call.operation = p /\ call.step \notin {"idle", "deliver", "dispose"}
                      /\ \/ post'["call"][p].phase = "failed"
                         \/ post'["call"][p].write \in Writing(call.step)
    OBVIOUS
  <2>1. post["call"][p] # NoPost
    BY <1>1 DEF Elsewhere
  <2>2. /\ call.operation = p /\ call.step \notin {"idle", "deliver", "dispose"}
        /\ post["call"][p].phase = "failed" \/ post["call"][p].write \in Writing(call.step)
    BY <1>1, <2>1 DEF CallInv
  <2>3. CASE p = o
    BY <2>1, <2>2, <2>3
  <2>4. CASE p # o
    BY <1>1, <2>2, <2>4 DEF Elsewhere
  <2>5. QED
    BY <2>3, <2>4
<1>5. call.step = "deliver" => \A t \in Tasks : post'[t][call.operation] = NoPost
  BY <1>1, <1>3 DEF CallInv, Elsewhere
<1>6. call.step \in {"deliver", "record"} =>
        post'["settle"][call.operation] = NoPost /\ post'["timer"][call.operation] = NoPost
  BY <1>1, <1>3 DEF CallInv, Elsewhere
<1>7. QED
  BY <1>1, <1>2, <1>4, <1>5, <1>6 DEF CallInv, Named, Known

LEMMA SameCredit ==
  ASSUME UNCHANGED ended, \A p \in Operations : entry'[p].child = entry[p].child,
         NEW o \in Operations
  PROVE  Credited(o)' <=> Credited(o)
BY DEF Credited, Named

\* A request fails.
LEMMA FailureKeeps ==
  ASSUME IInv, NEW t \in Tasks, NEW o \in Operations, post[t][o].phase = "sent",
         post' = [post EXCEPT ![t][o] = Failure],
         UNCHANGED <<row, coordinator, dsh, extras>>, failures' \in Nat
  PROVE  IInv'
<1>1. UNCHANGED <<row, entry, byChild, call, work, stopped, revoked, ended, extras>>
  BY DEF coordinator, dsh
<1>2. TypeOK /\ CallInv /\ PostOK(o) /\ CreditOK(o)
  BY DEF IInv, PostInv, CreditInv
<1>3. /\ post' \in [Tasks -> [Operations -> Posts]] /\ post'[t][o] = Failure
      /\ \A u \in Tasks, p \in Operations : u # t \/ p # o => post'[u][p] = post[u][p]
      /\ {"call", "report", "settle", "timer"} = Tasks
  <2>1. Failure \in Posts
    BY NoPostTyped
  <2>2. /\ post' \in [Tasks -> [Operations -> Posts]] /\ post'[t][o] = Failure
        /\ \A u \in Tasks, p \in Operations : u # t \/ p # o => post'[u][p] = post[u][p]
    BY <1>1, <1>2, <2>1, PostSet, ZenonT(60)
  <2>3. QED
    BY <2>2 DEF Tasks
<1>4. post[t][o] # NoPost
  BY <1>1, NoPostTyped
<1>5. Elsewhere(o)
  BY <1>1, <1>3 DEF Elsewhere
<1>6. TypeOK'
  BY <1>1, <1>2, <1>3 DEF TypeOK
<1>7. CallInv'
  <2>1. post["call"][o] # NoPost /\ t # "call" => post'["call"][o] = post["call"][o]
    BY <1>3
  <2>2. CASE t = "call"
    BY <1>1, <1>2, <1>3, <1>4, <1>5, <2>2, CallServed, NoPostTyped DEF CallInv, Open
  <2>3. CASE t # "call"
    <3>1. call.operation = o => call.step # "deliver"
      BY <1>2, <1>4 DEF CallInv
    <3>2. call.operation = o /\ call.step = "record" =>
            post'["settle"][o] = NoPost /\ post'["timer"][o] = NoPost /\ ~entry[o].timer
      BY <1>2, <1>3, <1>4 DEF CallInv
    <3>3. QED
      BY <1>1, <1>3, <1>5, <2>3, <3>1, <3>2, CallKept DEF Named
  <2>4. QED
    BY <2>2, <2>3
<1>8. PostOK(o)'
  BY <1>1, <1>2, <1>3, <1>4, NoPostTyped DEF PostOK
<1>9. RevisionOK(o)'
  BY <1>1, NoPostTyped, SameView DEF Named, Timely
<1>10. CreditOK(o)'
  <2>1. Credited(o)' <=> Credited(o)
    BY <1>1, SameCredit
  <2>2. CASE t = "settle"
    BY <1>1, <1>2, <1>3, <1>4, <2>1, <2>2, NoPostTyped DEF CreditOK, Decided
  <2>3. CASE t # "settle"
    <3>1. post'["settle"][o] = post["settle"][o]
      BY <1>3, <2>3
    <3>2. QED
      BY <1>1, <1>2, <2>1, <3>1 DEF CreditOK, Decided
  <2>4. QED
    BY <2>2, <2>3
<1>11. \A u \in Tasks : u # "call" /\ post[u][o] = NoPost => post'[u][o] = NoPost
  BY <1>3, <1>4
<1>12. ~Known(o) => row[o].state \in {"absent", "queued"}
  BY DEF IInv, WorkInv
<1>13. QED
  BY <1>1, <1>5, <1>6, <1>7, <1>8, <1>9, <1>10, <1>11, <1>12, RowChanged

LEMMA BrowserRequestKeeps ==
  ASSUME IInv, NEW o \in Operations, BrowserRequest(o)
  PROVE  IInv'
<1>1. /\ row' = [row EXCEPT ![o].revision = @ + 1]
      /\ UNCHANGED <<entry, byChild, call, post, work, stopped, revoked, ended, failures>>
      /\ extras' = extras + 1 /\ UNCHANGED <<coordinator, dsh>>
  BY DEF BrowserRequest, Extra, coordinator, dsh
<1>2. TypeOK /\ CallInv /\ PostOK(o) /\ CreditOK(o) /\ RevisionOK(o)
  BY DEF IInv, PostInv, CreditInv, RevisionInv
<1>3. /\ row' \in [Operations -> Views] /\ row'[o].state = row[o].state
      /\ row'[o].revision = row[o].revision + 1
      /\ \A p \in Operations \ {o} : row'[p] = row[p]
  <2>1. \A v \in Views : [v EXCEPT !.revision = @ + 1] \in Views
    BY DEF Views
  <2>2. QED
    BY <1>1, <1>2, <2>1 DEF TypeOK, Views
<1>4. Elsewhere(o)
  BY <1>1, <1>3 DEF Elsewhere
<1>5. TypeOK'
  BY <1>1, <1>2, <1>3 DEF TypeOK
<1>6. CallInv'
  <2>1. post["call"][o].phase = "failed" \/ post["call"][o].phase # "failed"
    OBVIOUS
  <2>2. QED
    BY <1>1, <1>4, <2>1, CallServed
<1>7. PostOK(o)'
  BY <1>1, <1>2 DEF PostOK
<1>8. RevisionOK(o)'
  <2>1. CASE Known(o) /\ Gone(Named(o))
    BY <1>1, <2>1 DEF RevisionOK, Known, Named, Gone
  <2>2. CASE Ahead(o)
    <3>1. /\ row[o].revision \in Nat /\ entry[o].view.revision \in Nat
          /\ \A t \in Tasks : post[t][o].view.revision \in Nat
      BY <1>2, Typed DEF Views, Entries, Posts
    <3>2. Ahead(o)'
      BY <1>1, <1>3, <2>2, <3>1 DEF Ahead, Known, Open
    <3>3. QED
      BY <3>2 DEF RevisionOK
  <2>3. QED
    BY <1>2, <2>1, <2>2 DEF RevisionOK
<1>9. CreditOK(o)'
  <2>1. Credited(o) => Credited(o)'
    BY <1>1, <1>3, <1>4, CreditedLasts DEF Lasting, Elsewhere, Named
  <2>2. QED
    BY <1>1, <1>2, <1>3, <2>1 DEF CreditOK, Decided
<1>10. ~Known(o) => row[o].state \in {"absent", "queued"}
  BY DEF IInv, WorkInv
<1>11. QED
  BY <1>1, <1>3, <1>4, <1>5, <1>6, <1>7, <1>8, <1>9, <1>10, RowChanged

LEMMA WrittenTyped ==
  ASSUME NEW v \in Views, NEW write \in Writes
  PROVE  /\ Written(v, write) \in Views
         /\ Written(v, write).revision = v.revision + 1
         /\ Written(v, write).state =
              CASE write = "admit" -> "queued"   [] write = "started" -> "running"
                [] write \in Terminal -> write   [] OTHER -> v.state
BY DEF Written, Views, Writes, Terminal

\* Who may ask for what.
LEMMA Askers ==
  ASSUME IInv, NEW t \in Tasks, NEW o \in Operations, post[t][o].phase \in {"sent", "answered"}
  PROVE  /\ post[t][o].write \in Terminal =>
              \/ t = "settle"
              \/ t = "call" /\ call.operation = o /\ call.step = "fail"
         /\ post[t][o].write = "succeeded" => t = "settle"
         /\ ~Known(o) => t = "call" /\ post[t][o].write = "admit"
         /\ post[t][o].write = "admit" => ~Known(o)
<1>1. CallInv /\ PostOK(o) /\ WorkInv /\ t \in {"call", "report", "settle", "timer"}
  BY DEF IInv, PostInv, Tasks
<1>2. post[t][o] # NoPost
  BY NoPostTyped
<1>3. CASE t = "call"
  <2>1. call.operation = o /\ call.step \notin {"idle", "deliver", "dispose"}
        /\ post["call"][o].write \in Writing(call.step)
    BY <1>1, <1>2, <1>3 DEF CallInv
  <2>2. /\ post["call"][o].write \in Terminal => call.step = "fail"
        /\ post["call"][o].write # "succeeded"
        /\ post["call"][o].write = "admit" <=> call.step = "admit"
    BY <2>1 DEF Writing, Terminal
  <2>3. call.step # "admit" => Known(o)
    BY <1>1, <2>1, ConstantsAssumption DEF CallInv, Known, Named
  <2>4. call.step = "admit" => ~Known(o)
    BY <1>1, <2>1 DEF CallInv
  <2>5. QED
    BY <1>3, <2>1, <2>2, <2>3, <2>4
<1>4. CASE t # "call"
  <2>1. Known(o)
    BY <1>1, <1>2, <1>4 DEF WorkInv, Tasks
  <2>2. post[t][o].write # "admit" /\ (post[t][o].write \in Terminal => t = "settle")
    BY <1>1, <1>4 DEF PostOK, Terminal
  <2>3. QED
    BY <1>4, <2>1, <2>2 DEF Terminal
<1>5. QED
  BY <1>3, <1>4

\* A request is granted, and its answer arrives or is lost.
LEMMA GrantKeeps ==
  ASSUME IInv, NEW t \in Tasks, NEW o \in Operations, NEW x \in Posts,
         post[t][o].phase = "sent", Granted(o, post[t][o]),
         row' = [row EXCEPT ![o] = Written(@, post[t][o].write)],
         post' = [post EXCEPT ![t][o] = x],
         \/ x = Failure
         \/ x.phase = "answered" /\ x.write = post[t][o].write /\ x.view = row'[o],
         UNCHANGED <<coordinator, dsh, extras>>, failures' \in Nat
  PROVE  IInv'
<1> DEFINE write == post[t][o].write
<1>1. UNCHANGED <<entry, byChild, call, work, stopped, revoked, ended, extras>>
  BY DEF coordinator, dsh
<1>2. TypeOK /\ CallInv /\ PostOK(o) /\ CreditOK(o) /\ RevisionOK(o)
  BY DEF IInv, PostInv, CreditInv, RevisionInv
<1>3. /\ post' \in [Tasks -> [Operations -> Posts]] /\ post'[t][o] = x
      /\ \A u \in Tasks, p \in Operations : u # t \/ p # o => post'[u][p] = post[u][p]
  BY <1>2, PostSet, ZenonT(30)
<1>4. write \in Writes /\ row[o] \in Views /\ entry[o] \in Entries
  BY <1>2, Typed DEF Posts
<1>5. /\ row' \in [Operations -> Views]
      /\ \A p \in Operations \ {o} : row'[p] = row[p]
      /\ row'[o] = Written(row[o], write)
  BY <1>2, <1>4, WrittenTyped DEF TypeOK
<1>6. /\ row'[o].revision = row[o].revision + 1
      /\ row'[o].state = CASE write = "admit" -> "queued"   [] write = "started" -> "running"
                           [] write \in Terminal -> write   [] OTHER -> row[o].state
  BY <1>4, <1>5, WrittenTyped
<1>7. post[t][o] # NoPost /\ {"call", "report", "settle", "timer"} = Tasks
  BY NoPostTyped DEF Tasks
<1>8. Elsewhere(o)
  BY <1>1, <1>3, <1>5 DEF Elsewhere
<1>9. TypeOK'
  BY <1>1, <1>2, <1>3, <1>5 DEF TypeOK
<1>10. ~Open(o) => row'[o].state = row[o].state
  BY <1>6 DEF Granted, Open, Terminal
<1>11. Lasting
  BY <1>1, <1>8, <1>10 DEF Lasting, Elsewhere, Named
<1>12. ~Known(o) => row'[o].state \in {"absent", "queued"}
  <2>1. ~Known(o) => write = "admit"
    BY Askers
  <2>2. QED
    BY <1>6, <2>1 DEF Terminal
<1>14. CallInv'
  <2>1. \A u \in Tasks : post[u][o] = NoPost => post'[u][o] = NoPost
    BY <1>3, <1>7
  <2>2. \/ post'["call"][o].phase = "failed"
        \/ post'["call"][o].write = post["call"][o].write /\ post["call"][o].phase # "failed"
    <3>1. CASE t = "call"
      BY <1>3, <3>1, NoPostTyped
    <3>2. CASE t # "call"
      <4>1. post'["call"][o] = post["call"][o]
        BY <1>3, <1>7, <3>2
      <4>2. QED
        BY <4>1
    <3>3. QED
      BY <3>1, <3>2
  <2>3. QED
    BY <1>8, <2>1, <2>2, CallServed
<1>15. PostOK(o)'
  BY <1>1, <1>2, <1>3, <1>7, NoPostTyped DEF PostOK
<1>16. RevisionOK(o)'
  <2>1. CASE Known(o) /\ Gone(Named(o))
    BY <1>1, <2>1 DEF RevisionOK, Known, Named, Gone
  <2>2. CASE Ahead(o)
    <3>1. /\ row[o].revision \in Nat /\ entry[o].view.revision \in Nat
          /\ \A u \in Tasks : post[u][o].view.revision \in Nat /\ post[u][o].expected \in Nat
      BY <1>2, Typed DEF Views, Entries, Posts
    <3>2. \A u \in Tasks : post[u][o].phase # "answered"
      <4>1. CASE write = "admit"
        <5>1. \A u \in Tasks \ {"call"} : post[u][o].phase = "none"
          BY <4>1, Askers, NoPostTyped DEF IInv, WorkInv
        <5>2. t = "call"
          BY <4>1, Askers
        <5>3. QED
          BY <5>1, <5>2
      <4>2. CASE write # "admit"
        BY <2>2, <3>1, <4>2 DEF Granted, Ahead
      <4>3. QED
        BY <4>1, <4>2
    <3>3. x.phase = "answered" /\ x.write = "cancel" => Open(o)'
      BY <1>6, NoPostTyped DEF Granted, Open, Terminal
    <3>4. \A u \in Tasks : post'[u][o].phase = "answered" => u = t
      BY <1>3, <3>2
    <3>5. Ahead(o)'
      BY <1>1, <1>3, <1>6, <2>2, <3>1, <3>3, <3>4, NoPostTyped DEF Ahead, Known
    <3>6. QED
      BY <3>5 DEF RevisionOK
  <2>3. QED
    BY <1>2, <2>1, <2>2 DEF RevisionOK
<1>17. CreditOK(o)'
  <2>1. Credited(o) => Credited(o)'
    BY <1>11, CreditedLasts
  <2>2. row'[o].state = "succeeded" =>
          row[o].state = "succeeded" \/ (t = "settle" /\ write = "succeeded")
    <3>1. CASE write = "succeeded"
      BY <3>1, Askers
    <3>2. CASE write # "succeeded"
      BY <1>6, <3>2 DEF Terminal
    <3>3. QED
      BY <3>1, <3>2
  <2>3. /\ post'["settle"][o].write = "succeeded" => post["settle"][o].write = "succeeded"
        /\ post'["settle"][o] # NoPost => post["settle"][o] # NoPost
    BY <1>3, <1>7, NoPostTyped
  <2>4. row'[o].state = "succeeded" =>
          Credited(o) /\ ~entry[o].timedOut /\ entry[o].accepted /\ ~entry[o].timer
    <3>1. CASE row[o].state = "succeeded"
      BY <1>2, <3>1 DEF CreditOK, Decided
    <3>2. CASE t = "settle" /\ write = "succeeded"
      BY <1>2, <1>7, <3>2 DEF CreditOK, Decided
    <3>3. QED
      BY <2>2, <3>1, <3>2
  <2>5. QED
    BY <1>1, <1>2, <2>1, <2>3, <2>4 DEF CreditOK, Decided
<1>18. QED
  BY <1>3, <1>7, <1>8, <1>9, <1>10, <1>12, <1>14, <1>15, <1>16, <1>17, RowChanged

LEMMA ServeKeeps ==
  ASSUME IInv, NEW t \in Tasks, NEW o \in Operations, Serve(t, o)
  PROVE  IInv'
<1> DEFINE p == post[t][o]
           answer == [p EXCEPT !.phase = "answered", !.expected = 0, !.view = row'[o]]
<1>1. /\ p.phase = "sent" /\ UNCHANGED <<coordinator, dsh, extras>>
      /\ failures \in Nat /\ p \in Posts /\ TypeOK
  BY Typed DEF Serve, IInv, TypeOK
<1>2. CASE /\ Granted(o, p) /\ row' = [row EXCEPT ![o] = Written(@, p.write)]
           /\ post' = [post EXCEPT ![t][o] = answer] /\ failures' = failures
  <2>1. row'[o] \in Views
    <3>1. p.write \in Writes /\ row[o] \in Views
      BY <1>1, Typed DEF Posts
    <3>2. Written(row[o], p.write) \in Views
      BY <3>1, WrittenTyped
    <3>3. row'[o] = Written(row[o], p.write)
      BY <1>1, <1>2 DEF TypeOK
    <3>4. QED
      BY <3>2, <3>3
  <2>2. /\ answer \in Posts /\ answer.phase = "answered" /\ answer.write = p.write
        /\ answer.view = row'[o]
    BY <1>1, <2>1 DEF Posts
  <2>3. failures' \in Nat
    BY <1>1, <1>2
  <2>4. QED
    BY <1>1, <1>2, <2>2, <2>3, GrantKeeps
<1>3. CASE /\ Granted(o, p) /\ row' = [row EXCEPT ![o] = Written(@, p.write)]
           /\ post' = [post EXCEPT ![t][o] = Failure] /\ failures' = failures + 1
  <2>1. failures' \in Nat /\ Failure \in Posts
    BY <1>1, <1>3, NoPostTyped
  <2>2. QED
    BY <1>1, <1>3, <2>1, GrantKeeps
<1>4. CASE post' = [post EXCEPT ![t][o] = Failure] /\ UNCHANGED <<row, failures>>
  <2>1. failures' \in Nat /\ UNCHANGED <<row, coordinator, dsh, extras>>
    BY <1>1, <1>4
  <2>2. QED
    BY <1>1, <1>4, <2>1, FailureKeeps
<1>5. QED
  BY <1>2, <1>3, <1>4 DEF Serve

LEMMA DropKeeps ==
  ASSUME IInv, NEW t \in Tasks, NEW o \in Operations, Drop(t, o)
  PROVE  IInv'
<1>1. failures' \in Nat
  BY DEF Drop, IInv, TypeOK
<1>2. QED
  BY <1>1, FailureKeeps DEF Drop

-------------------------------------------------------------------------------
\* A task other than the tool call takes a step about an operation.
LEMMA TaskKeeps ==
  ASSUME IInv, NEW o \in Operations, Known(o), NEW t \in Tasks \ {"call"}, NEW x \in Posts,
         post' = [post EXCEPT ![t][o] = x],
         entry' \in [Operations -> Entries], \A p \in Operations \ {o} : entry'[p] = entry[p],
         entry'[o].child = entry[o].child, entry'[o].accepted = entry[o].accepted,
         UNCHANGED <<row, byChild, call, dsh>>, extras' \in Nat, failures' \in Nat,
         call.operation = o => call.step # "deliver",
         call.operation = o /\ call.step = "record" =>
           /\ entry'[o].ends = entry[o].ends /\ ~entry'[o].timer
           /\ post'["settle"][o] = NoPost /\ post'["timer"][o] = NoPost,
         PostOK(o)', RevisionOK(o)', CreditOK(o)'
  PROVE  IInv'
<1>1. TypeOK /\ UNCHANGED <<work, stopped, revoked, ended>>
  BY DEF IInv, dsh
<1>2. /\ post' \in [Tasks -> [Operations -> Posts]]
      /\ \A u \in Tasks, p \in Operations : u # t \/ p # o => post'[u][p] = post[u][p]
  BY <1>1, PostSet, ZenonT(30)
<1>3. Elsewhere(o)
  BY <1>2 DEF Elsewhere
<1>4. TypeOK'
  BY <1>1, <1>2 DEF TypeOK
<1>5. post'["call"][o] = post["call"][o] /\ Named(o)' = Named(o)
  BY <1>2 DEF Tasks, Named
<1>6. CallInv'
  BY <1>1, <1>3, <1>5, CallKept
<1>7. QED
  BY <1>3, <1>4, <1>5, <1>6, Quiet

\* The tool call does not deliver a message of what is already being settled.
LEMMA NotDelivering ==
  ASSUME IInv, NEW o \in Operations,
         \/ entry[o].ends # <<>> \/ entry[o].timer
         \/ post["settle"][o] # NoPost \/ post["timer"][o] # NoPost
  PROVE  call.operation = o => call.step \notin {"deliver", "record"}
BY DEF IInv, CallInv

LEMMA ReportKeeps ==
  ASSUME IInv, NEW o \in Operations, Report(o)
  PROVE  IInv'
<1> DEFINE x == Asked("report", entry[o].view.revision)
<1>1. /\ Known(o) /\ o \in work[entry[o].child] /\ post["report"][o] = NoPost
      /\ post' = [post EXCEPT !["report"][o] = x]
      /\ UNCHANGED <<row, entry, byChild, call, work, stopped, revoked, ended, failures>>
      /\ UNCHANGED dsh /\ extras' = extras + 1
  BY DEF Report, Ask, Extra, coordinator, dsh
<1>2. TypeOK /\ PostOK(o) /\ CreditOK(o) /\ CallInv /\ entry[o] \in Entries
  BY Typed DEF IInv, PostInv, CreditInv
<1>3. /\ x \in Posts /\ x.phase = "sent" /\ x.write = "report"
      /\ x.expected = entry[o].view.revision
  <2>1. entry[o].view.revision \in Nat /\ "report" \in Writes
    BY <1>2 DEF Entries, Views, Writes
  <2>2. QED
    BY <2>1, NoPostTyped
<1>4. /\ post'["report"][o] = x
      /\ \A u \in Tasks \ {"report"} : post'[u][o] = post[u][o]
      /\ {"call", "report", "settle", "timer"} = Tasks
  BY <1>1, <1>2 DEF TypeOK, Tasks
<1>5. PostOK(o)' /\ CreditOK(o)'
  <2>1. Credited(o)' <=> Credited(o)
    BY <1>1, SameCredit
  <2>2. CreditOK(o)'
    BY <1>1, <1>2, <1>4, <2>1 DEF CreditOK, Decided
  <2>3. PostOK(o)'
    BY <1>1, <1>2, <1>3, <1>4 DEF PostOK
  <2>5. QED
    BY <2>2, <2>3
<1>6. RevisionOK(o)'
  <2>1. Timely(x, entry[o].view) /\ x.phase # "answered"
    BY <1>2, <1>3 DEF Timely, Entries, Views
  <2>2. UNCHANGED <<row, work, revoked>> /\ Named(o)' = Named(o) /\ "report" \in Tasks
    BY <1>1, <1>4 DEF Named
  <2>3. QED
    BY <1>1, <1>3, <2>1, <2>2, SameView
<1>7. call.operation = o => call.step # "deliver"
  BY <1>1, <1>2 DEF CallInv, Named
<1>8. call.operation = o /\ call.step = "record" =>
        /\ ~entry'[o].timer /\ post'["settle"][o] = NoPost /\ post'["timer"][o] = NoPost
  BY <1>1, <1>2, <1>4 DEF CallInv
<1>9. extras' \in Nat /\ failures' \in Nat /\ entry' \in [Operations -> Entries]
  BY <1>1, <1>2 DEF TypeOK
<1>10. "report" \in Tasks \ {"call"}
  BY DEF Tasks
<1>11. QED
  BY <1>1, <1>3, <1>5, <1>6, <1>7, <1>8, <1>9, <1>10, TaskKeeps

\* The coordinator changes what it knows of one operation.
LEMMA ViewSet ==
  ASSUME TypeOK, NEW o \in Operations, NEW v \in Views, entry' = [entry EXCEPT ![o].view = v]
  PROVE  /\ entry' \in [Operations -> Entries] /\ \A p \in Operations \ {o} : entry'[p] = entry[p]
         /\ entry'[o].view = v /\ entry'[o].child = entry[o].child
         /\ entry'[o].accepted = entry[o].accepted /\ entry'[o].pending = entry[o].pending
         /\ entry'[o].timer = entry[o].timer /\ entry'[o].ends = entry[o].ends
         /\ entry'[o].timedOut = entry[o].timedOut
BY DEF TypeOK, Entries

LEMMA ReportAnsweredKeeps ==
  ASSUME IInv, NEW o \in Operations, ReportAnswered(o)
  PROVE  IInv'
<1> DEFINE p == post["report"][o]
           v == IF p.phase = "answered" THEN p.view ELSE entry[o].view
<1>1. /\ p.phase \in {"answered", "failed"}
      /\ entry' = [entry EXCEPT ![o].view = v]
      /\ post' = [post EXCEPT !["report"][o] = NoPost]
      /\ UNCHANGED <<row, byChild, call, work, stopped, revoked, ended, extras, failures>>
      /\ UNCHANGED dsh
  BY DEF ReportAnswered, Done, dsh, counts
<1>2. TypeOK /\ PostOK(o) /\ CreditOK(o) /\ CallInv /\ WorkInv
  BY DEF IInv, PostInv, CreditInv
<1>3. p # NoPost /\ p \in Posts /\ entry[o] \in Entries /\ "report" \in Tasks \ {"call"}
  BY <1>1, <1>2, NoPostTyped, Typed DEF Tasks
<1>4. /\ entry' \in [Operations -> Entries] /\ \A q \in Operations \ {o} : entry'[q] = entry[q]
      /\ entry'[o].view = v /\ entry'[o].child = entry[o].child
      /\ entry'[o].accepted = entry[o].accepted /\ entry'[o].pending = entry[o].pending
      /\ entry'[o].timer = entry[o].timer /\ entry'[o].ends = entry[o].ends
      /\ entry'[o].timedOut = entry[o].timedOut
  <2>1. v \in Views
    BY <1>3 DEF Posts, Entries
  <2>2. QED
    BY <1>1, <1>2, <2>1, ViewSet
<1>5. /\ post'["report"][o] = NoPost
      /\ \A u \in Tasks \ {"report"} : post'[u][o] = post[u][o]
      /\ {"call", "report", "settle", "timer"} = Tasks
  BY <1>1, <1>2 DEF TypeOK, Tasks
<1>6. PostOK(o)' /\ CreditOK(o)'
  <2>1. Credited(o)' <=> Credited(o)
    BY <1>1, <1>4, SameCredit
  <2>2. CreditOK(o)'
    BY <1>1, <1>2, <1>4, <1>5, <2>1 DEF CreditOK, Decided
  <2>3. PostOK(o)'
    BY <1>2, <1>4, <1>5, NoPostTyped DEF PostOK
  <2>5. QED
    BY <2>2, <2>3
<1>7. RevisionOK(o)'
  <2>1. Timely(NoPost, p.view) /\ Timely(NoPost, entry[o].view) /\ NoPost.phase # "answered"
    BY NothingSent
  <2>2. UNCHANGED <<row, work, revoked>> /\ Named(o)' = Named(o) /\ NoPost \in Posts
    BY <1>1, <1>4, NoPostTyped DEF Named
  <2>3. CASE p.phase = "answered"
    <3>1. entry'[o].view = p.view /\ "report" \in Tasks
      BY <1>3, <1>4, <2>3
    <3>2. QED
      BY <1>1, <2>1, <2>2, <2>3, <3>1, NewView
  <2>4. CASE p.phase # "answered"
    <3>1. entry'[o].view = entry[o].view /\ "report" \in Tasks
      BY <1>3, <1>4, <2>4
    <3>2. QED
      BY <1>1, <2>1, <2>2, <3>1, SameView
  <2>5. QED
    BY <2>3, <2>4
<1>8. Known(o)
  BY <1>2, <1>3 DEF WorkInv
<1>9. call.operation = o => call.step # "deliver"
  BY <1>2, <1>3 DEF CallInv
<1>10. call.operation = o /\ call.step = "record" =>
        /\ ~entry'[o].timer /\ post'["settle"][o] = NoPost /\ post'["timer"][o] = NoPost
  BY <1>2, <1>4, <1>5 DEF CallInv
<1>11. extras' \in Nat /\ failures' \in Nat /\ NoPost \in Posts
  BY <1>1, <1>2, NoPostTyped DEF TypeOK
<1>12. QED
  BY <1>1, <1>3, <1>4, <1>6, <1>7, <1>8, <1>9, <1>10, <1>11, TaskKeeps

LEMMA TimerSet ==
  ASSUME TypeOK, NEW o \in Operations, NEW a \in BOOLEAN, NEW b \in BOOLEAN,
         entry' = [entry EXCEPT ![o].timer = a, ![o].timedOut = b]
  PROVE  /\ entry' \in [Operations -> Entries] /\ \A p \in Operations \ {o} : entry'[p] = entry[p]
         /\ entry'[o].view = entry[o].view /\ entry'[o].child = entry[o].child
         /\ entry'[o].accepted = entry[o].accepted /\ entry'[o].pending = entry[o].pending
         /\ entry'[o].timer = a /\ entry'[o].ends = entry[o].ends
         /\ entry'[o].timedOut = b
<1> DEFINE e == [[entry[o] EXCEPT !.timer = a] EXCEPT !.timedOut = b]
<1>1. entry[o] \in Entries
  BY DEF TypeOK
<1>2. /\ e \in Entries /\ e.view = entry[o].view /\ e.child = entry[o].child
      /\ e.accepted = entry[o].accepted /\ e.pending = entry[o].pending
      /\ e.timer = a /\ e.ends = entry[o].ends /\ e.timedOut = b
  BY <1>1 DEF Entries
<1>3. entry' = [entry EXCEPT ![o] = e]
  BY DEF TypeOK
<1> HIDE DEF e
<1>4. QED
  BY <1>2, <1>3, ZenonT(60) DEF TypeOK

LEMMA TimerCleared ==
  ASSUME TypeOK, NEW o \in Operations, entry' = [entry EXCEPT ![o].timer = FALSE]
  PROVE  /\ entry' \in [Operations -> Entries] /\ \A p \in Operations \ {o} : entry'[p] = entry[p]
         /\ entry'[o].view = entry[o].view /\ entry'[o].child = entry[o].child
         /\ entry'[o].accepted = entry[o].accepted /\ entry'[o].pending = entry[o].pending
         /\ entry'[o].timer = FALSE /\ entry'[o].ends = entry[o].ends
         /\ entry'[o].timedOut = entry[o].timedOut
BY ZenonT(60) DEF TypeOK, Entries

LEMMA TimerFiresKeeps ==
  ASSUME IInv, NEW o \in Operations, TimerFires(o)
  PROVE  IInv'
<1>1. /\ entry[o].timer
      /\ UNCHANGED <<row, byChild, call, work, stopped, revoked, ended, extras, failures>>
      /\ UNCHANGED dsh
  BY DEF TimerFires, dsh, counts
<1>2. TypeOK /\ PostOK(o) /\ CreditOK(o) /\ CallInv /\ WorkInv
  BY DEF IInv, PostInv, CreditInv
<1>3. entry[o] \in Entries /\ "timer" \in Tasks \ {"call"} /\ post["timer"][o] \in Posts
  BY <1>2, Typed DEF Tasks
<1>4. /\ entry' \in [Operations -> Entries] /\ \A q \in Operations \ {o} : entry'[q] = entry[q]
      /\ entry'[o].view = entry[o].view /\ entry'[o].child = entry[o].child
      /\ entry'[o].accepted = entry[o].accepted /\ entry'[o].pending = entry[o].pending
      /\ entry'[o].timer = FALSE /\ entry'[o].ends = entry[o].ends
  BY <1>2, TimerSet, TimerCleared DEF TimerFires
<1>5. PICK x \in Posts :
        /\ post' = [post EXCEPT !["timer"][o] = x]
        /\ x.phase = "sent" => x.write = "cancel"
        /\ \/ x = post["timer"][o] /\ post' = post
           \/ x.phase = "sent" /\ x.expected = entry[o].view.revision
  <2>1. CASE UNCHANGED post
    <3>1. post' = [post EXCEPT !["timer"][o] = post["timer"][o]]
      BY <1>2, <1>3, <2>1 DEF TypeOK
    <3>2. post["timer"][o].phase = "sent" => post["timer"][o].write = "cancel"
      BY <1>2 DEF PostOK
    <3>3. QED
      BY <1>3, <2>1, <3>1, <3>2
  <2>2. CASE Ask("timer", o, "cancel", entry[o].view.revision)
    <3>1. entry[o].view.revision \in Nat /\ "cancel" \in Writes
      BY <1>3 DEF Entries, Views, Writes
    <3>2. /\ Asked("cancel", entry[o].view.revision) \in Posts
          /\ Asked("cancel", entry[o].view.revision).phase = "sent"
          /\ Asked("cancel", entry[o].view.revision).write = "cancel"
          /\ Asked("cancel", entry[o].view.revision).expected = entry[o].view.revision
      BY <3>1, NoPostTyped
    <3>3. QED
      BY <2>2, <3>2 DEF Ask
  <2>3. QED
    BY <2>1, <2>2 DEF TimerFires
<1>6. /\ post'["timer"][o] = x
      /\ \A u \in Tasks \ {"timer"} : post'[u][o] = post[u][o]
      /\ {"call", "report", "settle", "timer"} = Tasks
  BY <1>2, <1>5 DEF TypeOK, Tasks
<1>7. PostOK(o)' /\ CreditOK(o)'
  <2>1. Credited(o)' <=> Credited(o)
    BY <1>1, <1>4, SameCredit
  <2>2. CreditOK(o)'
    <3>1. ~Decided(o)
      BY <1>1, <1>2 DEF CreditOK
    <3>2. post'["settle"][o] = post["settle"][o]
      BY <1>6
    <3>3. post["settle"][o].write # "succeeded" /\ row[o].state # "succeeded"
      BY <3>1, NoPostTyped DEF Decided
    <3>4. QED
      BY <1>1, <1>2, <1>4, <2>1, <3>1, <3>2, <3>3 DEF CreditOK, Decided
  <2>3. PostOK(o)'
    <3>1. x.phase \in {"sent", "answered"} => x.write = "cancel"
      BY <1>2, <1>5 DEF PostOK
    <3>2. QED
      BY <1>2, <1>4, <1>6, <3>1 DEF PostOK
  <2>5. QED
    BY <2>2, <2>3
<1>8. RevisionOK(o)'
  <2>1. UNCHANGED <<row, work, revoked>> /\ Named(o)' = Named(o)
    BY <1>1, <1>4 DEF Named
  <2>2. CASE post' = post
    <3>1. RevisionOK(o)
      BY DEF IInv, RevisionInv
    <3>2. QED
      BY <1>4, <2>1, <2>2, <3>1 DEF RevisionOK, Ahead, Known, Named, Gone, Open
  <2>3. CASE x.phase = "sent" /\ x.expected = entry[o].view.revision
    <3>1. Timely(x, entry[o].view) /\ x.phase # "answered"
      BY <1>3, <2>3 DEF Timely, Entries, Views
    <3>2. QED
      BY <1>3, <1>4, <1>5, <2>1, <3>1, SameView
  <2>4. QED
    BY <1>5, <2>2, <2>3
<1>9. Known(o)
  BY <1>1, <1>2 DEF WorkInv, NoEntry
<1>10. call.operation = o => call.step \notin {"deliver", "record"}
  BY <1>1, NotDelivering
<1>11. extras' \in Nat /\ failures' \in Nat
  BY <1>1, <1>2 DEF TypeOK
<1>12. QED
  BY <1>1, <1>3, <1>4, <1>5, <1>7, <1>8, <1>9, <1>10, <1>11, TaskKeeps

LEMMA TailFacts ==
  ASSUME NEW s \in Seq(Reasons), s # <<>>
  PROVE  /\ Tail(s) \in Seq(Reasons) /\ Head(s) = s[1] /\ 1 \in 1..Len(s)
         /\ \A i \in 1..Len(Tail(s)) : Tail(s)[i] = s[i + 1] /\ i + 1 \in 1..Len(s)
OBVIOUS

LEMMA EndsSet ==
  ASSUME TypeOK, NEW o \in Operations, NEW s \in Seq(Reasons), NEW v \in Views, NEW a \in BOOLEAN,
         \/ entry' = [entry EXCEPT ![o].ends = s] /\ v = entry[o].view /\ a = entry[o].timer
         \/ entry' = [entry EXCEPT ![o].view = v, ![o].ends = s] /\ a = entry[o].timer
         \/ entry' = [entry EXCEPT ![o].timer = a, ![o].ends = s] /\ v = entry[o].view
  PROVE  /\ entry' \in [Operations -> Entries] /\ \A p \in Operations \ {o} : entry'[p] = entry[p]
         /\ entry'[o].view = v /\ entry'[o].child = entry[o].child
         /\ entry'[o].accepted = entry[o].accepted /\ entry'[o].pending = entry[o].pending
         /\ entry'[o].timer = a /\ entry'[o].ends = s
         /\ entry'[o].timedOut = entry[o].timedOut
<1>1. PICK e \in Entries :
        /\ entry' = [entry EXCEPT ![o] = e]
        /\ e.view = v /\ e.child = entry[o].child /\ e.accepted = entry[o].accepted
        /\ e.pending = entry[o].pending /\ e.timer = a /\ e.ends = s
        /\ e.timedOut = entry[o].timedOut
  <2> DEFINE e1 == [entry[o] EXCEPT !.ends = s]
             e2 == [[entry[o] EXCEPT !.view = v] EXCEPT !.ends = s]
             e3 == [[entry[o] EXCEPT !.timer = a] EXCEPT !.ends = s]
  <2>1. entry[o] \in Entries
    BY DEF TypeOK
  <2>2. CASE entry' = [entry EXCEPT ![o].ends = s] /\ v = entry[o].view /\ a = entry[o].timer
    <3>1. entry' = [entry EXCEPT ![o] = e1]
      BY <2>2
    <3>2. /\ e1 \in Entries
          /\ e1.view = v /\ e1.child = entry[o].child /\ e1.accepted = entry[o].accepted
          /\ e1.pending = entry[o].pending /\ e1.timer = a /\ e1.ends = s
          /\ e1.timedOut = entry[o].timedOut
      BY <2>1, <2>2 DEF Entries
    <3>3. QED
      BY <3>1, <3>2
  <2>3. CASE entry' = [entry EXCEPT ![o].view = v, ![o].ends = s] /\ a = entry[o].timer
    <3>1. entry' = [entry EXCEPT ![o] = e2]
      BY <2>3 DEF TypeOK
    <3>2. /\ e2 \in Entries
          /\ e2.view = v /\ e2.child = entry[o].child /\ e2.accepted = entry[o].accepted
          /\ e2.pending = entry[o].pending /\ e2.timer = a /\ e2.ends = s
          /\ e2.timedOut = entry[o].timedOut
      BY <2>1, <2>3 DEF Entries
    <3>3. QED
      BY <3>1, <3>2
  <2>4. CASE entry' = [entry EXCEPT ![o].timer = a, ![o].ends = s] /\ v = entry[o].view
    <3>1. entry' = [entry EXCEPT ![o] = e3]
      BY <2>4 DEF TypeOK
    <3>2. /\ e3 \in Entries
          /\ e3.view = v /\ e3.child = entry[o].child /\ e3.accepted = entry[o].accepted
          /\ e3.pending = entry[o].pending /\ e3.timer = a /\ e3.ends = s
          /\ e3.timedOut = entry[o].timedOut
      BY <2>1, <2>4 DEF Entries
    <3>3. QED
      BY <3>1, <3>2
  <2>5. QED
    BY <2>2, <2>3, <2>4
<1>2. QED
  BY <1>1 DEF TypeOK

\* An end is settled, and the view is the old one or a new one.
LEMMA EndSettled ==
  ASSUME TypeOK, NEW o \in Operations, NEW s \in Seq(Reasons), NEW v \in Views,
         \/ entry' = [entry EXCEPT ![o].ends = s] /\ v = entry[o].view
         \/ entry' = [entry EXCEPT ![o].view = v, ![o].ends = s]
  PROVE  /\ entry' \in [Operations -> Entries] /\ \A p \in Operations \ {o} : entry'[p] = entry[p]
         /\ entry'[o].view = v /\ entry'[o].child = entry[o].child
         /\ entry'[o].accepted = entry[o].accepted /\ entry'[o].pending = entry[o].pending
         /\ entry'[o].timer = entry[o].timer /\ entry'[o].ends = s
         /\ entry'[o].timedOut = entry[o].timedOut
<1> DEFINE e1 == [entry[o] EXCEPT !.view = v]
           e  == [e1 EXCEPT !.ends = s]
<1>1. entry[o] \in Entries
  BY DEF TypeOK
<1>2. /\ e1 \in Entries /\ e1.view = v /\ e1.child = entry[o].child /\ e1.timer = entry[o].timer
      /\ e1.accepted = entry[o].accepted /\ e1.pending = entry[o].pending
      /\ e1.timedOut = entry[o].timedOut
      /\ v = entry[o].view => e1 = entry[o]
  BY <1>1 DEF Entries
<1>3. entry' = [entry EXCEPT ![o] = e]
  <2>1. CASE entry' = [entry EXCEPT ![o].ends = s] /\ v = entry[o].view
    <3>1. e = [entry[o] EXCEPT !.ends = s]
      BY <1>2, <2>1
    <3>2. QED
      BY <2>1, <3>1
  <2>2. CASE entry' = [entry EXCEPT ![o].view = v, ![o].ends = s]
    BY <2>2 DEF TypeOK
  <2>3. QED
    BY <2>1, <2>2
<1> HIDE DEF e1
<1>4. /\ e \in Entries /\ e.view = v /\ e.child = entry[o].child /\ e.timer = entry[o].timer
      /\ e.accepted = entry[o].accepted /\ e.pending = entry[o].pending /\ e.ends = s
      /\ e.timedOut = entry[o].timedOut
  BY <1>2 DEF Entries
<1> HIDE DEF e
<1>5. /\ entry' \in [Operations -> Entries] /\ entry'[o] = e
      /\ \A p \in Operations \ {o} : entry'[p] = entry[p]
  BY <1>3, <1>4 DEF TypeOK
<1>6. QED
  BY <1>4, <1>5

\* What a settlement may do: its next request, or none, and its ends.
LEMMA SettlementKeeps ==
  ASSUME IInv, NEW o \in Operations, entry[o].ends # <<>>, NEW x \in Posts,
         post' = [post EXCEPT !["settle"][o] = x],
         entry' \in [Operations -> Entries], \A p \in Operations \ {o} : entry'[p] = entry[p],
         entry'[o].child = entry[o].child, entry'[o].accepted = entry[o].accepted,
         entry'[o].pending = entry[o].pending, entry'[o].timedOut = entry[o].timedOut,
         ~entry'[o].timer,
         UNCHANGED <<row, byChild, call, dsh, counts>>,
         \/ x = NoPost /\ entry'[o].ends = Tail(entry[o].ends)
         \/ /\ x.phase = "sent" /\ entry'[o].ends = entry[o].ends
            /\ x.write \in {"message", terminalFor(entry[o], Head(entry[o].ends))},
         RevisionOK(o)'
  PROVE  IInv'
<1>1. /\ TypeOK /\ PostOK(o) /\ CreditOK(o) /\ CallInv /\ WorkInv
      /\ UNCHANGED <<row, byChild, call, work, stopped, revoked, ended, extras, failures>>
  BY DEF IInv, PostInv, CreditInv, dsh, counts
<1>2. Known(o)
  BY <1>1 DEF WorkInv, NoEntry
<1>3. entry[o].ends \in Seq(Reasons) /\ "settle" \in Tasks \ {"call"}
  BY <1>1, Typed DEF Tasks, Entries
<1>4. /\ post'["settle"][o] = x
      /\ \A u \in Tasks \ {"settle"} : post'[u][o] = post[u][o]
      /\ {"call", "report", "settle", "timer"} = Tasks
  BY <1>1 DEF TypeOK, Tasks
<1>5. x.write = "succeeded" => Credited(o) /\ ~entry[o].timedOut
  <2>1. CASE x = NoPost
    BY <2>1, NoPostTyped
  <2>2. CASE x.write \in {"message", terminalFor(entry[o], Head(entry[o].ends))}
    <3>1. x.write = "succeeded" => entry[o].ends[1] = "completed" /\ ~entry[o].timedOut
      <4>1. Head(entry[o].ends) = entry[o].ends[1]
        BY <1>3, TailFacts
      <4>2. entry[o].timedOut = TRUE \/ entry[o].timedOut = FALSE
        BY <1>1, Typed DEF Entries
      <4>3. ASSUME entry[o].timedOut = TRUE
            PROVE  terminalFor(entry[o], Head(entry[o].ends)) = "canceled"
        BY <4>3 DEF terminalFor
      <4>4. ASSUME entry[o].timedOut = FALSE
            PROVE  terminalFor(entry[o], Head(entry[o].ends)) = "succeeded" =>
                     Head(entry[o].ends) = "completed"
        BY <4>4 DEF terminalFor
      <4>5. QED
        BY <2>2, <4>1, <4>2, <4>3, <4>4
    <3>2. QED
      BY <1>1, <1>3, <3>1, TailFacts DEF CreditOK
  <2>3. QED
    BY <2>1, <2>2
<1>6. CreditOK(o)'
  <2>1. Credited(o)' <=> Credited(o)
    <3>1. \A p \in Operations : entry'[p].child = entry[p].child
      OBVIOUS
    <3>2. QED
      BY <1>1, <3>1, SameCredit
  <2>2. \A i \in 1..Len(entry'[o].ends) : entry'[o].ends[i] = "completed" => Credited(o)
    <3>1. CASE entry'[o].ends = Tail(entry[o].ends)
      BY <1>1, <1>3, <3>1, TailFacts DEF CreditOK
    <3>2. CASE entry'[o].ends = entry[o].ends
      BY <1>1, <3>2 DEF CreditOK
    <3>3. QED
      BY <3>1, <3>2
  <2>3. entry'[o].accepted /\ ~entry'[o].timer
    BY <1>1 DEF CreditOK
  <2>4. row[o].state = "succeeded" => Credited(o) /\ ~entry[o].timedOut
    BY <1>1 DEF CreditOK
  <2>5. QED
    BY <1>1, <1>4, <1>5, <2>1, <2>2, <2>3, <2>4 DEF CreditOK, Decided
<1>7. PostOK(o)'
  <2>1. x.phase \in {"sent", "answered"} => x.write \in {"message"} \cup Terminal
    BY NoPostTyped DEF terminalFor, Terminal
  <2>2. x # NoPost => entry'[o].ends # <<>>
    OBVIOUS
  <2>3. QED
    BY <1>1, <1>4, <2>1, <2>2 DEF PostOK
<1>9. call.operation = o => call.step \notin {"deliver", "record"}
  BY NotDelivering
<1>10. extras' \in Nat /\ failures' \in Nat
  BY <1>1 DEF TypeOK
<1>11. QED
  BY <1>1, <1>2, <1>3, <1>6, <1>7, <1>9, <1>10, TaskKeeps

LEMMA SettleKeeps ==
  ASSUME IInv, NEW o \in Operations, Settle(o)
  PROVE  IInv'
<1>1. /\ entry[o].ends # <<>> /\ post["settle"][o] = NoPost
      /\ UNCHANGED <<row, byChild, call, dsh, counts>> /\ UNCHANGED <<row, work, revoked>>
  BY DEF Settle, dsh
<1>2. TypeOK /\ entry[o] \in Entries /\ "settle" \in Tasks /\ NoPost \in Posts
  BY Typed, NoPostTyped DEF IInv, Tasks
<1>3. CASE /\ entry' = [entry EXCEPT ![o].timer = FALSE, ![o].ends = Tail(@)]
           /\ UNCHANGED post
  <2>1. Tail(entry[o].ends) \in Seq(Reasons) /\ entry[o].view \in Views
    BY <1>1, <1>2, TailFacts DEF Entries
  <2>2. entry' = [entry EXCEPT ![o].timer = FALSE, ![o].ends = Tail(entry[o].ends)]
    BY <1>2, <1>3 DEF TypeOK
  <2>3. /\ entry' \in [Operations -> Entries] /\ \A p \in Operations \ {o} : entry'[p] = entry[p]
        /\ entry'[o].view = entry[o].view /\ entry'[o].child = entry[o].child
        /\ entry'[o].accepted = entry[o].accepted /\ entry'[o].pending = entry[o].pending
        /\ entry'[o].timer = FALSE /\ entry'[o].timedOut = entry[o].timedOut
        /\ entry'[o].ends = Tail(entry[o].ends)
    BY <1>2, <2>1, <2>2, EndsSet
  <2>4. post' = [post EXCEPT !["settle"][o] = NoPost]
    BY <1>1, <1>2, <1>3 DEF TypeOK
  <2>5. RevisionOK(o)'
    <3>1. Named(o)' = Named(o)
      BY <2>3 DEF Named
    <3>2. QED
      BY <1>1, <1>2, <2>3, <2>4, <3>1, NothingSent, SameView
  <2>6. QED
    BY <1>1, <1>2, <2>3, <2>4, <2>5, SettlementKeeps
<1>4. CASE /\ entry' = [entry EXCEPT ![o].timer = FALSE]
           /\ \E write \in {"message", terminalFor(entry[o], Head(entry[o].ends))} :
                Ask("settle", o, write, entry[o].view.revision)
  <2>1. PICK write \in {"message", terminalFor(entry[o], Head(entry[o].ends))} :
          post' = [post EXCEPT !["settle"][o] = Asked(write, entry[o].view.revision)]
    BY <1>4 DEF Ask
  <2>2. write \in Writes /\ entry[o].view.revision \in Nat
    BY <1>2, <2>1 DEF terminalFor, Writes, Terminal, Entries, Views
  <2> DEFINE x == Asked(write, entry[o].view.revision)
  <2>3. /\ x \in Posts /\ x.phase = "sent" /\ x.write = write
        /\ x.expected = entry[o].view.revision
    BY <2>2, NoPostTyped
  <2>4. /\ entry' \in [Operations -> Entries] /\ \A p \in Operations \ {o} : entry'[p] = entry[p]
        /\ entry'[o].view = entry[o].view /\ entry'[o].child = entry[o].child
        /\ entry'[o].accepted = entry[o].accepted /\ entry'[o].pending = entry[o].pending
        /\ entry'[o].timer = FALSE /\ entry'[o].timedOut = entry[o].timedOut
        /\ entry'[o].ends = entry[o].ends
    BY <1>2, <1>4, TimerCleared
  <2> HIDE DEF x
  <2>5. RevisionOK(o)'
    <3>1. Named(o)' = Named(o) /\ Timely(x, entry[o].view)
      BY <2>2, <2>3, <2>4 DEF Named, Timely
    <3>2. x.phase # "answered" /\ post' = [post EXCEPT !["settle"][o] = x]
      BY <2>1, <2>3 DEF x
    <3>3. QED
      BY <1>1, <1>2, <2>3, <2>4, <3>1, <3>2, SameView
  <2>6. post' = [post EXCEPT !["settle"][o] = x]
    BY <2>1 DEF x
  <2>7. QED
    BY <1>1, <2>1, <2>3, <2>4, <2>5, <2>6, SettlementKeeps
<1>5. QED
  BY <1>3, <1>4 DEF Settle

LEMMA SettleAnsweredKeeps ==
  ASSUME IInv, NEW o \in Operations, SettleAnswered(o)
  PROVE  IInv'
<1> DEFINE p == post["settle"][o]
<1>1. /\ UNCHANGED <<row, byChild, call, dsh, counts>> /\ UNCHANGED <<row, work, revoked>>
      /\ p.phase \in {"answered", "failed"}
  BY DEF SettleAnswered, dsh
<1>2. /\ TypeOK /\ entry[o] \in Entries /\ "settle" \in Tasks /\ NoPost \in Posts /\ p \in Posts
      /\ PostOK(o) /\ p # NoPost
  BY <1>1, Typed, NoPostTyped DEF IInv, Tasks, PostInv
<1>3. entry[o].ends # <<>> /\ ~entry[o].timer
  BY <1>2 DEF PostOK, IInv, CreditInv, CreditOK, Decided
<1>4. CASE /\ p.phase = "answered"
           /\ entry' = [entry EXCEPT ![o].view = p.view]
           /\ Ask("settle", o, terminalFor(entry[o], Head(entry[o].ends)), p.view.revision)
  <2> DEFINE write == terminalFor(entry[o], Head(entry[o].ends))
             x == Asked(write, p.view.revision)
  <2>1. write \in Writes /\ p.view \in Views /\ p.view.revision \in Nat
    BY <1>2 DEF terminalFor, Writes, Terminal, Posts, Views
  <2>2. /\ x \in Posts /\ x.phase = "sent" /\ x.write = write
        /\ x.expected = p.view.revision
    BY <2>1, NoPostTyped
  <2>3. /\ entry' \in [Operations -> Entries] /\ \A q \in Operations \ {o} : entry'[q] = entry[q]
        /\ entry'[o].view = p.view /\ entry'[o].child = entry[o].child
        /\ entry'[o].accepted = entry[o].accepted /\ entry'[o].pending = entry[o].pending
        /\ entry'[o].timer = entry[o].timer /\ entry'[o].timedOut = entry[o].timedOut
        /\ entry'[o].ends = entry[o].ends
    BY <1>2, <1>4, <2>1, ViewSet
  <2>4. post' = [post EXCEPT !["settle"][o] = x]
    BY <1>4 DEF Ask
  <2> HIDE DEF x
  <2>5. RevisionOK(o)'
    <3>1. Named(o)' = Named(o) /\ Timely(x, p.view) /\ x.phase # "answered"
      BY <2>1, <2>2, <2>3 DEF Named, Timely
    <3>2. QED
      BY <1>1, <1>2, <1>4, <2>2, <2>3, <2>4, <3>1, NewView
  <2>6. QED
    BY <1>1, <1>3, <2>2, <2>3, <2>4, <2>5, SettlementKeeps
<1>5. CASE /\ \/ /\ p.phase = "answered"
                 /\ entry' = [entry EXCEPT ![o].view = p.view, ![o].ends = Tail(@)]
              \/ p.phase = "failed" /\ entry' = [entry EXCEPT ![o].ends = Tail(@)]
           /\ Done("settle", o)
  <2> DEFINE v == IF p.phase = "answered" THEN p.view ELSE entry[o].view
             s == Tail(entry[o].ends)
  <2>1. s \in Seq(Reasons) /\ v \in Views
    BY <1>2, <1>3, TailFacts DEF Entries, Posts
  <2>2. \/ entry' = [entry EXCEPT ![o].ends = s] /\ v = entry[o].view
        \/ entry' = [entry EXCEPT ![o].view = v, ![o].ends = s]
    BY <1>2, <1>5 DEF TypeOK
  <2> HIDE DEF v, s
  <2>4. /\ entry' \in [Operations -> Entries] /\ \A q \in Operations \ {o} : entry'[q] = entry[q]
        /\ entry'[o].view = v /\ entry'[o].child = entry[o].child
        /\ entry'[o].accepted = entry[o].accepted /\ entry'[o].pending = entry[o].pending
        /\ entry'[o].timer = entry[o].timer /\ entry'[o].timedOut = entry[o].timedOut
        /\ entry'[o].ends = s
    BY <1>2, <2>1, <2>2, EndSettled
  <2>5. post' = [post EXCEPT !["settle"][o] = NoPost]
    BY <1>5 DEF Done
  <2>6. RevisionOK(o)'
    <3>1. Named(o)' = Named(o)
      BY <2>4 DEF Named
    <3>2. CASE p.phase = "answered"
      <4>1. entry'[o].view = p.view
        BY <2>4, <3>2 DEF v
      <4>2. QED
        BY <1>1, <1>2, <2>5, <3>1, <3>2, <4>1, NothingSent, NewView
    <3>3. CASE p.phase = "failed"
      <4>1. entry'[o].view = entry[o].view
        BY <2>4, <3>3 DEF v
      <4>2. QED
        BY <1>1, <1>2, <2>5, <3>1, <4>1, NothingSent, SameView
    <3>4. QED
      BY <1>1, <3>2, <3>3
  <2>7. QED
    BY <1>1, <1>2, <1>3, <2>4, <2>5, <2>6, SettlementKeeps DEF s
<1>6. QED
  BY <1>4, <1>5 DEF SettleAnswered

-------------------------------------------------------------------------------
LEMMA InterruptFacts ==
  ASSUME IInv, NEW o \in Operations, Known(o), Interrupt(o)
  PROVE  /\ stopped' \in [Children -> Operations \cup {NoOperation}]
         /\ \A c \in Children :
              \/ stopped'[c] = stopped[c]
              \/ c = Named(o) /\ work[c] # {} /\ stopped'[c] = o
<1>1. TypeOK /\ Named(o) \in Children
  BY Typed DEF IInv, Entries, Known, Named
<1>2. QED
  BY <1>1 DEF TypeOK, Interrupt, Named

\* An interruption that was granted is of an operation that is still open.
LEMMA Rightful ==
  ASSUME IInv, NEW t \in Tasks, NEW o \in Operations, Known(o),
         post[t][o].phase = "answered", post[t][o].write = "cancel", work[Named(o)] # {}
  PROVE  Open(o)
<1>1. RevisionOK(o)
  BY DEF IInv, RevisionInv
<1>2. Ahead(o)
  BY <1>1 DEF RevisionOK, Gone
<1>3. QED
  BY <1>2 DEF Ahead

LEMMA TimerAnsweredKeeps ==
  ASSUME IInv, NEW o \in Operations, TimerAnswered(o)
  PROVE  IInv'
<1> DEFINE p == post["timer"][o]
<1>1. /\ p.phase \in {"answered", "failed"}
      /\ post' = [post EXCEPT !["timer"][o] = NoPost]
      /\ UNCHANGED <<row, byChild, call, work, revoked, ended, extras, failures>>
  BY DEF TimerAnswered, Done, counts
<1>2. TypeOK /\ PostOK(o) /\ CreditOK(o) /\ CallInv /\ WorkInv
  BY DEF IInv, PostInv, CreditInv
<1>3. /\ p # NoPost /\ p \in Posts /\ entry[o] \in Entries /\ "timer" \in Tasks
      /\ NoPost \in Posts /\ "timer" # "call"
  BY <1>1, <1>2, NoPostTyped, Typed DEF Tasks
<1>4. Known(o)
  BY <1>2, <1>3 DEF WorkInv
<1>5. /\ post' \in [Tasks -> [Operations -> Posts]] /\ post'["timer"][o] = NoPost
      /\ \A u \in Tasks, q \in Operations : u # "timer" \/ q # o => post'[u][q] = post[u][q]
  BY <1>1, <1>2, <1>3, PostSet, ZenonT(30)
<1>6. {"call", "report", "settle", "timer"} = Tasks
  BY DEF Tasks
<1>7. CASE p.phase = "failed" /\ UNCHANGED <<entry, stopped>>
  <2>1. PostOK(o)' /\ CreditOK(o)'
    <3>1. Credited(o)' <=> Credited(o)
      BY <1>1, <1>7, SameCredit
    <3>2. CreditOK(o)'
      BY <1>1, <1>2, <1>5, <1>6, <1>7, <3>1 DEF CreditOK, Decided
    <3>3. PostOK(o)'
      BY <1>2, <1>5, <1>6, <1>7, NoPostTyped DEF PostOK
    <3>5. QED
      BY <3>2, <3>3
  <2>2. RevisionOK(o)'
    <3>1. Named(o)' = Named(o) /\ entry'[o].view = entry[o].view
      BY <1>7 DEF Named
    <3>2. QED
      BY <1>1, <1>3, <3>1, NothingSent, SameView
  <2>3. call.operation = o => call.step \notin {"deliver", "record"}
    BY <1>3, NotDelivering
  <2>4. entry' \in [Operations -> Entries] /\ UNCHANGED dsh /\ extras' \in Nat /\ failures' \in Nat
    BY <1>1, <1>2, <1>7 DEF TypeOK, dsh
  <2>5. "timer" \in Tasks \ {"call"} /\ UNCHANGED <<row, byChild, call, dsh>>
    BY <1>1, <1>3, <2>4
  <2>6. \A q \in Operations \ {o} : entry'[q] = entry[q]
    BY <1>7
  <2>7. entry'[o].child = entry[o].child /\ entry'[o].accepted = entry[o].accepted
    BY <1>7
  <2>8. QED
    BY <1>1, <1>3, <1>4, <2>1, <2>2, <2>3, <2>4, <2>5, <2>6, <2>7, TaskKeeps
<1>8. CASE p.phase = "answered" /\ entry' = [entry EXCEPT ![o].view = p.view] /\ Interrupt(o)
  <2>1. p.write = "cancel" /\ p.view \in Views
    BY <1>2, <1>3, <1>8 DEF PostOK, Posts
  <2>2. /\ entry' \in [Operations -> Entries] /\ \A q \in Operations \ {o} : entry'[q] = entry[q]
        /\ entry'[o].view = p.view /\ entry'[o].child = entry[o].child
        /\ entry'[o].accepted = entry[o].accepted /\ entry'[o].pending = entry[o].pending
        /\ entry'[o].timer = entry[o].timer /\ entry'[o].ends = entry[o].ends
        /\ entry'[o].timedOut = entry[o].timedOut
    BY <1>2, <1>8, <2>1, ViewSet
  <2>3. Named(o)' = Named(o) /\ \A q \in Operations : entry'[q].child = entry[q].child
    BY <2>2 DEF Named
  <2>4. /\ stopped' \in [Children -> Operations \cup {NoOperation}]
        /\ \A c \in Children :
             \/ stopped'[c] = stopped[c]
             \/ c = Named(o) /\ work[c] # {} /\ stopped'[c] = o
    BY <1>4, <1>8, InterruptFacts
  <2>5. PostOK(o)' /\ CreditOK(o)'
    <3>1. Credited(o)' <=> Credited(o)
      BY <1>1, <2>3, SameCredit
    <3>2. CreditOK(o)'
      BY <1>1, <1>2, <1>5, <1>6, <2>2, <3>1 DEF CreditOK, Decided
    <3>3. PostOK(o)'
      BY <1>2, <1>5, <1>6, <2>2, NoPostTyped DEF PostOK
    <3>5. QED
      BY <3>2, <3>3
  <2>6. RevisionOK(o)'
    BY <1>1, <1>3, <1>8, <2>2, <2>3, NothingSent, NewView
  <2>7. Elsewhere(o)
    BY <1>1, <1>3, <1>5, <2>2 DEF Elsewhere
  <2>8. TypeOK'
    BY <1>1, <1>2, <1>5, <2>2, <2>4 DEF TypeOK
  <2>9. CallInv'
    <3>1. call.operation = o => call.step \notin {"deliver", "record"}
      BY <1>3, NotDelivering
    <3>2. post'["call"][o] = post["call"][o]
      BY <1>5, <1>6
    <3>3. QED
      BY <1>1, <2>3, <2>7, <3>1, <3>2, CallKept
  <2>12. QED
    BY <1>1, <1>4, <2>3, <2>5, <2>6, <2>7, <2>8, <2>9, Interrupting
<1>9. QED
  BY <1>7, <1>8 DEF TimerAnswered

-------------------------------------------------------------------------------
\* The tool call writes for one operation at a time.
LEMMA OneCall ==
  ASSUME IInv, NEW o \in Operations,
         call.step \in {"idle", "deliver", "dispose"} \/ call.operation = o
  PROVE  /\ \A p \in Operations \ {o} : post["call"][p] = NoPost
         /\ call.step \in {"idle", "deliver", "dispose"} => post["call"][o] = NoPost
BY DEF IInv, CallInv

LEMMA CallDone ==
  ASSUME IInv, NEW o \in Operations, call.operation = o, call' = NoCall,
         post' = [post EXCEPT !["call"][o] = NoPost]
  PROVE  CallInv' /\ call' \in Calls
<1>1. \A p \in Operations : post'["call"][p] = NoPost
  <2>1. \A p \in Operations \ {o} : post["call"][p] = NoPost
    BY OneCall
  <2>2. QED
    BY <2>1 DEF IInv, TypeOK, Tasks
<1>2. call'.step = "idle" /\ call' \in Calls
  BY CallTyped
<1>3. QED
  BY <1>1, <1>2 DEF CallInv

\* The tool call takes a step about an operation that changes neither its ends
\* nor its timer.
LEMMA ToolKeeps ==
  ASSUME IInv, NEW o \in Operations, Known(o), NEW x \in Posts,
         post' = [post EXCEPT !["call"][o] = x],
         entry' \in [Operations -> Entries], \A p \in Operations \ {o} : entry'[p] = entry[p],
         entry'[o].child = entry[o].child, entry'[o].pending = entry[o].pending,
         entry'[o].timer = entry[o].timer, entry'[o].ends = entry[o].ends,
         entry'[o].timedOut = entry[o].timedOut, entry[o].accepted => entry'[o].accepted,
         UNCHANGED <<row, byChild, work, revoked, ended>>, extras' \in Nat, failures' \in Nat,
         call' \in Calls, CallInv', RevisionOK(o)',
         stopped' \in [Children -> Operations \cup {NoOperation}]
  PROVE  IInv'
<1>1. TypeOK /\ PostOK(o) /\ CreditOK(o) /\ WorkInv /\ "call" \in Tasks
  BY DEF IInv, PostInv, CreditInv, Tasks
<1>2. /\ post' \in [Tasks -> [Operations -> Posts]]
      /\ \A u \in Tasks, p \in Operations : u # "call" \/ p # o => post'[u][p] = post[u][p]
  BY <1>1, PostSet, ZenonT(30)
<1>3. Elsewhere(o)
  BY <1>2 DEF Elsewhere
<1>4. TypeOK'
  BY <1>1, <1>2 DEF TypeOK
<1>5. Named(o)' = Named(o) /\ \A p \in Operations : entry'[p].child = entry[p].child
  BY DEF Named
<1>6. {"call", "report", "settle", "timer"} = Tasks
  BY DEF Tasks
<1>7. \A u \in {"report", "settle", "timer"} : post'[u][o] = post[u][o]
  BY <1>2, <1>6
<1>8. CreditOK(o)'
  <2>1. Credited(o)' <=> Credited(o)
    BY <1>5, SameCredit
  <2>2. QED
    BY <1>1, <1>7, <2>1 DEF CreditOK, Decided
<1>9. PostOK(o)'
  BY <1>1, <1>7 DEF PostOK
<1>12. QED
  BY <1>3, <1>4, <1>5, <1>8, <1>9, Interrupting

\* Without an interruption.
LEMMA QuietToolKeeps ==
  ASSUME IInv, NEW o \in Operations, Known(o), NEW x \in Posts,
         post' = [post EXCEPT !["call"][o] = x],
         entry' \in [Operations -> Entries], \A p \in Operations \ {o} : entry'[p] = entry[p],
         entry'[o].child = entry[o].child, entry'[o].pending = entry[o].pending,
         entry'[o].timer = entry[o].timer, entry'[o].ends = entry[o].ends,
         entry'[o].timedOut = entry[o].timedOut, entry[o].accepted => entry'[o].accepted,
         UNCHANGED <<row, byChild, work, stopped, revoked, ended>>,
         extras' \in Nat, failures' \in Nat,
         call' \in Calls, CallInv', RevisionOK(o)'
  PROVE  IInv'
<1>1. stopped' \in [Children -> Operations \cup {NoOperation}]
  BY DEF IInv, TypeOK
<1>2. QED
  BY <1>1, ToolKeeps

LEMMA CancelKeeps ==
  ASSUME IInv, NEW o \in Operations, Cancel(o)
  PROVE  IInv'
<1> DEFINE x == Asked("cancel", entry[o].view.revision)
           c == [step |-> "cancel", tool |-> "cancel", operation |-> o, child |-> entry[o].child]
<1>1. /\ call.step = "idle" /\ Known(o) /\ call' = c /\ extras' = extras + 1
      /\ post' = [post EXCEPT !["call"][o] = x]
      /\ UNCHANGED <<row, entry, byChild, work, stopped, revoked, ended, failures>>
  BY DEF Cancel, Ask, Extra, dsh
<1>2. TypeOK /\ CallInv /\ entry[o] \in Entries
  BY Typed DEF IInv
<1>3. entry[o].view.revision \in Nat /\ entry[o].child \in Children
  BY <1>1, <1>2 DEF Entries, Views, Known
<1>4. /\ x \in Posts /\ x.phase = "sent" /\ x.write = "cancel"
      /\ x.expected = entry[o].view.revision
  <2>1. "cancel" \in Writes
    BY DEF Writes
  <2>2. QED
    BY <1>3, <2>1, NoPostTyped
<1> HIDE DEF x
<1>5. \A p \in Operations \ {o} : post'["call"][p] = NoPost
  BY <1>1, <1>2, OneCall DEF TypeOK, Tasks
<1>6. post'["call"][o] = x
  BY <1>1, <1>2 DEF TypeOK, Tasks
<1>7. CallInv' /\ call' \in Calls
  <2>1. call' \in Calls /\ call'.step = "cancel" /\ call'.operation = o /\ call'.child = Named(o)
    BY <1>1, <1>3 DEF Calls, Named
  <2>2. "cancel" \in Writing("cancel")
    BY DEF Writing
  <2>3. \A p \in Operations : post'["call"][p] # NoPost =>
          p = o /\ post'["call"][p].write \in Writing(call'.step)
    BY <1>4, <1>5, <1>6, <2>1, <2>2
  <2>4. QED
    BY <1>1, <1>3, <2>1, <2>3 DEF CallInv, Named
<1>8. RevisionOK(o)'
  <2>1. Named(o)' = Named(o) /\ Timely(x, entry[o].view) /\ x.phase # "answered" /\ "call" \in Tasks
    BY <1>1, <1>3, <1>4 DEF Named, Timely, Tasks
  <2>2. entry'[o].view = entry[o].view
    BY <1>1
  <2>3. QED
    BY <1>1, <1>4, <2>1, <2>2, SameView
<1>9. extras' \in Nat /\ failures' \in Nat /\ entry' \in [Operations -> Entries]
  BY <1>1, <1>2 DEF TypeOK
<1>11. /\ \A p \in Operations \ {o} : entry'[p] = entry[p]
       /\ entry'[o].child = entry[o].child /\ entry'[o].pending = entry[o].pending
       /\ entry'[o].timer = entry[o].timer /\ entry'[o].ends = entry[o].ends
       /\ entry'[o].timedOut = entry[o].timedOut /\ entry'[o].accepted = entry[o].accepted
  BY <1>1
<1>12. QED
  BY <1>1, <1>4, <1>7, <1>8, <1>9, <1>11, QuietToolKeeps

\* The tool call is over: the answer is taken in, if there is one.
LEMMA FinishedFacts ==
  ASSUME IInv, NEW o \in Operations, Known(o), NEW v \in Views,
         \/ post["call"][o].phase = "answered" /\ v = post["call"][o].view
         \/ post["call"][o].phase = "failed" /\ v = entry[o].view,
         entry' = [entry EXCEPT ![o].view = v],
         post' = [post EXCEPT !["call"][o] = NoPost],
         UNCHANGED <<row, work, revoked>>
  PROVE  /\ entry' \in [Operations -> Entries] /\ \A p \in Operations \ {o} : entry'[p] = entry[p]
         /\ entry'[o].view = v /\ entry'[o].child = entry[o].child
         /\ entry'[o].accepted = entry[o].accepted /\ entry'[o].pending = entry[o].pending
         /\ entry'[o].timer = entry[o].timer /\ entry'[o].ends = entry[o].ends
         /\ entry'[o].timedOut = entry[o].timedOut
         /\ RevisionOK(o)'
<1>1. TypeOK /\ "call" \in Tasks /\ NoPost \in Posts
  BY NoPostTyped DEF IInv, Tasks
<1>2. /\ entry' \in [Operations -> Entries] /\ \A p \in Operations \ {o} : entry'[p] = entry[p]
      /\ entry'[o].view = v /\ entry'[o].child = entry[o].child
      /\ entry'[o].accepted = entry[o].accepted /\ entry'[o].pending = entry[o].pending
      /\ entry'[o].timer = entry[o].timer /\ entry'[o].ends = entry[o].ends
         /\ entry'[o].timedOut = entry[o].timedOut
  BY <1>1, ViewSet
<1>3. RevisionOK(o)'
  <2>1. Named(o)' = Named(o)
    BY <1>2 DEF Named
  <2>2. CASE post["call"][o].phase = "answered"
    <3>1. entry'[o].view = post["call"][o].view
      BY <1>2, <2>2
    <3>2. QED
      BY <1>1, <2>1, <2>2, <3>1, NothingSent, NewView
  <2>3. CASE post["call"][o].phase = "failed"
    <3>1. entry'[o].view = entry[o].view
      BY <1>2, <2>3
    <3>2. QED
      BY <1>1, <2>1, <3>1, NothingSent, SameView
  <2>4. QED
    BY <2>2, <2>3
<1>4. QED
  BY <1>2, <1>3

LEMMA Calling ==
  ASSUME IInv, NEW o \in Operations, call.operation = o, call.step \notin {"idle", "admit"}
  PROVE  Known(o) /\ Named(o) = call.child /\ call.child \in Children
BY ConstantsAssumption DEF IInv, CallInv, Known, Named

LEMMA CancelAnsweredKeeps ==
  ASSUME IInv, NEW o \in Operations, CancelAnswered(o)
  PROVE  IInv'
<1> DEFINE p == post["call"][o]
           v == IF p.phase = "answered" THEN p.view ELSE entry[o].view
<1>1. /\ call.step = "cancel" /\ call.operation = o /\ p.phase \in {"answered", "failed"}
      /\ post' = [post EXCEPT !["call"][o] = NoPost] /\ call' = NoCall
      /\ UNCHANGED <<row, byChild, work, revoked, ended, extras, failures>>
  BY DEF CancelAnswered, Done, counts
<1>2. TypeOK /\ CallInv /\ p \in Posts /\ entry[o] \in Entries /\ NoPost \in Posts
      /\ "call" \in Tasks
  BY Typed, NoPostTyped DEF IInv, Tasks
<1>3. Known(o) /\ v \in Views
  BY <1>1, <1>2, Calling DEF Posts, Entries
<1>4. CallInv' /\ call' \in Calls
  BY <1>1, CallDone
<1>5. extras' \in Nat /\ failures' \in Nat
  BY <1>1, <1>2 DEF TypeOK
<1>6. CASE p.phase = "failed" /\ UNCHANGED <<entry, stopped>>
  <2>1. /\ entry' \in [Operations -> Entries] /\ \A q \in Operations \ {o} : entry'[q] = entry[q]
        /\ entry'[o].view = entry[o].view /\ entry'[o].child = entry[o].child
        /\ entry'[o].pending = entry[o].pending
        /\ entry'[o].timer = entry[o].timer /\ entry'[o].ends = entry[o].ends
        /\ entry'[o].timedOut = entry[o].timedOut /\ entry'[o].accepted = entry[o].accepted
    BY <1>2, <1>6 DEF TypeOK
  <2>2. RevisionOK(o)'
    BY <1>1, <1>2, <2>1, NothingSent, SameView DEF Named
  <2>4. QED
    BY <1>1, <1>2, <1>3, <1>4, <1>5, <1>6, <2>1, <2>2, QuietToolKeeps
<1>7. CASE p.phase = "answered" /\ entry' = [entry EXCEPT ![o].view = p.view] /\ Interrupt(o)
  <2>1. p.write = "cancel" /\ v = p.view
    <3>1. p.write \in Writing("cancel")
      BY <1>1, <1>2, <1>7, NoPostTyped DEF CallInv
    <3>2. QED
      BY <1>7, <3>1 DEF Writing
  <2>2. /\ entry' \in [Operations -> Entries] /\ \A q \in Operations \ {o} : entry'[q] = entry[q]
        /\ entry'[o].view = v /\ entry'[o].child = entry[o].child
        /\ entry'[o].accepted = entry[o].accepted /\ entry'[o].pending = entry[o].pending
        /\ entry'[o].timer = entry[o].timer /\ entry'[o].ends = entry[o].ends
        /\ entry'[o].timedOut = entry[o].timedOut /\ entry'[o].accepted = entry[o].accepted
        /\ RevisionOK(o)'
    BY <1>1, <1>3, <1>7, <2>1, FinishedFacts, ZenonT(90)
  <2>3. /\ stopped' \in [Children -> Operations \cup {NoOperation}]
        /\ \A c \in Children :
             \/ stopped'[c] = stopped[c]
             \/ c = Named(o) /\ work[c] # {} /\ stopped'[c] = o
    BY <1>3, <1>7, InterruptFacts
  <2>5. QED
    BY <1>1, <1>2, <1>3, <1>4, <1>5, <2>2, <2>3, ToolKeeps
<1>8. QED
  BY <1>6, <1>7 DEF CancelAnswered

LEMMA FinishedKeeps ==
  ASSUME IInv, NEW o \in Operations, call.operation = o, call.step \notin {"idle", "admit"},
         post["call"][o].phase \in {"answered", "failed"},
         entry' = [entry EXCEPT ![o].view = IF post["call"][o].phase = "answered"
                                            THEN post["call"][o].view ELSE @],
         post' = [post EXCEPT !["call"][o] = NoPost], call' = NoCall,
         UNCHANGED <<row, byChild, dsh, counts>>
  PROVE  IInv'
<1> DEFINE v == IF post["call"][o].phase = "answered" THEN post["call"][o].view ELSE entry[o].view
<1>1. /\ UNCHANGED <<row, byChild, work, stopped, revoked, ended, extras, failures>>
      /\ TypeOK /\ post["call"][o] \in Posts /\ entry[o] \in Entries /\ NoPost \in Posts
  BY Typed, NoPostTyped DEF IInv, Tasks, dsh, counts
<1>2. Known(o) /\ v \in Views
  BY <1>1, Calling DEF Posts, Entries
<1>3. entry' = [entry EXCEPT ![o].view = v]
  BY <1>1 DEF TypeOK
<1> HIDE DEF v
<1>4. \/ post["call"][o].phase = "answered" /\ v = post["call"][o].view
      \/ post["call"][o].phase = "failed" /\ v = entry[o].view
  BY DEF v
<1>5. /\ entry' \in [Operations -> Entries] /\ \A q \in Operations \ {o} : entry'[q] = entry[q]
      /\ entry'[o].view = v /\ entry'[o].child = entry[o].child
      /\ entry'[o].accepted = entry[o].accepted /\ entry'[o].pending = entry[o].pending
      /\ entry'[o].timer = entry[o].timer /\ entry'[o].ends = entry[o].ends
      /\ entry'[o].timedOut = entry[o].timedOut /\ entry'[o].accepted = entry[o].accepted
      /\ RevisionOK(o)'
  BY <1>1, <1>2, <1>3, <1>4, FinishedFacts, ZenonT(30)
<1>6. CallInv' /\ call' \in Calls
  BY CallDone
<1>7. extras' \in Nat /\ failures' \in Nat
  BY <1>1 DEF TypeOK
<1>9. QED
  BY <1>1, <1>2, <1>5, <1>6, <1>7, QuietToolKeeps

LEMMA FailedKeeps ==
  ASSUME IInv, NEW o \in Operations, Failed(o)
  PROVE  IInv'
BY FinishedKeeps DEF Failed, Done

LEMMA DeletedKeeps ==
  ASSUME IInv, NEW o \in Operations, Deleted(o)
  PROVE  IInv'
BY FinishedKeeps DEF Deleted, Done

LEMMA RefreshKeeps ==
  ASSUME IInv, NEW o \in Operations, Refresh(o)
  PROVE  IInv'
<1> DEFINE x == Asked("deleted", row[o].revision)
<1>1. /\ call.step = "dispose" /\ call.operation = o /\ work[call.child] = {}
      /\ entry' = [entry EXCEPT ![o].view = row[o]]
      /\ call' = [call EXCEPT !.step = "audit"]
      /\ post' = [post EXCEPT !["call"][o] = x]
      /\ UNCHANGED <<row, byChild, work, stopped, revoked, ended, extras, failures>>
  BY DEF Refresh, Ask, dsh, counts
<1>2. TypeOK /\ CallInv /\ row[o] \in Views /\ call \in Calls
  BY Typed DEF IInv, TypeOK
<1>3. Known(o) /\ Named(o) = call.child /\ call.child \in Children
  BY <1>1, Calling
<1>4. /\ x \in Posts /\ x.phase = "sent" /\ x.write = "deleted"
  <2>1. "deleted" \in Writes /\ row[o].revision \in Nat
    BY <1>2 DEF Writes, Views
  <2>2. QED
    BY <2>1, NoPostTyped
<1> HIDE DEF x
<1>5. /\ entry' \in [Operations -> Entries] /\ \A q \in Operations \ {o} : entry'[q] = entry[q]
      /\ entry'[o].child = entry[o].child /\ entry'[o].pending = entry[o].pending
      /\ entry'[o].timer = entry[o].timer /\ entry'[o].ends = entry[o].ends
      /\ entry'[o].timedOut = entry[o].timedOut /\ entry'[o].accepted = entry[o].accepted
  BY <1>1, <1>2, ViewSet
<1>6. /\ \A p \in Operations \ {o} : post'["call"][p] = NoPost
      /\ post'["call"][o] = x
  BY <1>1, <1>2, OneCall DEF TypeOK, Tasks
<1>7. /\ call' \in Calls /\ call'.step = "audit" /\ call'.operation = o /\ call'.child = call.child
  BY <1>1, <1>2, StepTyped
<1>8. call.child \in revoked
  BY <1>1, <1>2 DEF CallInv
<1>9. CallInv'
  <2>1. "deleted" \in Writing("audit")
    BY DEF Writing
  <2>2. \A p \in Operations : post'["call"][p] # NoPost =>
          p = o /\ post'["call"][p].write \in Writing(call'.step)
    BY <1>4, <1>6, <1>7, <2>1
  <2>3. QED
    BY <1>1, <1>3, <1>5, <1>7, <1>8, <2>2 DEF CallInv, Named
<1>10. RevisionOK(o)'
  BY <1>1, <1>3, <1>5, <1>8 DEF RevisionOK, Gone, Known, Named
<1>11. extras' \in Nat /\ failures' \in Nat
  BY <1>1, <1>2 DEF TypeOK
<1>13. QED
  BY <1>1, <1>3, <1>4, <1>5, <1>7, <1>9, <1>10, <1>11, QuietToolKeeps

LEMMA AcceptedSet ==
  ASSUME TypeOK, NEW o \in Operations, NEW b \in BOOLEAN, entry' = [entry EXCEPT ![o].accepted = b]
  PROVE  /\ entry' \in [Operations -> Entries] /\ \A p \in Operations \ {o} : entry'[p] = entry[p]
         /\ entry'[o].view = entry[o].view /\ entry'[o].child = entry[o].child
         /\ entry'[o].accepted = b /\ entry'[o].pending = entry[o].pending
         /\ entry'[o].timer = entry[o].timer /\ entry'[o].ends = entry[o].ends
         /\ entry'[o].timedOut = entry[o].timedOut
BY ZenonT(60) DEF TypeOK, Entries

\* DSH did not take the message in, or it is not on record that it did.
LEMMA RefusedKeeps ==
  ASSUME IInv, NEW o \in Operations, call.step \in {"deliver", "record"}, call.operation = o,
         entry' = [entry EXCEPT ![o].accepted = TRUE], call' = [call EXCEPT !.step = "fail"],
         NEW terminal \in {"canceled", "failed"}, Ask("call", o, terminal, FailureRevision(o)),
         UNCHANGED <<row, byChild, work, stopped, revoked, ended, extras, failures>>
  PROVE  IInv'
<1> DEFINE x == Asked(terminal, FailureRevision(o))
<1>1. TypeOK /\ CallInv /\ entry[o] \in Entries /\ call \in Calls /\ RevisionOK(o)
  BY Typed DEF IInv, TypeOK, RevisionInv
<1>2. Known(o) /\ Named(o) = call.child /\ call.child \in Children
  BY Calling
<1>3. FailureRevision(o) \in Nat /\ terminal \in Writes
  BY <1>1 DEF FailureRevision, Entries, Views, Writes, Terminal
<1>4. /\ x \in Posts /\ x.phase = "sent" /\ x.write = terminal
      /\ x.expected = FailureRevision(o)
  BY <1>3, NoPostTyped
<1>5. post' = [post EXCEPT !["call"][o] = x] /\ "call" \in Tasks
  BY DEF Ask, Tasks
<1> HIDE DEF x
<1>6. /\ entry' \in [Operations -> Entries] /\ \A p \in Operations \ {o} : entry'[p] = entry[p]
      /\ entry'[o].view = entry[o].view /\ entry'[o].child = entry[o].child
      /\ entry'[o].pending = entry[o].pending
      /\ entry'[o].timer = entry[o].timer /\ entry'[o].ends = entry[o].ends
      /\ entry'[o].timedOut = entry[o].timedOut /\ entry'[o].accepted = TRUE
  BY <1>1, AcceptedSet
<1>7. /\ \A p \in Operations \ {o} : post'["call"][p] = NoPost
      /\ post'["call"][o] = x
  BY <1>1, <1>5, OneCall DEF TypeOK
<1>8. /\ call' \in Calls /\ call'.step = "fail" /\ call'.operation = o /\ call'.child = call.child
  BY <1>1, StepTyped
<1>9. CallInv'
  <2>1. terminal \in Writing("fail")
    BY DEF Writing
  <2>2. \A p \in Operations : post'["call"][p] # NoPost =>
          p = o /\ post'["call"][p].write \in Writing(call'.step)
    BY <1>4, <1>7, <1>8, <2>1
  <2>4. QED
    BY <1>2, <1>6, <1>8, <2>2 DEF CallInv, Named
<1>10. RevisionOK(o)'
  <2>1. CASE Gone(Named(o))
    BY <1>2, <1>6, <2>1 DEF RevisionOK, Gone, Known, Named
  <2>2. CASE Ahead(o)
    <3>1. FailureRevision(o) <= entry[o].view.revision
      BY <1>1, <1>2, <2>2 DEF Ahead, FailureRevision, Entries, Views
    <3>2. Timely(x, entry[o].view) /\ x.phase # "answered" /\ Named(o)' = Named(o)
      BY <1>4, <1>6, <3>1 DEF Timely, Named
    <3>3. QED
      BY <1>4, <1>5, <1>6, <3>2, SameView
  <2>3. QED
    BY <1>1, <2>1, <2>2 DEF RevisionOK
<1>11. extras' \in Nat /\ failures' \in Nat
  BY <1>1 DEF TypeOK
<1>13. QED
  BY <1>2, <1>4, <1>5, <1>6, <1>8, <1>9, <1>10, <1>11, QuietToolKeeps

LEMMA AppendFacts ==
  ASSUME NEW s \in Seq(Reasons), NEW r \in Reasons
  PROVE  /\ Append(s, r) \in Seq(Reasons) /\ Append(s, r) # <<>>
         /\ \A i \in 1..Len(Append(s, r)) :
              \/ Append(s, r)[i] = r
              \/ i \in 1..Len(s) /\ Append(s, r)[i] = s[i]
OBVIOUS

\* The start is on record.
RecordIt(o) ==
  entry' = [entry EXCEPT ![o].view = post["call"][o].view,
                         ![o].accepted = TRUE, ![o].timer = TRUE, ![o].pending = "none",
                         ![o].ends = IF entry[o].pending = "none" THEN @
                                     ELSE Append(@, entry[o].pending)]

LEMMA RecordedKeeps ==
  ASSUME IInv, NEW o \in Operations, call.step = "record", call.operation = o,
         post["call"][o].phase = "answered",
         RecordIt(o), call' = NoCall, post' = [post EXCEPT !["call"][o] = NoPost],
         UNCHANGED <<row, byChild, work, stopped, revoked, ended, extras, failures>>
  PROVE  IInv'
<1> DEFINE p == post["call"][o]
           s == IF entry[o].pending = "none" THEN entry[o].ends
                ELSE Append(entry[o].ends, entry[o].pending)
<1>1. /\ TypeOK /\ CallInv /\ entry[o] \in Entries /\ p \in Posts /\ CreditOK(o) /\ PostOK(o)
      /\ NoPost \in Posts /\ "call" \in Tasks
  BY Typed, NoPostTyped DEF IInv, CreditInv, PostInv, Tasks
<1>2. Known(o) /\ Named(o) = call.child
  BY Calling
<1>3. /\ s \in Seq(Reasons) /\ entry[o].pending \in Reasons \cup {"none"}
      /\ \A i \in 1..Len(s) : \/ i \in 1..Len(entry[o].ends) /\ s[i] = entry[o].ends[i]
                              \/ s[i] = entry[o].pending /\ entry[o].pending # "none"
  <2>1. entry[o].ends \in Seq(Reasons) /\ entry[o].pending \in Reasons \cup {"none"}
    BY <1>1 DEF Entries
  <2>2. CASE entry[o].pending = "none"
    BY <2>1, <2>2
  <2>3. CASE entry[o].pending # "none"
    BY <2>1, <2>3, AppendFacts
  <2>4. QED
    BY <2>2, <2>3
<1>4. /\ entry' \in [Operations -> Entries] /\ \A q \in Operations \ {o} : entry'[q] = entry[q]
      /\ entry'[o].view = p.view /\ entry'[o].child = entry[o].child
      /\ entry'[o].pending = "none" /\ entry'[o].ends = s
      /\ entry'[o].accepted = TRUE /\ entry'[o].timedOut = entry[o].timedOut
  <2> DEFINE e1 == [entry[o] EXCEPT !.view = p.view]
             e2 == [e1 EXCEPT !.accepted = TRUE]
             e3 == [e2 EXCEPT !.timer = TRUE]
             e4 == [e3 EXCEPT !.pending = "none"]
             e  == [e4 EXCEPT !.ends = s]
  <2>1. entry' = [entry EXCEPT ![o] = e]
    BY <1>1 DEF TypeOK, Entries, RecordIt
  <2>2. /\ e1 \in Entries /\ e1.child = entry[o].child /\ e1.view = p.view
        /\ e1.timedOut = entry[o].timedOut
    BY <1>1 DEF Entries, Posts
  <2> HIDE DEF e1
  <2>3. /\ e2 \in Entries /\ e2.child = entry[o].child /\ e2.view = p.view
        /\ e2.timedOut = entry[o].timedOut /\ e2.accepted = TRUE
    BY <2>2 DEF Entries
  <2> HIDE DEF e2
  <2>4. /\ e3 \in Entries /\ e3.child = entry[o].child /\ e3.view = p.view
        /\ e3.timedOut = entry[o].timedOut /\ e3.accepted = TRUE
    BY <2>3 DEF Entries
  <2> HIDE DEF e3
  <2>5. /\ e4 \in Entries /\ e4.child = entry[o].child /\ e4.view = p.view
        /\ e4.pending = "none" /\ e4.timedOut = entry[o].timedOut /\ e4.accepted = TRUE
    BY <2>4 DEF Entries
  <2> HIDE DEF e4, s
  <2>6. /\ e \in Entries /\ e.child = entry[o].child /\ e.view = p.view
        /\ e.pending = "none" /\ e.ends = s
        /\ e.timedOut = entry[o].timedOut /\ e.accepted = TRUE
    BY <1>3, <2>5 DEF Entries
  <2> HIDE DEF e
  <2>7. QED
    BY <1>1, <2>1, <2>6 DEF TypeOK
<1> HIDE DEF s
<1>5. CallInv' /\ call' \in Calls /\ call'.step = "idle"
  BY CallDone, CallTyped
<1>6. /\ post' \in [Tasks -> [Operations -> Posts]]
      /\ \A u \in Tasks, q \in Operations : u # "call" \/ q # o => post'[u][q] = post[u][q]
  <2>1. post' = [post EXCEPT !["call"] = [post["call"] EXCEPT ![o] = NoPost]]
    BY <1>1 DEF TypeOK
  <2>2. post["call"] \in [Operations -> Posts] /\ post \in [Tasks -> [Operations -> Posts]]
    BY <1>1 DEF TypeOK
  <2>3. [post["call"] EXCEPT ![o] = NoPost] \in [Operations -> Posts]
    BY <1>1, <2>2
  <2>4. QED
    BY <1>1, <2>1, <2>2, <2>3
<1>7. \A u \in {"report", "settle", "timer"} : post'[u][o] = post[u][o]
  BY <1>6 DEF Tasks
<1>8. Elsewhere(o)
  BY <1>4, <1>6 DEF Elsewhere
<1>9. TypeOK'
  BY <1>1, <1>4, <1>5, <1>6 DEF TypeOK
<1>10. Named(o)' = Named(o)
  BY <1>4 DEF Named
<1>11. RevisionOK(o)'
  BY <1>1, <1>4, <1>10, NothingSent, NewView
<1>12. PostOK(o)'
  <2>1. post["settle"][o] = NoPost
    BY <1>1 DEF CallInv
  <2>2. QED
    BY <1>1, <1>7, <2>1, NoPostTyped DEF PostOK
<1>14. CreditOK(o)'
  <2>1. Credited(o)' <=> Credited(o)
    <3>1. \A q \in Operations : entry'[q].child = entry[q].child
      BY <1>4
    <3>2. QED
      BY <3>1, SameCredit
  <2>2. \A i \in 1..Len(s) : s[i] = "completed" => Credited(o)
    BY <1>1, <1>3 DEF CreditOK
  <2>3. QED
    <3>1. post["settle"][o] = NoPost /\ ~entry[o].accepted
      BY <1>1 DEF CallInv
    <3>2. post'["settle"][o] = NoPost /\ NoPost.write # "succeeded"
      BY <1>7, <3>1, NoPostTyped
    <3>3. row'[o].state # "succeeded"
      BY <1>1, <3>1 DEF CreditOK, Decided
    <3>4. QED
      BY <1>4, <2>1, <2>2, <3>2, <3>3 DEF CreditOK, Decided
<1>15. UNCHANGED <<row, byChild, dsh>>
  BY DEF dsh
<1>16. QED
  BY <1>2, <1>5, <1>8, <1>9, <1>10, <1>11, <1>12, <1>14, <1>15, Quiet

LEMMA StartedKeeps ==
  ASSUME IInv, NEW o \in Operations, Started(o)
  PROVE  IInv'
<1>1. /\ call.step = "record" /\ call.operation = o
      /\ UNCHANGED <<row, byChild, work, stopped, revoked, ended, extras, failures>>
  BY DEF Started, dsh, counts
<1>2. CASE post["call"][o].phase = "answered" /\ RecordIt(o) /\ call' = NoCall /\ Done("call", o)
  BY <1>1, <1>2, RecordedKeeps DEF Done
<1>3. CASE /\ entry' = [entry EXCEPT ![o].accepted = TRUE]
           /\ call' = [call EXCEPT !.step = "fail"]
           /\ \E terminal \in {"canceled", "failed"} : Ask("call", o, terminal, FailureRevision(o))
  BY <1>1, <1>3, RefusedKeeps
<1>4. QED
  BY <1>2, <1>3 DEF Started, RecordIt

-------------------------------------------------------------------------------
\* An operation is to be admitted.
LEMMA AskedKeeps ==
  ASSUME IInv, NEW o \in Operations, NEW c \in Children, NEW tool \in {"start", "followup"},
         call.step = "idle", Fresh(o),
         call' = [step |-> "admit", tool |-> tool, operation |-> o, child |-> c],
         Ask("call", o, "admit", 0),
         UNCHANGED <<row, entry, byChild, dsh, counts>>
  PROVE  IInv'
<1> DEFINE x == Asked("admit", 0)
<1>1. /\ UNCHANGED <<row, entry, byChild, work, stopped, revoked, ended, extras, failures>>
      /\ post' = [post EXCEPT !["call"][o] = x] /\ "call" \in Tasks /\ ~Known(o)
  BY DEF Ask, dsh, counts, Tasks, Fresh
<1>2. /\ TypeOK /\ PostOK(o) /\ CreditOK(o) /\ WorkInv /\ RevisionOK(o) /\ entry[o] \in Entries
      /\ x \in Posts /\ x.phase = "sent" /\ x.write = "admit" /\ x.expected = 0
  <2>1. "admit" \in Writes /\ 0 \in Nat
    BY DEF Writes
  <2>2. QED
    BY <2>1, Typed, NoPostTyped DEF IInv, PostInv, CreditInv, RevisionInv
<1> HIDE DEF x
<1>3. /\ post' \in [Tasks -> [Operations -> Posts]] /\ post'["call"][o] = x
      /\ \A u \in Tasks, p \in Operations : u # "call" \/ p # o => post'[u][p] = post[u][p]
  BY <1>1, <1>2, CallPostSet
<1>4. Elsewhere(o)
  BY <1>1, <1>3 DEF Elsewhere
<1>5. /\ call' \in Calls /\ call'.step = "admit" /\ call'.operation = o /\ call'.child = c
  BY DEF Calls
<1>6. TypeOK'
  BY <1>1, <1>2, <1>3, <1>5 DEF TypeOK
<1>7. {"call", "report", "settle", "timer"} = Tasks
  BY DEF Tasks
<1>8. \A u \in {"report", "settle", "timer"} : post'[u][o] = post[u][o]
  BY <1>3, <1>7
<1>9. CallInv'
  <2>1. \A p \in Operations \ {o} : post'["call"][p] = NoPost
    BY <1>1, <1>3, OneCall
  <2>2. "admit" \in Writing("admit")
    BY DEF Writing
  <2>3. \A p \in Operations : post'["call"][p] # NoPost =>
          p = o /\ post'["call"][p].write \in Writing(call'.step)
    BY <1>2, <1>3, <1>5, <2>1, <2>2
  <2>5. QED
    BY <1>1, <1>5, <2>3 DEF CallInv, Named, Known, Open
<1>10. PostOK(o)'
  BY <1>1, <1>2, <1>8 DEF PostOK
<1>11. RevisionOK(o)'
  <2>1. Ahead(o)
    BY <1>1, <1>2 DEF RevisionOK
  <2>2. entry[o].view.revision \in Nat
    BY <1>2 DEF Entries, Views
  <2>3. 0 <= entry[o].view.revision
    BY <2>2
  <2>4. \A u \in Tasks :
          post'[u][o].phase = "sent" => post'[u][o].expected <= entry[o].view.revision
    BY <1>2, <1>3, <2>1, <2>3 DEF Ahead
  <2>5. Ahead(o)'
    BY <1>1, <1>2, <1>3, <2>1, <2>4 DEF Ahead, Known, Open
  <2>6. QED
    BY <2>5 DEF RevisionOK
<1>13. CreditOK(o)'
  <2>1. Credited(o)' <=> Credited(o)
    BY <1>1, SameCredit
  <2>2. QED
    BY <1>1, <1>2, <1>8, <2>1 DEF CreditOK, Decided
<1>14. \A t \in Tasks \ {"call"} : post'[t][o] = post[t][o]
  BY <1>7, <1>8
<1>15. Named(o)' = Named(o) /\ entry'[o] = entry[o] /\ UNCHANGED <<row, byChild, dsh>>
  BY <1>1 DEF Named
<1>17. QED
  BY <1>4, <1>6, <1>9, <1>10, <1>11, <1>13, <1>14, <1>15, Quiet

LEMMA StartKeeps ==
  ASSUME IInv, NEW o \in Operations, NEW c \in Children, Start(o, c)
  PROVE  IInv'
BY AskedKeeps DEF Start

LEMMA FollowupKeeps ==
  ASSUME IInv, NEW previous \in Operations, NEW o \in Operations, Followup(previous, o)
  PROVE  IInv'
<1>1. Named(previous) \in Children
  BY Typed DEF IInv, Entries, Followup, Known, Named
<1>2. call' = [step |-> "admit", tool |-> "followup", operation |-> o, child |-> Named(previous)]
  BY DEF Followup, Named
<1>3. QED
  BY <1>1, <1>2, AskedKeeps DEF Followup

LEMMA DeleteKeeps ==
  ASSUME IInv, NEW o \in Operations, Delete(o)
  PROVE  IInv'
<1>1. /\ call.step = "idle" /\ Known(o)
      /\ call' = [step |-> "dispose", tool |-> "delete", operation |-> o, child |-> Named(o)]
      /\ revoked' = revoked \cup {Named(o)}
      /\ UNCHANGED <<row, entry, byChild, post, work, stopped, ended, failures>>
      /\ extras' = extras + 1
  BY DEF Delete, Named, Extra
<1>2. TypeOK /\ Named(o) \in Children
  BY <1>1, Typed DEF IInv, Entries, Known, Named
<1>3. /\ call' \in Calls /\ call'.step = "dispose" /\ call'.operation = o /\ call'.child = Named(o)
  BY <1>1, <1>2 DEF Calls
<1>4. TypeOK'
  BY <1>1, <1>2, <1>3 DEF TypeOK
<1>5. WorkInv' /\ PostInv' /\ CreditInv'
  <2>1. WorkInv'
    BY <1>1 DEF IInv, WorkInv, Named, Known
  <2>2. PostInv'
    BY <1>1 DEF IInv, PostInv, PostOK
  <2>4. CreditInv'
    BY <1>1 DEF IInv, CreditInv, CreditOK, Decided, Credited, Named
  <2>5. QED
    BY <2>1, <2>2, <2>4
<1>6. CallInv'
  <2>1. \A p \in Operations : post'["call"][p] = NoPost
    BY <1>1, OneCall
  <2>2. call'.child \in revoked' /\ Named(o)' = call'.child
    BY <1>1, <1>3 DEF Named
  <2>3. QED
    BY <1>2, <1>3, <2>1, <2>2 DEF CallInv, Named
<1>7. RevisionInv'
  <2> SUFFICES ASSUME NEW p \in Operations
               PROVE  RevisionOK(p)'
    BY DEF RevisionInv
  <2>1. RevisionOK(p)
    BY DEF IInv, RevisionInv
  <2>2. CASE Known(p) /\ Gone(Named(p))
    BY <1>1, <2>2 DEF RevisionOK, Gone, Known, Named
  <2>3. CASE Ahead(p)
    BY <1>1, <2>3 DEF RevisionOK, Ahead, Known, Named, Open
  <2>4. QED
    BY <2>1, <2>2, <2>3 DEF RevisionOK
<1>9. QED
  BY <1>4, <1>5, <1>6, <1>7 DEF IInv

-------------------------------------------------------------------------------
\* DSH takes the message in.
LEMMA TakenInKeeps ==
  ASSUME IInv, NEW o \in Operations, call.step = "deliver", call.operation = o,
         call.child \notin revoked, work' = [work EXCEPT ![call.child] = @ \cup {o}],
         call' = [call EXCEPT !.step = "record"],
         Ask("call", o, "started", entry[o].view.revision),
         UNCHANGED <<row, entry, byChild, stopped, revoked, ended, extras, failures>>
  PROVE  IInv'
<1> DEFINE x == Asked("started", entry[o].view.revision)
           c == call.child
<1>1. /\ TypeOK /\ WorkInv /\ CallInv /\ PostOK(o) /\ CreditOK(o)
      /\ entry[o] \in Entries /\ call \in Calls /\ "call" \in Tasks
      /\ post' = [post EXCEPT !["call"][o] = x]
  BY Typed DEF IInv, TypeOK, PostInv, CreditInv, Ask, Tasks
<1>2. Known(o) /\ Named(o) = c /\ c \in Children
  BY Calling
<1>3. x \in Posts /\ x.phase = "sent" /\ x.write = "started" /\ x.expected = entry[o].view.revision
  <2>1. entry[o].view.revision \in Nat /\ "started" \in Writes
    BY <1>1 DEF Entries, Views, Writes
  <2>2. QED
    BY <2>1, NoPostTyped
<1> HIDE DEF x, c
<1>4. /\ post' \in [Tasks -> [Operations -> Posts]] /\ post'["call"][o] = x
      /\ \A u \in Tasks, p \in Operations : u # "call" \/ p # o => post'[u][p] = post[u][p]
  BY <1>1, <1>3, CallPostSet
<1>5. /\ work' \in [Children -> SUBSET Operations] /\ work'[c] = work[c] \cup {o}
      /\ \A d \in Children \ {c} : work'[d] = work[d]
  BY <1>1, <1>2 DEF TypeOK, c
<1>6. /\ call' \in Calls /\ call'.step = "record" /\ call'.operation = o /\ call'.child = c
  BY <1>1, StepTyped DEF c
<1>7. TypeOK'
  BY <1>1, <1>4, <1>5, <1>6 DEF TypeOK
<1>8. Elsewhere(o)
  BY <1>1, <1>4 DEF Elsewhere
<1>9. Lasting
  BY DEF Lasting, Named
<1>10. {"call", "report", "settle", "timer"} = Tasks
  BY DEF Tasks
<1>11. \A u \in {"report", "settle", "timer"} : post'[u][o] = post[u][o]
  BY <1>4, <1>10
<1>12. PostInv' /\ CreditInv'
  <2>1. PostOK(o)'
    BY <1>1, <1>11 DEF PostOK
  <2>2. Credited(o)' <=> Credited(o)
    BY SameCredit
  <2>3. CreditOK(o)'
    BY <1>1, <1>11, <2>2 DEF CreditOK, Decided
  <2>4. QED
    BY <1>8, <1>9, <2>1, <2>3, PostKept, CreditKept
<1>13. /\ o \notin work[c] /\ ended[o].reason = "none"
       /\ entry[o].ends = <<>> /\ ~entry[o].timer /\ ~entry[o].accepted
       /\ \A t \in Tasks : post[t][o] = NoPost
  BY <1>1 DEF CallInv, c
<1>14. WorkInv'
  <2>1. ASSUME NEW p \in Operations, ~Known(p), NEW t \in Tasks \ {"call"}
        PROVE  post'[t][p] = NoPost
    BY <1>1, <1>4, <2>1 DEF WorkInv
  <2>2. \A d \in Children : \A p \in work'[d] : entry[p].child = d /\ ended[p].reason = "none"
    BY <1>1, <1>2, <1>5, <1>13 DEF WorkInv, Named
  <2>4. QED
    BY <1>1, <2>1, <2>2 DEF WorkInv, Named, Known
<1>16. CallInv'
  <2>1. \A p \in Operations \ {o} : post'["call"][p] = NoPost
    BY <1>1, <1>4, OneCall
  <2>2. "started" \in Writing("record")
    BY DEF Writing
  <2>3. \A p \in Operations : post'["call"][p] # NoPost =>
          p = o /\ post'["call"][p].write \in Writing(call'.step)
    BY <1>3, <1>4, <1>6, <2>1, <2>2
  <2>4. post'["settle"][o] = NoPost /\ post'["timer"][o] = NoPost
    BY <1>10, <1>11, <1>13
  <2>5. QED
    BY <1>2, <1>6, <1>13, <2>3, <2>4 DEF CallInv, Named
<1>17. RevisionInv'
  <2>1. c \notin revoked
    BY DEF c
  <2>2. \A d \in Children : Gone(d) => Gone(d)'
    BY <1>5, <2>1 DEF Gone
  <2>3. Ahead(o)
    BY <1>2, <2>1 DEF IInv, RevisionInv, RevisionOK, Gone
  <2>4. entry[o].view.revision \in Nat
    BY <1>1 DEF Entries, Views
  <2>5. \A u \in Tasks :
          post'[u][o].phase = "sent" => post'[u][o].expected <= entry[o].view.revision
    BY <1>3, <1>4, <2>3, <2>4 DEF Ahead
  <2>6. \A u \in Tasks : post'[u][o].phase # "answered"
    BY <1>3, <1>4, <1>13, NoPostTyped
  <2>7. Ahead(o)'
    BY <2>3, <2>5, <2>6 DEF Ahead, Known
  <2>8. QED
    BY <1>8, <1>9, <2>2, <2>7, RevisionKept DEF RevisionOK
<1>20. QED
  BY <1>7, <1>12, <1>14, <1>16, <1>17 DEF IInv

LEMMA DeliverKeeps ==
  ASSUME IInv, NEW o \in Operations, Deliver(o)
  PROVE  IInv'
<1>1. /\ call.step = "deliver" /\ call.operation = o
      /\ UNCHANGED <<row, byChild, stopped, revoked, ended, extras, failures>>
  BY DEF Deliver, counts
<1>2. CASE /\ call.child \notin revoked
           /\ work' = [work EXCEPT ![call.child] = @ \cup {o}]
           /\ call' = [call EXCEPT !.step = "record"]
           /\ Ask("call", o, "started", entry[o].view.revision)
           /\ UNCHANGED entry
  BY <1>1, <1>2, TakenInKeeps
<1>3. CASE /\ entry' = [entry EXCEPT ![o].accepted = TRUE]
           /\ call' = [call EXCEPT !.step = "fail"]
           /\ \E terminal \in {"canceled", "failed"} : Ask("call", o, terminal, FailureRevision(o))
           /\ UNCHANGED work
  BY <1>1, <1>3, RefusedKeeps
<1>4. QED
  BY <1>2, <1>3 DEF Deliver

\* The operation is admitted.
LEMMA GrantedKeeps ==
  ASSUME IInv, NEW o \in Operations, call.step = "admit", call.operation = o,
         post["call"][o].phase = "answered",
         entry' = [entry EXCEPT ![o] = [NoEntry EXCEPT !.child = call.child,
                                                       !.view = post["call"][o].view]],
         byChild' = [byChild EXCEPT ![call.child] = o], call' = [call EXCEPT !.step = "deliver"],
         post' = [post EXCEPT !["call"][o] = NoPost],
         UNCHANGED <<row, work, stopped, revoked, ended, extras, failures>>
  PROVE  IInv'
<1> DEFINE p == post["call"][o]
           c == call.child
           e == [NoEntry EXCEPT !.child = c, !.view = p.view]
<1>1. /\ TypeOK /\ WorkInv /\ CallInv /\ RevisionOK(o)
      /\ p \in Posts /\ call \in Calls /\ NoPost \in Posts /\ "call" \in Tasks
  BY Typed, NoPostTyped DEF IInv, TypeOK, RevisionInv, Tasks
<1>2. ~Known(o) /\ c \in Children
  BY <1>1 DEF CallInv
<1>3. /\ e \in Entries /\ e.child = c /\ e.view = p.view /\ e.ends = <<>> /\ e.timer = FALSE
      /\ e.accepted = FALSE /\ e.pending = "none"
  <2>1. p.view \in Views
    BY <1>1 DEF Posts
  <2>2. QED
    BY <1>2, <2>1, NewEntryTyped, ZenonT(90)
<1>4. entry' = [entry EXCEPT ![o] = e]
  OBVIOUS
<1> HIDE DEF e
<1>5. /\ entry' \in [Operations -> Entries] /\ entry'[o] = e
      /\ \A q \in Operations \ {o} : entry'[q] = entry[q]
  BY <1>1, <1>3, <1>4 DEF TypeOK
<1>6. /\ post' \in [Tasks -> [Operations -> Posts]] /\ post'["call"][o] = NoPost
      /\ \A u \in Tasks, q \in Operations : u # "call" \/ q # o => post'[u][q] = post[u][q]
  BY <1>1, CallPostSet
<1>7. /\ byChild' \in [Children -> Operations \cup {NoOperation}] /\ byChild'[c] = o
      /\ \A d \in Children \ {c} : byChild'[d] = byChild[d]
  BY <1>1, <1>2 DEF TypeOK
<1>8. /\ call' \in Calls /\ call'.step = "deliver" /\ call'.operation = o /\ call'.child = c
  BY <1>1, StepTyped
<1> HIDE DEF c
<1>9. TypeOK'
  BY <1>1, <1>5, <1>6, <1>7, <1>8 DEF TypeOK
<1>10. Elsewhere(o)
  BY <1>5, <1>6 DEF Elsewhere
<1>11. \A q \in Operations : Known(q) => q # o /\ entry'[q] = entry[q]
  BY <1>2, <1>5
<1>12. Lasting
  BY <1>11 DEF Lasting, Named
<1>13. /\ entry[o] = NoEntry /\ ended[o].reason = "none" /\ row[o].state \in {"absent", "queued"}
       /\ \A t \in Tasks : post'[t][o] = NoPost
  BY <1>1, <1>2, <1>6 DEF WorkInv
<1>14. \A q \in Operations : Named(q) \in Children => Known(q)
  BY ConstantsAssumption DEF Known, Named
<1>15. \A q \in Operations : Known(q)' <=> q = o \/ Known(q)
  BY <1>2, <1>3, <1>5, ConstantsAssumption DEF Known
<1>16. WorkInv'
  <2>1. ASSUME NEW d \in Children, byChild'[d] # NoOperation
        PROVE  entry'[byChild'[d]].child = d
    <3>1. CASE d = c
      BY <1>3, <1>5, <1>7, <3>1
    <3>2. CASE d # c
      <4>1. byChild'[d] = byChild[d] /\ byChild[d] \in Operations
        BY <1>1, <1>7, <2>1, <3>2 DEF TypeOK
      <4>2. Named(byChild[d]) = d
        BY <1>1, <2>1, <4>1 DEF WorkInv
      <4>3. QED
        BY <1>11, <1>14, <4>1, <4>2 DEF Named
    <3>3. QED
      BY <3>1, <3>2
  <2>2. ASSUME NEW q \in Operations, Known(q)'
        PROVE  byChild'[entry'[q].child] \in Operations
    <3>1. CASE q = o
      BY <1>3, <1>5, <1>7, <3>1
    <3>2. CASE q # o
      <4>1. Known(q) /\ entry'[q].child = Named(q) /\ byChild[Named(q)] \in Operations
            /\ Named(q) \in Children
        BY <1>1, <1>5, <1>15, <2>2, <3>2, Typed DEF WorkInv, Known, Named, Entries
      <4>2. QED
        BY <1>7, <4>1
    <3>3. QED
      BY <3>1, <3>2
  <2>3. \A d \in Children : \A q \in work[d] : entry'[q].child = d /\ ended[q].reason = "none"
    <3>1. \A d \in Children : \A q \in work[d] :
            q \in Operations /\ Named(q) = d /\ ended[q].reason = "none"
      BY <1>1 DEF WorkInv, TypeOK
    <3>2. QED
      BY <1>11, <1>14, <3>1 DEF Named
  <2>5. ASSUME NEW q \in Operations, ~Known(q)'
        PROVE  /\ entry'[q] = NoEntry /\ ended[q].reason = "none"
                /\ row[q].state \in {"absent", "queued"}
               /\ \A t \in Tasks \ {"call"} : post'[t][q] = NoPost
    <3>1. ~Known(q) /\ q # o
      BY <1>15, <2>5
    <3>2. QED
      BY <1>1, <1>5, <1>6, <3>1 DEF WorkInv
  <2>6. QED
    BY <2>1, <2>2, <2>3, <2>5 DEF WorkInv, Named, Known
<1>18. CallInv'
  <2>1. \A q \in Operations : post'["call"][q] = NoPost
    BY <1>1, <1>6, OneCall
  <2>2. o \notin work[c] /\ ended[o].reason = "none"
    BY <1>1, <1>2, <1>13, <1>14 DEF WorkInv
  <2>3. QED
    BY <1>2, <1>3, <1>5, <1>6, <1>7, <1>8, <1>13, <2>1, <2>2, ZenonT(60)
     DEF CallInv, Named, Known, Open, Tasks
<1>19. PostInv'
  <2>1. PostOK(o)'
    BY <1>13, NoPostTyped DEF PostOK, Tasks
  <2>2. QED
    BY <1>10, <2>1, PostKept
<1>20. RevisionInv'
  <2>1. Ahead(o)
    BY <1>1, <1>2 DEF RevisionOK
  <2>2. p.view.revision <= row[o].revision /\ entry[o].view.revision < p.view.revision
    BY <1>1, <2>1 DEF Ahead
  <2>3. p.view.revision \in Nat /\ entry[o].view.revision = 0
    BY <1>1, <1>13 DEF Posts, Views, NoEntry, Unknown
  <2>4. Ahead(o)'
    BY <1>3, <1>5, <1>13, <2>2, <2>3, NoPostTyped DEF Ahead
  <2>5. \A d \in Children : Gone(d) => Gone(d)'
    BY DEF Gone
  <2>6. QED
    BY <1>10, <1>12, <2>4, <2>5, RevisionKept DEF RevisionOK
<1>23. CreditInv'
  <2>1. CreditOK(o)'
    <3>1. entry'[o].ends = <<>> /\ entry'[o].pending = "none" /\ Len(<<>>) = 0
      BY <1>3, <1>5
    <3>2. post'["settle"][o].write = "report"
      BY <1>13, NoPostTyped DEF Tasks
    <3>3. row'[o].state # "succeeded"
      BY <1>13
    <3>4. post'["settle"][o] = NoPost
      BY <1>13 DEF Tasks
    <3>5. QED
      BY <3>1, <3>2, <3>3, <3>4 DEF CreditOK, Decided
  <2>2. QED
    BY <1>10, <1>12, <2>1, CreditKept
<1>24. QED
  BY <1>9, <1>16, <1>18, <1>19, <1>20, <1>23 DEF IInv

LEMMA AdmittedKeeps ==
  ASSUME IInv, NEW o \in Operations, Admitted(o)
  PROVE  IInv'
<1>1. /\ call.step = "admit" /\ call.operation = o /\ ~Known(o)
      /\ post' = [post EXCEPT !["call"][o] = NoPost]
      /\ UNCHANGED <<row, work, stopped, revoked, ended, extras, failures>>
  BY DEF Admitted, Done, dsh, counts, IInv, CallInv
<1>2. CASE /\ post["call"][o].phase = "answered"
           /\ entry' = [entry EXCEPT ![o] = [NoEntry EXCEPT !.child = call.child,
                                                            !.view = post["call"][o].view]]
           /\ byChild' = [byChild EXCEPT ![call.child] = o]
           /\ call' = [call EXCEPT !.step = "deliver"]
  BY <1>1, <1>2, GrantedKeeps
<1>3. CASE post["call"][o].phase = "failed" /\ call' = NoCall /\ UNCHANGED <<entry, byChild>>
  <2>1. /\ TypeOK /\ PostOK(o) /\ CreditOK(o) /\ NoPost \in Posts /\ "call" \in Tasks
        /\ UNCHANGED <<row, byChild, dsh>>
    BY <1>1, <1>3, NoPostTyped DEF IInv, PostInv, CreditInv, Tasks, dsh
  <2>2. /\ post' \in [Tasks -> [Operations -> Posts]] /\ post'["call"][o] = NoPost
        /\ \A u \in Tasks, q \in Operations : u # "call" \/ q # o => post'[u][q] = post[u][q]
    BY <1>1, <2>1, CallPostSet
  <2>3. CallInv' /\ call' \in Calls /\ call'.step = "idle"
    BY <1>1, <1>3, CallDone, CallTyped
  <2>4. TypeOK' /\ Elsewhere(o)
    BY <1>1, <1>3, <2>1, <2>2, <2>3 DEF TypeOK, Elsewhere
  <2>5. PostOK(o)'
    BY <1>3, <2>1, <2>2 DEF PostOK, Tasks
  <2>6. RevisionOK(o)'
    BY <1>1, <1>3, <2>1, NothingSent, SameView DEF Named
  <2>8. CreditOK(o)'
    <3>1. Credited(o)' <=> Credited(o)
      BY <1>1, <1>3, SameCredit
    <3>2. post'["settle"][o] = post["settle"][o]
      BY <2>2 DEF Tasks
    <3>3. QED
      BY <1>1, <1>3, <2>1, <3>1, <3>2 DEF CreditOK, Decided
  <2>9. \A t \in Tasks \ {"call"} : post'[t][o] = post[t][o]
    BY <2>2
  <2>10. QED
    BY <1>3, <2>1, <2>3, <2>4, <2>5, <2>6, <2>8, <2>9, Quiet DEF Named
<1>4. QED
  BY <1>2, <1>3 DEF Admitted, Done

CreditEnd(o, reason) ==
  entry' = [entry EXCEPT ![o].pending = IF entry[o].accepted THEN @ ELSE reason,
                         ![o].ends = IF entry[o].accepted THEN Append(@, reason) ELSE @]

LEMMA EndSet ==
  ASSUME TypeOK, NEW o \in Operations, NEW reason \in Reasons, CreditEnd(o, reason)
  PROVE  /\ entry' \in [Operations -> Entries] /\ \A p \in Operations \ {o} : entry'[p] = entry[p]
         /\ entry'[o].view = entry[o].view /\ entry'[o].child = entry[o].child
         /\ entry'[o].accepted = entry[o].accepted /\ entry'[o].timer = entry[o].timer
         /\ entry'[o].timedOut = entry[o].timedOut
         /\ \/ entry'[o].pending = entry[o].pending
            \/ entry'[o].pending = reason
         /\ \/ entry'[o].ends = entry[o].ends
            \/ entry[o].accepted /\ entry'[o].ends = Append(entry[o].ends, reason)
<1> DEFINE r == IF entry[o].accepted THEN entry[o].pending ELSE reason
           s == IF entry[o].accepted THEN Append(entry[o].ends, reason) ELSE entry[o].ends
           e1 == [entry[o] EXCEPT !.pending = r]
           e  == [e1 EXCEPT !.ends = s]
<1>1. entry[o] \in Entries
  BY DEF TypeOK
<1>2. /\ r \in Reasons \cup {"none"} /\ s \in Seq(Reasons)
      /\ r = entry[o].pending \/ r = reason
      /\ s = entry[o].ends \/ (entry[o].accepted /\ s = Append(entry[o].ends, reason))
  BY <1>1 DEF Entries
<1>3. entry' = [entry EXCEPT ![o] = e]
  BY <1>1 DEF TypeOK, Entries, CreditEnd
<1> HIDE DEF r, s
<1>4. /\ e1 \in Entries /\ e1.pending = r /\ e1.view = entry[o].view /\ e1.child = entry[o].child
      /\ e1.accepted = entry[o].accepted /\ e1.timer = entry[o].timer
      /\ e1.timedOut = entry[o].timedOut
  BY <1>1, <1>2 DEF Entries
<1> HIDE DEF e1
<1>5. /\ e \in Entries /\ e.pending = r /\ e.view = entry[o].view /\ e.child = entry[o].child
      /\ e.accepted = entry[o].accepted /\ e.timer = entry[o].timer /\ e.ends = s
      /\ e.timedOut = entry[o].timedOut
  BY <1>2, <1>4 DEF Entries
<1> HIDE DEF e
<1>6. /\ entry' \in [Operations -> Entries] /\ entry'[o] = e
      /\ \A p \in Operations \ {o} : entry'[p] = entry[p]
  BY <1>3, <1>5 DEF TypeOK
<1>7. QED
  BY <1>2, <1>5, <1>6

\* The end of an activation is credited to the operation admitted last.
LEMMA EndKeeps ==
  ASSUME IInv, NEW c \in Children, NEW reason \in Reasons, End(c, reason)
  PROVE  IInv'
<1>1. /\ work[c] # {}
      /\ work' = [work EXCEPT ![c] = {}] /\ stopped' = [stopped EXCEPT ![c] = NoOperation]
      /\ ended' = [p \in Operations |->
                     IF p \in work[c] THEN [reason |-> reason, to |-> byChild[c]] ELSE ended[p]]
      /\ UNCHANGED <<row, byChild, call, post, revoked, extras, failures>>
  BY DEF End, counts
<1>2. TypeOK /\ WorkInv /\ CallInv /\ PostInv /\ RevisionInv /\ CreditInv
  BY DEF IInv
<1>3. PICK q \in Operations : q \in work[c]
  BY <1>1, <1>2 DEF TypeOK
<1>4. \A p \in work[c] : p \in Operations /\ Known(p) /\ Named(p) = c /\ ended[p].reason = "none"
  BY <1>2, ConstantsAssumption DEF WorkInv, TypeOK, Known, Named
<1>5. PICK o \in Operations : o = byChild[c] /\ Named(o) = c /\ Known(o)
  <2>1. byChild[c] \in Operations
    BY <1>2, <1>3, <1>4 DEF WorkInv
  <2>2. Named(byChild[c]) = c
    BY <1>2, <2>1, ConstantsAssumption DEF WorkInv
  <2>3. QED
    BY <2>1, <2>2, ConstantsAssumption DEF Known, Named
<1>6. /\ entry' \in [Operations -> Entries] /\ \A p \in Operations \ {o} : entry'[p] = entry[p]
      /\ entry'[o].view = entry[o].view /\ entry'[o].child = entry[o].child
      /\ entry'[o].accepted = entry[o].accepted /\ entry'[o].timer = entry[o].timer
      /\ entry'[o].timedOut = entry[o].timedOut
      /\ \/ entry'[o].pending = entry[o].pending
         \/ entry'[o].pending = reason
      /\ \/ entry'[o].ends = entry[o].ends
         \/ entry[o].accepted /\ entry'[o].ends = Append(entry[o].ends, reason)
  <2>1. CreditEnd(o, reason)
    BY <1>5 DEF End, CreditEnd
  <2>2. QED
    BY <1>2, <2>1, EndSet
<1>7. /\ work' \in [Children -> SUBSET Operations] /\ work'[c] = {}
      /\ \A d \in Children \ {c} : work'[d] = work[d]
      /\ stopped' \in [Children -> Operations \cup {NoOperation}] /\ stopped'[c] = NoOperation
      /\ \A d \in Children \ {c} : stopped'[d] = stopped[d]
      /\ ended' \in [Operations -> Ends]
      /\ \A p \in work[c] : ended'[p] = [reason |-> reason, to |-> o]
      /\ \A p \in Operations : p \notin work[c] => ended'[p] = ended[p]
  <2>1. /\ work \in [Children -> SUBSET Operations]
        /\ stopped \in [Children -> Operations \cup {NoOperation}]
    BY <1>2 DEF TypeOK
  <2>2. /\ work' \in [Children -> SUBSET Operations] /\ work'[c] = {}
        /\ \A d \in Children \ {c} : work'[d] = work[d]
    BY <1>1, <2>1
  <2>3. /\ stopped' \in [Children -> Operations \cup {NoOperation}] /\ stopped'[c] = NoOperation
        /\ \A d \in Children \ {c} : stopped'[d] = stopped[d]
    BY <1>1, <2>1
  <2>4. /\ ended' \in [Operations -> Ends]
        /\ \A p \in Operations : p \notin work[c] => ended'[p] = ended[p]
    <3>1. [reason |-> reason, to |-> byChild[c]] \in Ends
      BY <1>5 DEF Ends
    <3>2. QED
      BY <1>1, <1>2, <3>1 DEF TypeOK
  <2>5. \A p \in work[c] : ended'[p] = [reason |-> reason, to |-> o]
    BY <1>1, <1>4, <1>5
  <2>6. QED
    BY <2>2, <2>3, <2>4, <2>5
<1>8. TypeOK'
  BY <1>1, <1>2, <1>6, <1>7 DEF TypeOK
<1>9. Elsewhere(o)
  BY <1>1, <1>6 DEF Elsewhere
<1>10. \A p \in Operations : /\ entry'[p].child = entry[p].child
                             /\ Known(p)' = Known(p) /\ Named(p)' = Named(p) /\ Open(p)' = Open(p)
  BY <1>1, <1>5, <1>6 DEF Known, Named, Open
<1>11. Lasting
  BY <1>1, <1>4, <1>7, <1>10 DEF Lasting
<1>12. WorkInv'
  <2>1. \A d \in Children : byChild'[d] # NoOperation => entry'[byChild'[d]].child = d
    BY <1>1, <1>2, <1>10 DEF WorkInv, Named, TypeOK
  <2>2. \A p \in Operations : Known(p)' => byChild'[Named(p)'] \in Operations
    BY <1>1, <1>2, <1>10 DEF WorkInv
  <2>3. \A d \in Children : \A p \in work'[d] : entry'[p].child = d /\ ended'[p].reason = "none"
    <3> SUFFICES ASSUME NEW d \in Children, NEW p \in work'[d]
                 PROVE  entry'[p].child = d /\ ended'[p].reason = "none"
      OBVIOUS
    <3>1. d # c /\ p \in work[d] /\ p \in Operations
      BY <1>7
    <3>2. Named(p) = d /\ ended[p].reason = "none"
      BY <1>2, <3>1 DEF WorkInv
    <3>3. p \notin work[c]
      BY <1>4, <3>1, <3>2
    <3>4. QED
      BY <1>7, <1>10, <3>1, <3>2, <3>3 DEF Named
  <2>5. ASSUME NEW p \in Operations, ~Known(p)
        PROVE  /\ entry'[p] = NoEntry /\ ended'[p].reason = "none"
               /\ row[p].state \in {"absent", "queued"}
               /\ \A t \in Tasks \ {"call"} : post[t][p] = NoPost
    <3>1. p # o /\ p \notin work[c]
      BY <1>4, <1>5, <2>5
    <3>2. QED
      BY <1>2, <1>6, <1>7, <2>5, <3>1 DEF WorkInv
  <2>6. QED
    BY <1>1, <1>10, <2>1, <2>2, <2>3, <2>5 DEF WorkInv, Named, Known
<1>14. CallInv'
  <2>1. call.step # "idle" => call.operation \in Operations /\ call.child \in Children
    BY <1>2 DEF CallInv
  <2>2. call.step \in {"deliver", "record"} =>
          /\ entry'[call.operation].ends = <<>> /\ ~entry'[call.operation].timer
          /\ ~entry'[call.operation].accepted
    <3>1. CASE call.operation = o
      BY <1>2, <1>6, <3>1 DEF CallInv
    <3>2. CASE call.operation # o
      BY <1>2, <1>6, <2>1, <3>2 DEF CallInv
    <3>3. QED
      BY <3>1, <3>2
  <2>3. call.step = "deliver" =>
          /\ call.operation \notin work'[call.child]
          /\ ended'[call.operation].reason = "none"
    <3> SUFFICES ASSUME call.step = "deliver"
                 PROVE  /\ call.operation \notin work'[call.child]
                         /\ ended'[call.operation].reason = "none"
      OBVIOUS
    <3>1. /\ call.operation \notin work[call.child] /\ ended[call.operation].reason = "none"
          /\ Named(call.operation) = call.child
      BY <1>2 DEF CallInv
    <3>2. call.operation \notin work[c]
      BY <1>4, <3>1
    <3>3. QED
      BY <1>7, <2>1, <3>1, <3>2
  <2>5. call.step = "audit" => work'[call.child] = {}
    BY <1>2, <1>7, <2>1 DEF CallInv
  <2>6. call.step = "admit" => entry'[call.operation].child = NoChild
    BY <1>2, <1>10, <2>1 DEF CallInv, Known
  <2>7. call.step \notin {"idle", "admit"} => entry'[call.operation].child = call.child
    BY <1>2, <1>10, <2>1 DEF CallInv, Named
  <2>8. QED
    BY <1>1, <1>2, <2>1, <2>2, <2>3, <2>5, <2>6, <2>7 DEF CallInv, Named, Known
<1>15. PostInv'
  <2>1. post["settle"][o] # NoPost => entry'[o].ends # <<>>
    <3>1. entry[o].ends \in Seq(Reasons)
      BY <1>2, <1>5, Typed DEF Entries
    <3>2. Append(entry[o].ends, reason) # <<>>
      BY <3>1, AppendFacts
    <3>3. QED
      BY <1>2, <1>5, <1>6, <3>2 DEF PostInv, PostOK
  <2>2. PostOK(o)'
    BY <1>1, <1>2, <1>5, <2>1 DEF PostInv, PostOK
  <2>3. QED
    BY <1>5, <1>9, <2>2, PostKept
<1>16. RevisionInv'
  <2>1. \A d \in Children : Gone(d) => Gone(d)'
    BY <1>1, <1>7 DEF Gone
  <2>2. RevisionOK(o)'
    <3>1. CASE Gone(Named(o))
      <4>1. Gone(Named(o))'
        BY <1>5, <1>10, <2>1, <3>1 DEF Gone
      <4>2. QED
        BY <1>5, <1>10, <4>1 DEF RevisionOK
    <3>2. CASE Ahead(o)
      <4>1. Ahead(o)'
        BY <1>1, <1>5, <1>6, <1>10, <3>2 DEF Ahead
      <4>2. QED
        BY <4>1 DEF RevisionOK
    <3>3. QED
      BY <1>2, <1>5, <3>1, <3>2 DEF RevisionInv, RevisionOK
  <2>3. QED
    BY <1>5, <1>9, <1>11, <2>1, <2>2, RevisionKept
<1>19. CreditInv'
  <2>1. reason = "completed" => Credited(o)'
    <3> SUFFICES ASSUME reason = "completed"
                 PROVE  Credited(o)'
      OBVIOUS
    <3>1. Named(q)' = Named(o)' /\ ended'[q] = [reason |-> "completed", to |-> o]
      BY <1>3, <1>4, <1>5, <1>7, <1>10
    <3>2. QED
      BY <3>1 DEF Credited
  <2>2. Credited(o) => Credited(o)'
    BY <1>5, <1>11, CreditedLasts
  <2>3. CreditOK(o) /\ entry[o].ends \in Seq(Reasons)
    BY <1>2, <1>5, Typed DEF CreditInv, Entries
  <2>4. \A i \in 1..Len(entry'[o].ends) : entry'[o].ends[i] = "completed" => Credited(o)'
    <3>1. CASE entry'[o].ends = entry[o].ends
      BY <2>2, <2>3, <3>1 DEF CreditOK
    <3>2. CASE entry'[o].ends = Append(entry[o].ends, reason)
      BY <2>1, <2>2, <2>3, <3>2, AppendFacts DEF CreditOK
    <3>3. QED
      BY <1>6, <3>1, <3>2
  <2>5. CreditOK(o)'
    <3>1. /\ entry'[o].pending = "completed" => Credited(o)'
          /\ entry'[o].ends # <<>> => entry[o].accepted
      BY <1>6, <2>1, <2>2, <2>3 DEF CreditOK
    <3>2. QED
      BY <1>1, <1>6, <2>2, <2>3, <2>4, <3>1 DEF CreditOK, Decided
  <2>6. QED
    BY <1>5, <1>9, <1>11, <2>5, CreditKept
<1>20. QED
  BY <1>8, <1>12, <1>14, <1>15, <1>16, <1>19 DEF IInv

-------------------------------------------------------------------------------
LEMMA AtFirst == Init => IInv
<1> SUFFICES ASSUME Init
             PROVE  IInv
  OBVIOUS
<1>1. /\ \A o \in Operations : /\ entry[o] = NoEntry /\ row[o] = Unknown /\ ended[o].reason = "none"
                               /\ \A t \in Tasks : post[t][o] = NoPost
      /\ \A c \in Children : /\ byChild[c] = NoOperation /\ work[c] = {}
                             /\ stopped[c] = NoOperation
      /\ call = NoCall /\ call.step = "idle"
      /\ {"call", "report", "settle", "timer"} = Tasks
  BY DEF Init, NoCall, Tasks
<1>2. Unknown \in Views /\ Unknown.state = "absent" /\ Unknown.revision = 0
  BY DEF Unknown, Views
<1>3. TypeOK
  <2>1. NoCall \in Calls /\ NoPost \in Posts /\ NoEntry \in Entries
    BY CallTyped, NoPostTyped, NoEntryTyped
  <2>2. QED
    BY <1>2, <2>1 DEF Init, TypeOK, Ends
<1>4. \A o \in Operations : ~Known(o)
  BY <1>1, NoEntryTyped DEF Known
<1>5. WorkInv
  BY <1>1, <1>2, <1>4 DEF WorkInv
<1>6. CallInv
  BY <1>1 DEF CallInv
<1>7. PostInv
  BY <1>1, NoPostTyped DEF PostInv, PostOK
<1>8. RevisionInv
  BY <1>1, <1>2, <1>4, NoEntryTyped, NoPostTyped DEF RevisionInv, RevisionOK, Ahead
<1>9. CreditInv
  <2>1. \A o \in Operations :
          /\ entry[o].pending = "none" /\ entry[o].ends = <<>>
          /\ post["settle"][o].write = "report" /\ row[o].state = "absent"
          /\ post["settle"][o] = NoPost
    BY <1>1, <1>2, NoEntryTyped, NoPostTyped
  <2>2. Len(<<>>) = 0
    OBVIOUS
  <2>3. QED
    BY <2>1, <2>2 DEF CreditInv, CreditOK, Decided
<1>10. QED
  BY <1>3, <1>5, <1>6, <1>7, <1>8, <1>9 DEF IInv

LEMMA StepKeeps ==
  ASSUME IInv, [Next]_vars
  PROVE  IInv'
<1>1. CASE UNCHANGED vars
  <2>1. /\ UNCHANGED <<row, entry, byChild, call, post, work, stopped, revoked, ended>>
        /\ UNCHANGED <<extras, failures>>
    BY <1>1 DEF vars, coordinator, dsh, counts
  <2>2. TypeOK' /\ WorkInv' /\ CallInv'
    BY <2>1 DEF IInv, TypeOK, WorkInv, CallInv, Named, Known
  <2>3. PostInv' /\ RevisionInv'
    BY <2>1 DEF IInv, PostInv, PostOK, RevisionInv, RevisionOK, Ahead, Gone, Named, Known, Open
  <2>4. CreditInv'
    BY <2>1 DEF IInv, CreditInv, CreditOK, Decided, Credited, Named
  <2>5. QED
    BY <2>2, <2>3, <2>4 DEF IInv
<1>2. CASE \E o \in Operations, t \in Tasks : Serve(t, o) \/ Drop(t, o)
  BY <1>2, ServeKeeps, DropKeeps
<1>3. CASE \E o \in Operations : BrowserRequest(o)
  BY <1>3, BrowserRequestKeeps
<1>4. CASE \E o \in Operations, c \in Children : Start(o, c)
  BY <1>4, StartKeeps
<1>5. CASE \E o \in Operations, previous \in Operations : Followup(previous, o)
  BY <1>5, FollowupKeeps
<1>6. CASE \E o \in Operations : Admitted(o) \/ Deliver(o) \/ Started(o) \/ Failed(o)
  BY <1>6, AdmittedKeeps, DeliverKeeps, StartedKeeps, FailedKeeps
<1>7. CASE \E o \in Operations : Settle(o) \/ SettleAnswered(o)
  BY <1>7, SettleKeeps, SettleAnsweredKeeps
<1>8. CASE \E o \in Operations : TimerFires(o) \/ TimerAnswered(o)
  BY <1>8, TimerFiresKeeps, TimerAnsweredKeeps
<1>9. CASE \E o \in Operations : Cancel(o) \/ CancelAnswered(o)
  BY <1>9, CancelKeeps, CancelAnsweredKeeps
<1>10. CASE \E o \in Operations : Report(o) \/ ReportAnswered(o)
  BY <1>10, ReportKeeps, ReportAnsweredKeeps
<1>11. CASE \E o \in Operations : Delete(o) \/ Refresh(o) \/ Deleted(o)
  BY <1>11, DeleteKeeps, RefreshKeeps, DeletedKeeps
<1>12. CASE \E c \in Children, reason \in Reasons : End(c, reason)
  BY <1>12, EndKeeps
<1>13. QED
  BY <1>1, <1>2, <1>3, <1>4, <1>5, <1>6, <1>7, <1>8, <1>9, <1>10, <1>11, <1>12 DEF Next

\* The inductive invariant: who works for what, how far the coordinator's view of
\* each record is behind, and what each end, request and record stands for.
THEOREM Invariant == Spec => []IInv
<1>1. Init => IInv
  BY AtFirst
<1>2. IInv /\ [Next]_vars => IInv'
  BY StepKeeps
<1>3. QED
  BY <1>1, <1>2, PTL DEF Spec

\* The state of the coordinator, of the server's records and of DSH is well typed.
THEOREM TypeCorrect == Spec => []TypeOK
<1>1. IInv => TypeOK
  BY DEF IInv
<1>2. QED
  BY <1>1, Invariant, PTL

-------------------------------------------------------------------------------
\* Whatever the number of operations and of failures, and however late the answer
\* to a cancellation comes (children.ts, armTimeout and cancel): a child that is at
\* work is interrupted for no operation that has its terminal.
THEOREM InterruptsForOpenWork == Spec => InterruptsAreForOpenWork
<1> DEFINE Good ==
      \A c \in Children :
        stopped'[c] # stopped[c] /\ stopped'[c] # NoOperation
          => row[stopped'[c]].state \notin Terminal
<1>1. ASSUME IInv, Next
      PROVE  Good
  <2> SUFFICES ASSUME NEW c \in Children, stopped'[c] # stopped[c], stopped'[c] # NoOperation
               PROVE  row[stopped'[c]].state \notin Terminal
    OBVIOUS
  <2>1. PICK o \in Operations : TimerAnswered(o) \/ CancelAnswered(o)
    <3>1. ASSUME NEW d \in Children, NEW reason \in Reasons, End(d, reason)
          PROVE  FALSE
      BY <1>1, <3>1 DEF End, IInv, TypeOK
    <3>2. \A o \in Operations :
            /\ \A t \in Tasks : ~Serve(t, o) /\ ~Drop(t, o)
            /\ \A d \in Children : ~Start(o, d)
            /\ \A p \in Operations : ~Followup(p, o)
            /\ ~BrowserRequest(o) /\ ~Admitted(o) /\ ~Deliver(o) /\ ~Started(o) /\ ~Failed(o)
      BY DEF Serve, Drop, BrowserRequest, Start, Followup, Admitted, Deliver, Started, Failed, dsh
    <3>3. \A o \in Operations :
            /\ ~Settle(o) /\ ~SettleAnswered(o) /\ ~TimerFires(o) /\ ~Cancel(o) /\ ~Report(o)
            /\ ~ReportAnswered(o) /\ ~Delete(o) /\ ~Refresh(o) /\ ~Deleted(o)
      BY DEF Settle, SettleAnswered, TimerFires, Cancel, Report, ReportAnswered, Delete, Refresh,
             Deleted, dsh
    <3>4. QED
      BY <1>1, <3>1, <3>2, <3>3 DEF Next
  <2>2. PICK t \in Tasks : /\ post[t][o].phase = "answered" /\ Interrupt(o)
                           /\ t = "timer" \/ (t = "call" /\ call.step = "cancel")
                           /\ t = "call" => call.operation = o
    BY <2>1 DEF TimerAnswered, CancelAnswered, Tasks
  <2>3. post[t][o] # NoPost
    BY <2>2, NoPostTyped
  <2>4. Known(o) /\ post[t][o].write = "cancel"
    <3>1. CASE t = "timer"
      BY <1>1, <2>2, <2>3, <3>1 DEF IInv, WorkInv, PostInv, PostOK
    <3>2. CASE t = "call"
      BY <1>1, <2>2, <2>3, <3>2, Calling DEF IInv, CallInv, Writing
    <3>3. QED
      BY <2>2, <3>1, <3>2
  <2>5. c = Named(o) /\ work[c] # {} /\ stopped'[c] = o
    BY <1>1, <2>2, <2>4, InterruptFacts
  <2>6. QED
    BY <1>1, <2>2, <2>4, <2>5, Rightful DEF Open
<1>2. IInv /\ [Next]_vars => [Good]_vars
  BY <1>1
<1>3. QED
  BY <1>2, Invariant, PTL DEF Spec, InterruptsAreForOpenWork

\* An operation that is recorded as succeeded is one to which the completion of an
\* activation of its child was credited (children.ts, settle), and its time was
\* not up when that was settled.
THEOREM SuccessesAreCompletions == Spec => []SuccessIsACompletion
<1>1. IInv => SuccessIsACompletion
  BY DEF IInv, CreditInv, CreditOK, Credited, Named, SuccessIsACompletion
<1>2. QED
  BY <1>1, Invariant, PTL

=============================================================================
