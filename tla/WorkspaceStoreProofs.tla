------------------------- MODULE WorkspaceStoreProofs -------------------------
(***************************************************************************)
(* For every number of callers, records, keys and kinds of commands: the   *)
(* audit trail is the exact history of the records, and a success that was *)
(* told is on record.  The inductive invariant says what an open           *)
(* transaction has done so far to the records and to the trail.            *)
(***************************************************************************)
EXTENDS WorkspaceStore, SequenceTheorems, TLAPS

Server == Head(queue)

\* The records after the first n mutations of the command being served.
RaisedBy(n) ==
  [r \in Rows |-> IF \E i \in 1..n : PlanOf(Server)[i].row = r THEN revision[r] + 1
                                                              ELSE revision[r]]

QueueInv ==
  /\ \A i \in 1..Len(queue) : stage[queue[i]] = "queued"
  /\ \A i, j \in 1..Len(queue) : queue[i] = queue[j] => i = j
  /\ phase # "closed" => queue # <<>>

TransactionInv ==
  /\ phase \in {"closed", "committed"} => viewRevision = revision /\ viewTrail = trail
  /\ phase \in {"applying", "auditing"} => next \in 1..Len(PlanOf(Server))
  /\ phase = "applying" => viewTrail = trail /\ viewRevision = RaisedBy(next - 1)
  /\ phase \in {"auditing", "recording"} => viewRevision = RaisedBy(Len(PlanOf(Server)))
  /\ phase = "auditing" => HistoryOf(RaisedBy(next - 1), viewTrail)
  /\ phase = "recording" => HistoryOf(viewRevision, viewTrail)
  /\ phase # "committed" /\ phase # "closed" => commands[request[Server].key] = NoCommand
  /\ phase = "committed" => commands[request[Server].key] =
                              [content |-> request[Server].content, by |-> Server]

IInv == TypeOK /\ QueueInv /\ TransactionInv /\ TrailIsHistory /\ SuccessIsOnRecord

-------------------------------------------------------------------------------
\* What one answer does to the callers.
LEMMA AnswerType ==
  ASSUME TypeOK, NEW c \in Callers, stage[c] # "idle",
         NEW outcome \in Outcomes, NEW by \in Callers, Answer(c, outcome, by)
  PROVE  /\ stage' \in [Callers -> {"idle", "sent", "queued", "lost"}]
         /\ request' \in [Callers -> Requests \cup {NoRequest}]
         /\ \A d \in Callers : stage'[d] # "idle" => request'[d] \in Requests
         /\ answer' \in [Callers -> Answers \cup {NoRequest}]
<1>1. request[c] \in Requests
  BY DEF TypeOK
<1>2. [key |-> request[c].key, content |-> request[c].content,
       outcome |-> outcome, by |-> by] \in Answers
  BY <1>1 DEF Requests, Answers
<1>3. QED
  BY <1>1, <1>2 DEF TypeOK, Answer

LEMMA InitType == Init => TypeOK
<1> SUFFICES ASSUME Init PROVE TypeOK
  OBVIOUS
<1> QED
  BY DEF Init, TypeOK

\* The command being served is one its caller still wants answered.
LEMMA ServedRequest ==
  ASSUME TypeOK, QueueInv, NEW c \in Callers, Holds(c)
  PROVE  /\ stage[c] = "queued" /\ request[c] \in Requests
         /\ PlanOf(c) \in Seq(Mutations) /\ Len(PlanOf(c)) \in Nat \ {0}
         /\ c = Server /\ queue # <<>> /\ queue \in Seq(Callers)
<1>1. stage[c] = "queued"
  BY DEF TypeOK, QueueInv, Holds
<1>2. request[c] \in Requests
  BY <1>1 DEF TypeOK
<1>3. request[c].content.shape \in Shapes
  BY <1>2 DEF Requests, Contents
<1>4. QED
  BY <1>1, <1>2, <1>3, PlanAssumption DEF PlanOf, Holds, Server, TypeOK

\* The mutation an open transaction is at is one of its command's.
LEMMA CurrentMutation ==
  ASSUME TypeOK, QueueInv, TransactionInv, NEW c \in Callers, Holds(c),
         phase \in {"applying", "auditing"}
  PROVE  /\ next \in 1..Len(PlanOf(c))
         /\ PlanOf(c)[next].row \in Rows
         /\ PlanOf(c)[next].action \in {"insert", "update"}
<1>1. PlanOf(c) \in Seq(Mutations) /\ c = Server
  BY ServedRequest
<1>2. next \in 1..Len(PlanOf(c))
  BY <1>1 DEF TransactionInv
<1>3. PlanOf(c)[next] \in Mutations
  BY <1>1, <1>2
<1>4. QED
  BY <1>2, <1>3 DEF Mutations

LEMMA TypeStep == TypeOK /\ QueueInv /\ TransactionInv /\ [Next]_vars => TypeOK'
<1> SUFFICES ASSUME TypeOK, QueueInv, TransactionInv, [Next]_vars
             PROVE  TypeOK'
  OBVIOUS
<1> USE DEF stored, transaction, clients
<1>1. ASSUME NEW c \in Callers, NEW k \in Keys, NEW s \in Shapes, Send(c, k, s)
      PROVE  TypeOK'
  <2>1. [r \in Rows |-> IF r \in Updates(s) THEN revision[r] ELSE 0] \in [Rows -> Nat]
    BY DEF TypeOK
  <2>2. request' \in [Callers -> Requests \cup {NoRequest}] /\ request'[c] \in Requests
    BY <1>1, <2>1 DEF Send, TypeOK, Requests, Contents
  <2>3. QED
    BY <1>1, <2>2 DEF Send, TypeOK
<1>2. ASSUME NEW c \in Callers, Resend(c) PROVE TypeOK'
  BY <1>2 DEF Resend, TypeOK
<1>3. ASSUME NEW c \in Callers, GiveUp(c) PROVE TypeOK'
  BY <1>3 DEF GiveUp, TypeOK
<1>4. ASSUME NEW c \in Callers, Read(c) PROVE TypeOK'
  <2>1. stage[c] # "idle" /\ request[c] \in Requests
    BY <1>4 DEF Read, TypeOK
  <2>2. CASE Answer(c, "entity_not_found", c) /\ UNCHANGED queue
    BY <2>1, <2>2, <1>4, AnswerType DEF Read, TypeOK, Outcomes
  <2>3. CASE Answer(c, "revision_conflict", c) /\ UNCHANGED queue
    BY <2>1, <2>3, <1>4, AnswerType DEF Read, TypeOK, Outcomes
  <2>4. CASE /\ stage' = [stage EXCEPT ![c] = "queued"]
             /\ queue' = Append(queue, c)
             /\ UNCHANGED <<request, answer>>
    BY <2>1, <2>4, <1>4 DEF Read, TypeOK
  <2>5. QED
    BY <1>4, <2>2, <2>3, <2>4 DEF Read
<1>5. ASSUME NEW c \in Callers, FindPrior(c) PROVE TypeOK'
  <2>1. stage[c] # "idle" /\ request[c].key \in Keys /\ queue # <<>>
    BY <1>5, ServedRequest DEF FindPrior, Requests
  <2>2. commands[request[c].key] \in Recorded
    BY <1>5, <2>1 DEF FindPrior, TypeOK
  <2>3. CASE Answer(c, "ok", commands[request[c].key].by)
    BY <2>1, <2>2, <2>3, <1>5, AnswerType DEF FindPrior, TypeOK, Outcomes, Recorded
  <2>4. CASE Answer(c, "duplicate_identity", c)
    BY <2>1, <2>4, <1>5, AnswerType DEF FindPrior, TypeOK, Outcomes
  <2>5. QED
    BY <1>5, <2>3, <2>4 DEF FindPrior
<1>6. ASSUME NEW c \in Callers, Begin(c) PROVE TypeOK'
  BY <1>6 DEF Begin, TypeOK
<1>7. ASSUME NEW c \in Callers, ApplyMutation(c) PROVE TypeOK'
  <2>2. PlanOf(c)[next].row \in Rows
    BY <1>7, CurrentMutation DEF ApplyMutation
  <2>3. QED
    BY <1>7, <2>2 DEF ApplyMutation, TypeOK
<1>8. ASSUME NEW c \in Callers, RollBack(c) PROVE TypeOK'
  <2>1. stage[c] # "idle" /\ queue # <<>>
    BY <1>8, ServedRequest DEF RollBack
  <2>2. /\ stage' \in [Callers -> {"idle", "sent", "queued", "lost"}]
        /\ request' \in [Callers -> Requests \cup {NoRequest}]
        /\ \A d \in Callers : stage'[d] # "idle" => request'[d] \in Requests
        /\ answer' \in [Callers -> Answers \cup {NoRequest}]
    BY <1>8, <2>1, AnswerType DEF RollBack, Outcomes
  <2>3. QED
    BY <1>8, <2>1, <2>2 DEF RollBack, TypeOK
<1>9. ASSUME NEW c \in Callers, AppendEvent(c) PROVE TypeOK'
  <2>1. request[c].key \in Keys
    BY <1>9, ServedRequest DEF AppendEvent, Requests
  <2>2. PlanOf(c)[next].row \in Rows
    BY <1>9, CurrentMutation DEF AppendEvent
  <2>3. [row |-> PlanOf(c)[next].row, revision |-> viewRevision[PlanOf(c)[next].row],
         key |-> request[c].key, by |-> c] \in Events
    BY <2>1, <2>2 DEF Events, TypeOK
  <2>4. viewTrail' \in Seq(Events)
    BY <1>9, <2>3 DEF AppendEvent, TypeOK
  <2>5. QED
    BY <1>9, <2>4 DEF AppendEvent, TypeOK
<1>10. ASSUME NEW c \in Callers, Commit(c) PROVE TypeOK'
  <2>1. request[c] \in Requests
    BY <1>10, ServedRequest DEF Commit
  <2>2. [content |-> request[c].content, by |-> c] \in Recorded
    BY <2>1 DEF Requests, Recorded
  <2>3. QED
    BY <1>10, <2>2 DEF Commit, TypeOK
<1>11. ASSUME NEW c \in Callers, Reply(c) PROVE TypeOK'
  <2>1. stage[c] # "idle" /\ queue # <<>>
    BY <1>11, ServedRequest DEF Reply
  <2>2. QED
    BY <1>11, <2>1, AnswerType DEF Reply, TypeOK, Outcomes
<1>12. CASE Crash
  BY <1>12, BoundAssumption DEF Crash, TypeOK
<1>13. CASE UNCHANGED vars
  BY <1>13 DEF vars, TypeOK
<1>14. QED
  BY <1>1, <1>2, <1>3, <1>4, <1>5, <1>6, <1>7, <1>8, <1>9, <1>10, <1>11, <1>12, <1>13
     DEF Next, Serve
-------------------------------------------------------------------------------
LEMMA AnswerOthers ==
  ASSUME TypeOK, NEW c \in Callers, NEW outcome, NEW by, Answer(c, outcome, by)
  PROVE  \A d \in Callers \ {c} : /\ stage'[d] = stage[d]
                                  /\ request'[d] = request[d]
                                  /\ answer'[d] = answer[d]
BY DEF Answer, TypeOK

LEMMA TailQueue ==
  ASSUME TypeOK, QueueInv, NEW c \in Callers, Holds(c), queue' = Tail(queue),
         \A d \in Callers \ {c} : stage'[d] = stage[d], phase' = "closed"
  PROVE  QueueInv'
<1>1. queue \in Seq(Callers) /\ queue # <<>> /\ Head(queue) = c
  BY DEF TypeOK, Holds
<1>2. Len(queue') = Len(queue) - 1 /\ \A i \in 1..Len(queue') : queue'[i] = queue[i + 1]
  BY <1>1
<1>3. \A i \in 1..Len(queue') : queue'[i] \in Callers /\ queue'[i] # c
  <2> TAKE i \in 1..Len(queue')
  <2>1. i + 1 \in 1..Len(queue) /\ 1 \in 1..Len(queue) /\ i + 1 # 1
    BY <1>1, <1>2
  <2>2. queue[1] = c
    BY <1>1
  <2>3. QED
    BY <1>1, <1>2, <2>1, <2>2 DEF QueueInv
<1>4. \A i \in 1..Len(queue') : stage'[queue'[i]] = "queued"
  <2> TAKE i \in 1..Len(queue')
  <2>1. i + 1 \in 1..Len(queue) /\ queue'[i] = queue[i + 1]
    BY <1>1, <1>2
  <2>2. QED
    BY <1>3, <2>1 DEF QueueInv
<1>5. \A i, j \in 1..Len(queue') : queue'[i] = queue'[j] => i = j
  <2> TAKE i, j \in 1..Len(queue')
  <2>1. i + 1 \in 1..Len(queue) /\ j + 1 \in 1..Len(queue)
    BY <1>1, <1>2
  <2>2. QED
    BY <1>1, <1>2, <2>1 DEF QueueInv
<1>6. QED
  BY <1>4, <1>5 DEF QueueInv

LEMMA QueueStep == TypeOK /\ QueueInv /\ [Next]_vars => QueueInv'
<1> SUFFICES ASSUME TypeOK, QueueInv, [Next]_vars
             PROVE  QueueInv'
  OBVIOUS
<1> USE DEF stored, transaction, clients
<1>q. \A c \in Callers : stage[c] # "queued" => \A i \in 1..Len(queue) : queue[i] # c
  BY DEF QueueInv
<1>t. \A i \in 1..Len(queue) : queue[i] \in Callers
  BY DEF TypeOK
<1>0. ASSUME NEW c \in Callers, stage[c] # "queued", UNCHANGED <<queue, phase>>,
             \A d \in Callers \ {c} : stage'[d] = stage[d]
      PROVE  QueueInv'
  BY <1>0, <1>q, <1>t DEF QueueInv
<1>1. ASSUME NEW c \in Callers, NEW k \in Keys, NEW s \in Shapes, Send(c, k, s)
      PROVE  QueueInv'
  BY <1>1, <1>0 DEF Send, TypeOK
<1>2. ASSUME NEW c \in Callers, Resend(c) PROVE QueueInv'
  BY <1>2, <1>0 DEF Resend, TypeOK
<1>3. ASSUME NEW c \in Callers, GiveUp(c) PROVE QueueInv'
  BY <1>3, <1>0 DEF GiveUp, TypeOK
<1>4. ASSUME NEW c \in Callers, Read(c) PROVE QueueInv'
  <2>1. stage[c] = "sent" /\ phase' = phase
    BY <1>4 DEF Read
  <2>2. CASE /\ Answer(c, "entity_not_found", c) \/ Answer(c, "revision_conflict", c)
             /\ UNCHANGED queue
    <3>1. \A d \in Callers \ {c} : stage'[d] = stage[d]
      BY <2>2, AnswerOthers
    <3>2. QED
      BY <2>1, <2>2, <3>1, <1>0
  <2>3. CASE stage' = [stage EXCEPT ![c] = "queued"] /\ queue' = Append(queue, c)
    <3>1. Len(queue') = Len(queue) + 1 /\ queue'[Len(queue) + 1] = c
          /\ \A i \in 1..Len(queue) : queue'[i] = queue[i]
      BY <2>3 DEF TypeOK
    <3>2. \A i \in 1..Len(queue) : queue[i] # c
      BY <2>1, <1>q
    <3>3. Len(queue) \in Nat /\ queue' # <<>>
      BY <2>3, <3>1 DEF TypeOK
    <3>4. \A i \in 1..Len(queue') : stage'[queue'[i]] = "queued"
      BY <2>3, <3>1, <3>2, <3>3, <1>t DEF QueueInv, TypeOK
    <3>5. \A i, j \in 1..Len(queue') : queue'[i] = queue'[j] => i = j
      BY <3>1, <3>2, <3>3 DEF QueueInv
    <3>6. QED
      BY <3>3, <3>4, <3>5 DEF QueueInv
  <2>4. QED
    BY <1>4, <2>2, <2>3 DEF Read
<1>5. ASSUME NEW c \in Callers, FindPrior(c) PROVE QueueInv'
  <2>1. \A d \in Callers \ {c} : stage'[d] = stage[d]
    BY <1>5, AnswerOthers DEF FindPrior
  <2>2. QED
    BY <1>5, <2>1, TailQueue DEF FindPrior
<1>6. ASSUME NEW c \in Callers, Begin(c) PROVE QueueInv'
  BY <1>6 DEF Begin, QueueInv, Holds
<1>7. ASSUME NEW c \in Callers, ApplyMutation(c) PROVE QueueInv'
  BY <1>7 DEF ApplyMutation, QueueInv, Holds
<1>8. ASSUME NEW c \in Callers, RollBack(c) PROVE QueueInv'
  <2>1. \A d \in Callers \ {c} : stage'[d] = stage[d]
    BY <1>8, AnswerOthers DEF RollBack
  <2>2. QED
    BY <1>8, <2>1, TailQueue DEF RollBack
<1>9. ASSUME NEW c \in Callers, AppendEvent(c) PROVE QueueInv'
  BY <1>9 DEF AppendEvent, QueueInv, Holds
<1>10. ASSUME NEW c \in Callers, Commit(c) PROVE QueueInv'
  BY <1>10 DEF Commit, QueueInv, Holds
<1>11. ASSUME NEW c \in Callers, Reply(c) PROVE QueueInv'
  <2>1. \A d \in Callers \ {c} : stage'[d] = stage[d]
    BY <1>11, AnswerOthers DEF Reply
  <2>2. QED
    BY <1>11, <2>1, TailQueue DEF Reply
<1>12. CASE Crash
  BY <1>12 DEF Crash, QueueInv
<1>13. CASE UNCHANGED vars
  BY <1>13 DEF vars, QueueInv
<1>14. QED
  BY <1>1, <1>2, <1>3, <1>4, <1>5, <1>6, <1>7, <1>8, <1>9, <1>10, <1>11, <1>12, <1>13
     DEF Next, Serve
-------------------------------------------------------------------------------
\* One more event, for the next revision of its record, extends a history.
LEMMA HistoryAppend ==
  ASSUME NEW rev \in [Rows -> Nat], NEW t \in Seq(Events), NEW e \in Events,
         HistoryOf(rev, t), e.revision = rev[e.row] + 1
  PROVE  HistoryOf([rev EXCEPT ![e.row] = @ + 1], Append(t, e))
<1> DEFINE rev1 == [rev EXCEPT ![e.row] = @ + 1]
           t1 == Append(t, e)
<1>1. /\ Len(t) \in Nat /\ Len(t1) = Len(t) + 1 /\ t1[Len(t) + 1] = e
      /\ \A i \in 1..Len(t) : t1[i] = t[i] /\ t[i] \in Events
  OBVIOUS
<1>2. e.row \in Rows /\ \A i \in 1..Len(t) : t[i].row \in Rows /\ t[i].revision \in Nat
  BY <1>1 DEF Events
<1>3. \A r \in Rows : rev1[r] = IF r = e.row THEN rev[r] + 1 ELSE rev[r]
  BY <1>2
<1> HIDE DEF rev1, t1
<1>4. \A i \in 1..Len(t1) : t1[i].revision \in 1..rev1[t1[i].row]
  <2> TAKE i \in 1..Len(t1)
  <2>1. CASE i = Len(t) + 1
    BY <2>1, <1>1, <1>2, <1>3
  <2>2. CASE i \in 1..Len(t)
    <3>1. t1[i] = t[i] /\ t[i].row \in Rows /\ t[i].revision \in 1..rev[t[i].row]
      BY <2>2, <1>1, <1>2 DEF HistoryOf
    <3>2. rev[t[i].row] \in Nat /\ rev1[t[i].row] \in {rev[t[i].row], rev[t[i].row] + 1}
      BY <3>1, <1>3
    <3>3. QED
      BY <3>1, <3>2
  <2>3. QED
    BY <2>1, <2>2, <1>1
<1>5. ASSUME NEW r \in Rows, NEW n \in 1..rev1[r]
      PROVE  \E i \in 1..Len(t1) : t1[i].row = r /\ t1[i].revision = n
  <2>1. CASE n \in 1..rev[r]
    <3>1. PICK i \in 1..Len(t) : t[i].row = r /\ t[i].revision = n
      BY <2>1 DEF HistoryOf
    <3>2. i \in 1..Len(t1) /\ t1[i] = t[i]
      BY <1>1
    <3>3. QED
      BY <3>1, <3>2
  <2>2. CASE r = e.row /\ n = rev[r] + 1
    <3>1. Len(t) + 1 \in 1..Len(t1)
      BY <1>1
    <3>2. QED
      BY <2>2, <3>1, <1>1
  <2>3. QED
    BY <2>1, <2>2, <1>3
<1>6. ASSUME NEW i \in 1..Len(t1), NEW j \in 1..Len(t1), i < j, t1[i].row = t1[j].row
      PROVE  t1[i].revision < t1[j].revision
  <2>1. i \in 1..Len(t) /\ t1[i] = t[i]
    BY <1>1, <1>6
  <2>2. CASE j \in 1..Len(t)
    BY <2>1, <2>2, <1>1, <1>6 DEF HistoryOf
  <2>3. CASE j = Len(t) + 1
    <3>1. t[i].revision \in 1..rev[t[i].row] /\ t[i].row = e.row
      BY <2>1, <2>3, <1>1, <1>6 DEF HistoryOf
    <3>2. rev[e.row] \in Nat
      BY <1>2
    <3>3. QED
      BY <2>1, <2>3, <3>1, <3>2, <1>1, <1>2
  <2>4. QED
    BY <2>2, <2>3, <1>1
<1>7. QED
  BY <1>4, <1>5, <1>6 DEF HistoryOf, rev1, t1

\* A command touches a record once: its nth mutation raises a record that is
\* still at the revision the transaction found.
LEMMA RaiseNext ==
  ASSUME TypeOK, QueueInv, NEW c \in Callers, Holds(c), NEW n \in 1..Len(PlanOf(c))
  PROVE  LET r == PlanOf(c)[n].row IN
         /\ r \in Rows
         /\ RaisedBy(n - 1)[r] = revision[r]
         /\ RaisedBy(Len(PlanOf(c)))[r] = revision[r] + 1
         /\ RaisedBy(n) = [RaisedBy(n - 1) EXCEPT ![r] = @ + 1]
         /\ RaisedBy(n - 1) \in [Rows -> Nat]
<1> DEFINE r == PlanOf(c)[n].row
<1>1. /\ c = Server /\ PlanOf(c) \in Seq(Mutations)
      /\ request[c].content.shape \in Shapes
      /\ Len(PlanOf(c)) \in Nat \ {0}
  BY ServedRequest DEF Requests, Contents
<1>2. \A i, j \in 1..Len(PlanOf(c)) : PlanOf(c)[i].row = PlanOf(c)[j].row => i = j
  BY <1>1, PlanAssumption DEF PlanOf
<1>a. PlanOf(c)[n] \in Mutations
  BY <1>1
<1>3. r \in Rows
  BY <1>a DEF Mutations
<1>4. revision \in [Rows -> Nat]
  BY DEF TypeOK
<1>5. ~\E i \in 1..(n - 1) : PlanOf(c)[i].row = r
  BY <1>1, <1>2
<1>6. \A q \in Rows : (\E i \in 1..n : PlanOf(c)[i].row = q)
                      <=> (q = r \/ \E i \in 1..(n - 1) : PlanOf(c)[i].row = q)
  BY <1>1
<1>7. RaisedBy(n - 1) \in [Rows -> Nat] /\ RaisedBy(n - 1)[r] = revision[r]
  BY <1>1, <1>3, <1>4, <1>5 DEF RaisedBy
<1>8. RaisedBy(Len(PlanOf(c)))[r] = revision[r] + 1
  BY <1>1, <1>3 DEF RaisedBy
<1>9. RaisedBy(n) = [RaisedBy(n - 1) EXCEPT ![r] = @ + 1]
  <2>1. \A q \in Rows : RaisedBy(n)[q] = IF q = r THEN RaisedBy(n - 1)[q] + 1
                                                 ELSE RaisedBy(n - 1)[q]
    BY <1>1, <1>5, <1>6 DEF RaisedBy
  <2>2. RaisedBy(n) = [q \in Rows |-> RaisedBy(n)[q]]
    BY DEF RaisedBy
  <2>3. QED
    BY <2>1, <2>2, <1>3, <1>7
<1>10. QED
  BY <1>3, <1>7, <1>8, <1>9

\* The first zero mutations of a command raise nothing.
LEMMA RaiseNone == TypeOK => RaisedBy(0) = revision
BY DEF RaisedBy, TypeOK
-------------------------------------------------------------------------------
\* What a step does not touch keeps the transaction's invariant: the records,
\* the transaction and the command being served.
LEMMA Undisturbed ==
  ASSUME TransactionInv, UNCHANGED <<stored, transaction>>,
         phase # "closed" => Server' = Server /\ request'[Server] = request[Server]
  PROVE  TransactionInv'
<1> USE DEF stored, transaction
<1>1. CASE phase = "closed"
  BY <1>1 DEF TransactionInv
<1>2. CASE phase # "closed"
  <2>1. (PlanOf(Server))' = PlanOf(Server)
    BY <1>2 DEF PlanOf
  <2>2. \A n : (RaisedBy(n))' = RaisedBy(n)
    BY <2>1 DEF RaisedBy
  <2>3. (RaisedBy(next - 1))' = RaisedBy(next - 1)
        /\ (RaisedBy(Len(PlanOf(Server))))' = RaisedBy(Len(PlanOf(Server)))
    BY <2>1, <2>2 DEF RaisedBy
  <2>4. QED
    BY <1>2, <2>1, <2>3 DEF TransactionInv, HistoryOf
<1>3. QED
  BY <1>1, <1>2

LEMMA TransactionStep ==
  IInv /\ [Next]_vars => TransactionInv' /\ TrailIsHistory'
<1> SUFFICES ASSUME IInv, [Next]_vars
             PROVE  TransactionInv' /\ TrailIsHistory'
  OBVIOUS
<1> USE DEF stored, transaction, clients
<1>t. TypeOK /\ QueueInv /\ TransactionInv /\ TrailIsHistory
  BY DEF IInv
<1>s. phase # "closed" => Server \in Callers /\ stage[Server] = "queued" /\ Holds(Server)
  BY <1>t, ServedRequest DEF QueueInv, TypeOK, Holds, Server
<1>0. ASSUME NEW c \in Callers, stage[c] # "queued", UNCHANGED <<stored, transaction, queue>>,
             \A d \in Callers \ {c} : request'[d] = request[d]
      PROVE  TransactionInv' /\ TrailIsHistory'
  <2>1. phase # "closed" => Server' = Server /\ request'[Server] = request[Server]
    BY <1>0, <1>s DEF Server
  <2>2. QED
    BY <2>1, <1>0, <1>t, Undisturbed DEF TrailIsHistory
<1>1. ASSUME NEW c \in Callers, NEW k \in Keys, NEW s \in Shapes, Send(c, k, s)
      PROVE  TransactionInv' /\ TrailIsHistory'
  BY <1>1, <1>0, <1>t DEF Send, TypeOK
<1>2. ASSUME NEW c \in Callers, Resend(c) PROVE TransactionInv' /\ TrailIsHistory'
  BY <1>2, <1>0 DEF Resend
<1>3. ASSUME NEW c \in Callers, GiveUp(c) PROVE TransactionInv' /\ TrailIsHistory'
  BY <1>3, <1>0, <1>t DEF GiveUp, TypeOK
<1>4. ASSUME NEW c \in Callers, Read(c) PROVE TransactionInv' /\ TrailIsHistory'
  BY <1>4, <1>t, Undisturbed DEF Read, TrailIsHistory
<1>5. ASSUME NEW c \in Callers, FindPrior(c) PROVE TransactionInv' /\ TrailIsHistory'
  BY <1>5, <1>t, Undisturbed DEF FindPrior, TrailIsHistory
<1>6. ASSUME NEW c \in Callers, Begin(c) PROVE TransactionInv' /\ TrailIsHistory'
  <2>1. c = Server /\ Len(PlanOf(c)) \in Nat \ {0}
    BY <1>6, <1>t, ServedRequest DEF Begin
  <2>2. Server' = Server /\ (PlanOf(Server))' = PlanOf(Server)
    BY <1>6 DEF Begin, Server, PlanOf
  <2>3. (RaisedBy(next - 1))' = revision
    <3>1. (RaisedBy(next - 1))' = RaisedBy(0)
      BY <1>6, <2>2 DEF Begin, RaisedBy
    <3>2. QED
      BY <3>1, <1>t, RaiseNone
  <2>4. phase' = "applying" /\ next' = 1 /\ viewTrail' = trail' /\ viewRevision' = revision
    BY <1>6, <1>t DEF Begin, TransactionInv
  <2>5. TrailIsHistory'
    BY <1>6, <1>t DEF Begin, TrailIsHistory
  <2>6. next' \in 1..Len((PlanOf(Server))')
    BY <2>1, <2>2, <2>4
  <2>7. commands'[(request[Server].key)'] = NoCommand
    BY <1>6, <2>1, <2>2 DEF Begin
  <2>8. QED
    BY <2>2, <2>3, <2>4, <2>5, <2>6, <2>7 DEF TransactionInv
<1>7. ASSUME NEW c \in Callers, ApplyMutation(c) PROVE TransactionInv' /\ TrailIsHistory'
  <2> DEFINE r == PlanOf(c)[next].row
  <2>1. c = Server /\ next \in 1..Len(PlanOf(c)) /\ Len(PlanOf(c)) \in Nat \ {0}
    BY <1>7, <1>t, ServedRequest, CurrentMutation DEF ApplyMutation
  <2>2. Server' = Server /\ (PlanOf(Server))' = PlanOf(Server) /\ request' = request
        /\ UNCHANGED <<stored, viewTrail>>
    BY <1>7 DEF ApplyMutation, Server, PlanOf
  <2>3. \A n : (RaisedBy(n))' = RaisedBy(n)
    BY <2>2 DEF RaisedBy
  <2>4. viewRevision' = RaisedBy(next)
    <3>1. viewRevision = RaisedBy(next - 1) /\ viewRevision' = [viewRevision EXCEPT ![r] = @ + 1]
      BY <1>7, <1>t DEF ApplyMutation, TransactionInv
    <3>2. QED
      BY <3>1, <1>7, <1>t, <2>1, RaiseNext DEF ApplyMutation
  <2>5. viewTrail' = trail' /\ phase = "applying"
        /\ commands'[(request[Server].key)'] = NoCommand
    BY <1>7, <1>t, <2>2 DEF ApplyMutation, TransactionInv
  <2>6. TrailIsHistory'
    BY <2>2, <1>t DEF TrailIsHistory
  <2>7. CASE next = Len(PlanOf(c))
    <3>1. phase' = "auditing" /\ next' = 1
      BY <1>7, <2>7 DEF ApplyMutation
    <3>2. viewRevision' = (RaisedBy(Len(PlanOf(Server))))'
      BY <2>1, <2>2, <2>3, <2>4, <2>7 DEF RaisedBy
    <3>3. (RaisedBy(next - 1))' = revision
      <4>1. (RaisedBy(next - 1))' = RaisedBy(0)
        BY <3>1, <2>2 DEF RaisedBy
      <4>2. QED
        BY <4>1, <1>t, RaiseNone
    <3>4. HistoryOf(RaisedBy(next - 1), viewTrail)'
      BY <3>3, <2>2, <2>5, <1>t DEF TrailIsHistory, HistoryOf
    <3>5. next' \in 1..Len((PlanOf(Server))')
      BY <3>1, <2>1, <2>2
    <3>6. QED
      BY <3>1, <3>2, <3>4, <3>5, <2>5, <2>6 DEF TransactionInv
  <2>8. CASE next # Len(PlanOf(c))
    <3>1. phase' = "applying" /\ next' = next + 1
      BY <1>7, <2>5, <2>8 DEF ApplyMutation
    <3>2. viewRevision' = (RaisedBy(next - 1))'
      BY <3>1, <2>1, <2>2, <2>4 DEF RaisedBy
    <3>3. next' \in 1..Len((PlanOf(Server))')
      BY <3>1, <2>1, <2>2, <2>8
    <3>4. QED
      BY <3>1, <3>2, <3>3, <2>5, <2>6 DEF TransactionInv
  <2>9. QED
    BY <2>7, <2>8
<1>8. ASSUME NEW c \in Callers, RollBack(c) PROVE TransactionInv' /\ TrailIsHistory'
  BY <1>8, <1>t DEF RollBack, TransactionInv, TrailIsHistory
<1>9. ASSUME NEW c \in Callers, AppendEvent(c) PROVE TransactionInv' /\ TrailIsHistory'
  <2> DEFINE r == PlanOf(c)[next].row
             e == [row |-> r, revision |-> viewRevision[r], key |-> request[c].key, by |-> c]
  <2>1. /\ c = Server /\ next \in 1..Len(PlanOf(c)) /\ Len(PlanOf(c)) \in Nat \ {0}
        /\ r \in Rows /\ request[c].key \in Keys
    BY <1>9, <1>t, ServedRequest, CurrentMutation DEF AppendEvent, Requests
  <2>2. Server' = Server /\ (PlanOf(Server))' = PlanOf(Server) /\ request' = request
        /\ UNCHANGED <<stored, viewRevision>> /\ viewTrail' = Append(viewTrail, e)
    BY <1>9 DEF AppendEvent, Server, PlanOf
  <2>3. /\ RaisedBy(next - 1)[r] = revision[r]
        /\ RaisedBy(Len(PlanOf(c)))[r] = revision[r] + 1
        /\ RaisedBy(next) = [RaisedBy(next - 1) EXCEPT ![r] = @ + 1]
        /\ RaisedBy(next - 1) \in [Rows -> Nat]
    BY <1>9, <1>t, <2>1, RaiseNext DEF AppendEvent
  <2>4. /\ phase = "auditing" /\ viewRevision = RaisedBy(Len(PlanOf(Server)))
        /\ HistoryOf(RaisedBy(next - 1), viewTrail)
        /\ commands'[(request[Server].key)'] = NoCommand
    BY <1>9, <1>t, <2>2 DEF AppendEvent, TransactionInv
  <2>5. e \in Events /\ e.row = r /\ e.revision = RaisedBy(next - 1)[e.row] + 1
    BY <2>1, <2>3, <2>4, <1>t DEF Events, TypeOK
  <2>6. HistoryOf(RaisedBy(next), viewTrail')
    <3>1. viewTrail \in Seq(Events)
      BY <1>t DEF TypeOK
    <3> HIDE DEF e
    <3>2. HistoryOf([RaisedBy(next - 1) EXCEPT ![e.row] = @ + 1], Append(viewTrail, e))
      BY <3>1, <2>3, <2>4, <2>5, HistoryAppend
    <3>3. QED
      BY <3>2, <2>2, <2>3, <2>5
  <2>7. viewRevision' = (RaisedBy(Len(PlanOf(Server))))'
    BY <2>2, <2>4 DEF RaisedBy
  <2>8. TrailIsHistory'
    BY <2>2, <1>t DEF TrailIsHistory
  <2>9. CASE next = Len(PlanOf(c))
    <3>1. phase' = "recording"
      BY <1>9, <2>9 DEF AppendEvent
    <3>2. HistoryOf(viewRevision, viewTrail)'
      BY <2>1, <2>2, <2>4, <2>6, <2>9
    <3>3. QED
      BY <3>1, <3>2, <2>4, <2>7, <2>8 DEF TransactionInv
  <2>10. CASE next # Len(PlanOf(c))
    <3>1. phase' = "auditing" /\ next' = next + 1
      BY <1>9, <2>4, <2>10 DEF AppendEvent
    <3>2. (RaisedBy(next - 1))' = RaisedBy(next)
      BY <3>1, <2>1, <2>2 DEF RaisedBy
    <3>3. HistoryOf(RaisedBy(next - 1), viewTrail)'
      BY <3>2, <2>6 DEF HistoryOf
    <3>4. next' \in 1..Len((PlanOf(Server))')
      BY <3>1, <2>1, <2>2, <2>10
    <3>5. QED
      BY <3>1, <3>3, <3>4, <2>4, <2>7, <2>8 DEF TransactionInv
  <2>11. QED
    BY <2>9, <2>10
<1>10. ASSUME NEW c \in Callers, Commit(c) PROVE TransactionInv' /\ TrailIsHistory'
  <2>1. c = Server /\ request[c].key \in Keys /\ Server' = Server /\ request' = request
    BY <1>10, <1>t, ServedRequest DEF Commit, Server, Requests
  <2>2. HistoryOf(viewRevision, viewTrail)
    BY <1>10, <1>t DEF Commit, TransactionInv
  <2>3. commands'[request[c].key] = [content |-> request[c].content, by |-> c]
    BY <1>10, <1>t, <2>1 DEF Commit, TypeOK
  <2>4. TrailIsHistory'
    BY <1>10, <2>2 DEF Commit, TrailIsHistory, HistoryOf
  <2>5. QED
    BY <1>10, <2>1, <2>3, <2>4 DEF Commit, TransactionInv
<1>11. ASSUME NEW c \in Callers, Reply(c) PROVE TransactionInv' /\ TrailIsHistory'
  BY <1>11, <1>t DEF Reply, TransactionInv, TrailIsHistory
<1>12. CASE Crash
  BY <1>12, <1>t DEF Crash, TransactionInv, TrailIsHistory
<1>13. CASE UNCHANGED vars
  BY <1>13, <1>t, Undisturbed DEF vars, TrailIsHistory, Server
<1>14. QED
  BY <1>1, <1>2, <1>3, <1>4, <1>5, <1>6, <1>7, <1>8, <1>9, <1>10, <1>11, <1>12, <1>13
     DEF Next, Serve
-------------------------------------------------------------------------------
\* An answer keeps the record of successes if it is not one, or is on record.
LEMMA AnswerOnRecord ==
  ASSUME SuccessIsOnRecord, TypeOK, NEW c \in Callers, NEW outcome, NEW by,
         Answer(c, outcome, by), UNCHANGED commands,
         outcome = "ok" => commands[request[c].key] =
                             [content |-> request[c].content, by |-> by]
  PROVE  SuccessIsOnRecord'
<1>1. \A d \in Callers \ {c} : answer'[d] = answer[d]
  BY AnswerOthers
<1>2. CASE answer' = [answer EXCEPT ![c] = [key     |-> request[c].key,
                                         content |-> request[c].content,
                                         outcome |-> outcome,
                                         by      |-> by]]
  <2>1. /\ answer'[c].key = request[c].key /\ answer'[c].content = request[c].content
        /\ answer'[c].outcome = outcome /\ answer'[c].by = by
    BY <1>2 DEF TypeOK
  <2>2. QED
    BY <1>1, <2>1 DEF SuccessIsOnRecord
<1>3. CASE UNCHANGED answer
  BY <1>3 DEF SuccessIsOnRecord
<1>4. QED
  BY <1>2, <1>3 DEF Answer

LEMMA SuccessStep == IInv /\ [Next]_vars => SuccessIsOnRecord'
<1> SUFFICES ASSUME IInv, [Next]_vars
             PROVE  SuccessIsOnRecord'
  OBVIOUS
<1> USE DEF stored, transaction, clients
<1>t. TypeOK /\ QueueInv /\ TransactionInv /\ SuccessIsOnRecord
  BY DEF IInv
<1>0. ASSUME UNCHANGED <<commands, answer>> PROVE SuccessIsOnRecord'
  BY <1>0, <1>t DEF SuccessIsOnRecord
<1>1. ASSUME NEW c \in Callers, NEW k \in Keys, NEW s \in Shapes, Send(c, k, s)
      PROVE  SuccessIsOnRecord'
  BY <1>1, <1>t DEF Send, SuccessIsOnRecord, TypeOK
<1>2. ASSUME NEW c \in Callers, Resend(c) PROVE SuccessIsOnRecord'
  BY <1>2, <1>0 DEF Resend
<1>3. ASSUME NEW c \in Callers, GiveUp(c) PROVE SuccessIsOnRecord'
  BY <1>3, <1>0 DEF GiveUp
<1>4. ASSUME NEW c \in Callers, Read(c) PROVE SuccessIsOnRecord'
  <2>1. UNCHANGED commands
    BY <1>4 DEF Read
  <2>2. CASE Answer(c, "entity_not_found", c)
    BY <2>1, <2>2, <1>t, AnswerOnRecord
  <2>3. CASE Answer(c, "revision_conflict", c)
    BY <2>1, <2>3, <1>t, AnswerOnRecord
  <2>4. CASE UNCHANGED answer
    BY <2>1, <2>4, <1>0
  <2>5. QED
    BY <1>4, <2>2, <2>3, <2>4 DEF Read
<1>5. ASSUME NEW c \in Callers, FindPrior(c) PROVE SuccessIsOnRecord'
  <2>1. UNCHANGED commands /\ request[c].key \in Keys
    BY <1>5, <1>t, ServedRequest DEF FindPrior, Requests
  <2>2. CASE /\ commands[request[c].key].content = request[c].content
             /\ Answer(c, "ok", commands[request[c].key].by)
    <3>1. commands[request[c].key] \in Recorded
      BY <1>5, <1>t, <2>1 DEF FindPrior, TypeOK
    <3>2. commands[request[c].key] = [content |-> request[c].content,
                                      by |-> commands[request[c].key].by]
      BY <2>2, <3>1 DEF Recorded
    <3>3. QED
      BY <2>1, <2>2, <3>2, <1>t, AnswerOnRecord
  <2>3. CASE Answer(c, "duplicate_identity", c)
    BY <2>1, <2>3, <1>t, AnswerOnRecord
  <2>4. QED
    BY <1>5, <2>2, <2>3 DEF FindPrior
<1>6. ASSUME NEW c \in Callers, Begin(c) PROVE SuccessIsOnRecord'
  BY <1>6, <1>0 DEF Begin
<1>7. ASSUME NEW c \in Callers, ApplyMutation(c) PROVE SuccessIsOnRecord'
  BY <1>7, <1>0 DEF ApplyMutation
<1>8. ASSUME NEW c \in Callers, RollBack(c) PROVE SuccessIsOnRecord'
  <2>1. UNCHANGED commands
    BY <1>8 DEF RollBack
  <2>2. PICK outcome \in {"duplicate_identity", "revision_conflict"} : Answer(c, outcome, c)
    BY <1>8 DEF RollBack
  <2>3. QED
    BY <2>1, <2>2, <1>t, AnswerOnRecord
<1>9. ASSUME NEW c \in Callers, AppendEvent(c) PROVE SuccessIsOnRecord'
  BY <1>9, <1>0 DEF AppendEvent
<1>10. ASSUME NEW c \in Callers, Commit(c) PROVE SuccessIsOnRecord'
  <2>1. /\ commands[request[c].key] = NoCommand /\ UNCHANGED answer
        /\ commands' = [commands EXCEPT ![request[c].key] =
                          [content |-> request[c].content, by |-> c]]
    BY <1>10, <1>t, ServedRequest DEF Commit, TransactionInv
  <2>2. ASSUME NEW d \in Callers, answer[d] # NoRequest, answer[d].outcome = "ok"
        PROVE  commands'[answer[d].key] = [content |-> answer[d].content, by |-> answer[d].by]
    <3>1. commands[answer[d].key] = [content |-> answer[d].content, by |-> answer[d].by]
          /\ answer[d] \in Answers
      BY <2>2, <1>t DEF SuccessIsOnRecord, TypeOK
    <3>2. [content |-> answer[d].content, by |-> answer[d].by] \in Recorded
      BY <3>1 DEF Answers, Recorded
    <3>3. answer[d].key # request[c].key
      BY <2>1, <3>1, <3>2, SentinelAssumption
    <3>4. answer[d].key \in Keys
      BY <3>1 DEF Answers
    <3>5. QED
      BY <2>1, <3>1, <3>3, <3>4, <1>t DEF TypeOK
  <2>3. QED
    BY <2>1, <2>2 DEF SuccessIsOnRecord
<1>11. ASSUME NEW c \in Callers, Reply(c) PROVE SuccessIsOnRecord'
  <2>1. commands[request[c].key] = [content |-> request[c].content, by |-> c]
    BY <1>11, <1>t, ServedRequest DEF Reply, TransactionInv
  <2>2. QED
    BY <2>1, <1>11, <1>t, AnswerOnRecord DEF Reply
<1>12. CASE Crash
  BY <1>12, <1>0 DEF Crash
<1>13. CASE UNCHANGED vars
  BY <1>13, <1>0 DEF vars
<1>14. QED
  BY <1>1, <1>2, <1>3, <1>4, <1>5, <1>6, <1>7, <1>8, <1>9, <1>10, <1>11, <1>12, <1>13
     DEF Next, Serve

-------------------------------------------------------------------------------
LEMMA InitInv == Init => IInv
<1> SUFFICES ASSUME Init PROVE IInv
  OBVIOUS
<1>1. TypeOK
  BY InitType
<1>2. QueueInv /\ SuccessIsOnRecord
  BY DEF Init, QueueInv, SuccessIsOnRecord
<1>3. TransactionInv
  BY DEF Init, TransactionInv
<1>4. TrailIsHistory
  BY DEF Init, TrailIsHistory, HistoryOf
<1>5. QED
  BY <1>1, <1>2, <1>3, <1>4 DEF IInv

\* The invariant of the store's open transaction, its tickets and its tables is
\* inductive.
THEOREM StoreInvariant == Spec => []IInv
<1>1. IInv /\ [Next]_vars => IInv'
  BY TypeStep, QueueStep, TransactionStep, SuccessStep DEF IInv
<1>2. QED
  BY InitInv, <1>1, PTL DEF Spec

\* Every variable of the store keeps its type.
THEOREM TypeCorrect == Spec => []TypeOK
<1>1. IInv => TypeOK
  BY DEF IInv
<1>2. QED
  BY StoreInvariant, <1>1, PTL

\* workspace-store.ts commit: at every moment, a crash in the middle of a commit
\* included, the audit trail is the exact history of every record's revisions.
THEOREM TrailTheorem == Spec => []TrailIsHistory
<1>1. IInv => TrailIsHistory
  BY DEF IInv
<1>2. QED
  BY StoreInvariant, <1>1, PTL

\* workspace-store.ts commit: a success that was told, first hand or to a retry,
\* is the one on record under its key.
THEOREM SuccessTheorem == Spec => []SuccessIsOnRecord
<1>1. IInv => SuccessIsOnRecord
  BY DEF IInv
<1>2. QED
  BY StoreInvariant, <1>1, PTL

-------------------------------------------------------------------------------
(***************************************************************************)
(* The store implements the ledger.  Its commit is the ledger's one step:  *)
(* what the transaction has found on its way is what the command's author  *)
(* saw, and the events it has appended are the command's audit.            *)
(***************************************************************************)

\* A command expects nothing of a record it does not update.
RequestInv ==
  \A c \in Callers : request[c] # NoRequest =>
    \A r \in Rows \ Updates(request[c].content.shape) : request[c].content.expected[r] = 0

\* The first n mutations found the records as the command's author saw them.
FoundBy(n) ==
  \A i \in 1..n : LET m == PlanOf(Server)[i] IN
    revision[m.row] = IF m.action = "insert" THEN 0 ELSE request[Server].content.expected[m.row]

\* The event of the command's ith mutation.
EventOf(i) == [row      |-> PlanOf(Server)[i].row,
               revision |-> revision[PlanOf(Server)[i].row] + 1,
               key      |-> request[Server].key,
               by       |-> Server]

\* The first n events follow the trail.
AuditedBy(n) ==
  /\ Len(viewTrail) = Len(trail) + n
  /\ \A i \in 1..Len(trail) : viewTrail[i] = trail[i]
  /\ \A i \in 1..n : viewTrail[Len(trail) + i] = EventOf(i)

CommandInv ==
  /\ phase = "applying" => FoundBy(next - 1)
  /\ phase \in {"auditing", "recording"} => FoundBy(Len(PlanOf(Server)))
  /\ phase = "auditing" => AuditedBy(next - 1)
  /\ phase = "recording" => AuditedBy(Len(PlanOf(Server)))

LedgerInv == RequestInv /\ CommandInv

LEMMA RequestStep == TypeOK /\ RequestInv /\ [Next]_vars => RequestInv'
<1> SUFFICES ASSUME TypeOK, RequestInv, [Next]_vars PROVE RequestInv'
  OBVIOUS
<1> USE DEF stored, transaction, clients
<1>0. ASSUME \A d \in Callers : request'[d] \in {request[d], NoRequest} PROVE RequestInv'
  BY <1>0 DEF RequestInv
<1>a. ASSUME NEW c \in Callers, NEW outcome, NEW by, Answer(c, outcome, by)
      PROVE  \A d \in Callers : request'[d] \in {request[d], NoRequest}
  BY <1>a DEF Answer, TypeOK
<1>1. ASSUME NEW c \in Callers, NEW k \in Keys, NEW s \in Shapes, Send(c, k, s)
      PROVE  RequestInv'
  <2>1. \A d \in Callers \ {c} : request'[d] = request[d]
    BY <1>1 DEF Send, TypeOK
  <2>2. /\ request'[c].content.shape = s
        /\ request'[c].content.expected = [r \in Rows |-> IF r \in Updates(s) THEN revision[r]
                                                                             ELSE 0]
    BY <1>1 DEF Send, TypeOK
  <2>3. QED
    BY <2>1, <2>2 DEF RequestInv, Updates
<1>2. ASSUME NEW c \in Callers, GiveUp(c) PROVE RequestInv'
  BY <1>2, <1>0 DEF GiveUp, TypeOK
<1>3. ASSUME NEW c \in Callers, Read(c) PROVE RequestInv'
  <2>1. \/ Answer(c, "entity_not_found", c) \/ Answer(c, "revision_conflict", c)
        \/ UNCHANGED request
    BY <1>3 DEF Read
  <2>2. QED
    BY <1>0, <1>a, <2>1
<1>4. ASSUME NEW c \in Callers, FindPrior(c) PROVE RequestInv'
  <2>1. \/ Answer(c, "ok", commands[request[c].key].by) \/ Answer(c, "duplicate_identity", c)
    BY <1>4 DEF FindPrior
  <2>2. QED
    BY <1>0, <1>a, <2>1
<1>5. ASSUME NEW c \in Callers, RollBack(c) PROVE RequestInv'
  <2>1. Answer(c, "duplicate_identity", c) \/ Answer(c, "revision_conflict", c)
    BY <1>5 DEF RollBack
  <2>2. QED
    BY <1>0, <1>a, <2>1
<1>6. ASSUME NEW c \in Callers, Reply(c) PROVE RequestInv'
  BY <1>6, <1>0, <1>a DEF Reply
<1>7. ASSUME UNCHANGED request PROVE RequestInv'
  BY <1>7, <1>0
<1>8. ASSUME NEW c \in Callers,
             Resend(c) \/ Begin(c) \/ ApplyMutation(c) \/ AppendEvent(c) \/ Commit(c)
      PROVE  UNCHANGED request
  BY <1>8 DEF Resend, Begin, ApplyMutation, AppendEvent, Commit
<1>9. ASSUME Crash \/ UNCHANGED vars PROVE UNCHANGED request
  BY <1>9 DEF Crash, vars
<1>10. QED
  BY <1>1, <1>2, <1>3, <1>4, <1>5, <1>6, <1>7, <1>8, <1>9 DEF Next, Serve

\* A step that leaves the records, the trail, the view of the trail and the
\* command being served alone leaves what was found and audited alone.
LEMMA Untouched ==
  ASSUME UNCHANGED <<revision, trail, viewTrail>>, Server' = Server,
         request'[Server] = request[Server], NEW n
  PROVE  /\ FoundBy(n)' <=> FoundBy(n)
         /\ AuditedBy(n)' <=> AuditedBy(n)
         /\ (PlanOf(Server))' = PlanOf(Server)
<1>1. (PlanOf(Server))' = PlanOf(Server)
  BY DEF PlanOf
<1>2. \A i : (EventOf(i))' = EventOf(i)
  BY <1>1 DEF EventOf
<1>3. FoundBy(n)' <=> FoundBy(n)
  BY <1>1 DEF FoundBy
<1>4. AuditedBy(n)' <=> AuditedBy(n)
  BY <1>2 DEF AuditedBy
<1>5. QED
  BY <1>1, <1>3, <1>4

LEMMA CommandStep == IInv /\ CommandInv /\ [Next]_vars => CommandInv'
<1> SUFFICES ASSUME IInv, CommandInv, [Next]_vars PROVE CommandInv'
  OBVIOUS
<1> USE DEF stored, transaction, clients
<1>t. TypeOK /\ QueueInv /\ TransactionInv
  BY DEF IInv
<1>s. phase # "closed" => Server \in Callers /\ stage[Server] = "queued" /\ Holds(Server)
  BY <1>t, ServedRequest DEF QueueInv, TypeOK, Holds, Server
<1>0. ASSUME phase # "closed" => Server' = Server /\ request'[Server] = request[Server],
             UNCHANGED <<stored, transaction>>
      PROVE  CommandInv'
  <2>1. CASE phase = "closed"
    BY <1>0, <2>1 DEF CommandInv
  <2>2. CASE phase # "closed"
    <3>1. \A n : /\ FoundBy(n)' <=> FoundBy(n)
                 /\ AuditedBy(n)' <=> AuditedBy(n)
                 /\ (PlanOf(Server))' = PlanOf(Server)
      BY <1>0, <2>2, Untouched
    <3>2. QED
      BY <1>0, <3>1 DEF CommandInv, FoundBy, AuditedBy, EventOf
  <2>3. QED
    BY <2>1, <2>2
<1>1. ASSUME NEW c \in Callers, stage[c] # "queued", UNCHANGED <<stored, transaction, queue>>,
             \A d \in Callers \ {c} : request'[d] = request[d]
      PROVE  CommandInv'
  BY <1>0, <1>1, <1>s DEF Server
<1>2. ASSUME NEW c \in Callers, NEW k \in Keys, NEW s \in Shapes, Send(c, k, s)
      PROVE  CommandInv'
  BY <1>2, <1>1, <1>t DEF Send, TypeOK
<1>3. ASSUME NEW c \in Callers, Resend(c) PROVE CommandInv'
  BY <1>3, <1>1 DEF Resend
<1>4. ASSUME NEW c \in Callers, GiveUp(c) PROVE CommandInv'
  BY <1>4, <1>1, <1>t DEF GiveUp, TypeOK
<1>5. ASSUME phase' \in {"closed", "committed"} PROVE CommandInv'
  BY <1>5 DEF CommandInv
<1>6. ASSUME NEW c \in Callers, Read(c) \/ FindPrior(c) \/ RollBack(c) \/ Commit(c) \/ Reply(c)
      PROVE  phase' \in {"closed", "committed"}
  BY <1>6 DEF Read, FindPrior, RollBack, Commit, Reply
<1>7. ASSUME Crash PROVE phase' \in {"closed", "committed"}
  BY <1>7 DEF Crash
<1>8. ASSUME NEW c \in Callers, Begin(c) PROVE CommandInv'
  <2>1. phase' = "applying" /\ next' = 1
    BY <1>8 DEF Begin
  <2>2. FoundBy(next - 1)'
    BY <2>1 DEF FoundBy
  <2>3. QED
    BY <2>1, <2>2 DEF CommandInv
<1>9. ASSUME NEW c \in Callers, ApplyMutation(c) PROVE CommandInv'
  <2> DEFINE m == PlanOf(c)[next]
  <2>1. /\ c = Server /\ next \in 1..Len(PlanOf(c)) /\ Len(PlanOf(c)) \in Nat \ {0}
        /\ m.row \in Rows
    BY <1>9, <1>t, ServedRequest, CurrentMutation DEF ApplyMutation
  <2>2. /\ UNCHANGED <<revision, trail, viewTrail>> /\ Server' = Server /\ request' = request
        /\ phase = "applying"
    BY <1>9 DEF ApplyMutation, Server
  <2>3. viewRevision[m.row] = revision[m.row]
    BY <1>9, <1>t, <2>1, <2>2, RaiseNext DEF ApplyMutation, TransactionInv
  <2>4. revision[m.row] = IF m.action = "insert" THEN 0
                                               ELSE request[Server].content.expected[m.row]
    BY <1>9, <2>1, <2>3 DEF ApplyMutation, Admits
  <2>5. FoundBy(next)
    <3>1. FoundBy(next - 1)
      BY <2>2 DEF CommandInv
    <3>2. \A i \in 1..next : i \in 1..(next - 1) \/ i = next
      BY <2>1
    <3>3. QED
      BY <2>1, <2>4, <3>1, <3>2 DEF FoundBy
  <2>6. \A n : /\ FoundBy(n)' <=> FoundBy(n)
               /\ AuditedBy(n)' <=> AuditedBy(n)
               /\ (PlanOf(Server))' = PlanOf(Server)
    BY <2>2, Untouched
  <2>7. CASE next = Len(PlanOf(c))
    <3>1. phase' = "auditing" /\ next' = 1
      BY <1>9, <2>7 DEF ApplyMutation
    <3>2. FoundBy(Len(PlanOf(Server)))'
      BY <2>1, <2>5, <2>6, <2>7 DEF FoundBy
    <3>3. viewTrail = trail /\ Len(trail) \in Nat
      BY <1>t, <2>2 DEF TransactionInv, TypeOK
    <3>4. AuditedBy(next - 1)'
      BY <2>2, <3>1, <3>3 DEF AuditedBy
    <3>5. QED
      BY <3>1, <3>2, <3>4 DEF CommandInv
  <2>8. CASE next # Len(PlanOf(c))
    <3>1. phase' = "applying" /\ next' = next + 1 /\ next' - 1 = next
      BY <1>9, <2>1, <2>2, <2>8 DEF ApplyMutation
    <3>2. FoundBy(next - 1)'
      BY <2>5, <2>6, <3>1 DEF FoundBy
    <3>3. QED
      BY <3>1, <3>2 DEF CommandInv
  <2>9. QED
    BY <2>7, <2>8
<1>10. ASSUME NEW c \in Callers, AppendEvent(c) PROVE CommandInv'
  <2> DEFINE m == PlanOf(c)[next]
             e == [row |-> m.row, revision |-> viewRevision[m.row], key |-> request[c].key,
                   by |-> c]
  <2>1. /\ c = Server /\ next \in 1..Len(PlanOf(c)) /\ Len(PlanOf(c)) \in Nat \ {0}
        /\ phase = "auditing"
    BY <1>10, <1>t, ServedRequest, CurrentMutation DEF AppendEvent
  <2>2. /\ UNCHANGED <<revision, trail>> /\ Server' = Server /\ request' = request
        /\ viewTrail' = Append(viewTrail, e)
    BY <1>10 DEF AppendEvent, Server
  <2>3. viewRevision[m.row] = revision[m.row] + 1
    BY <1>10, <1>t, <2>1, RaiseNext DEF AppendEvent, TransactionInv
  <2>4. e = EventOf(next)
    BY <2>1, <2>3 DEF EventOf
  <2>5. (PlanOf(Server))' = PlanOf(Server) /\ \A i : (EventOf(i))' = EventOf(i)
    BY <2>2 DEF PlanOf, EventOf
  <2>6. FoundBy(Len(PlanOf(Server)))'
    <3>1. FoundBy(Len(PlanOf(Server)))
      BY <2>1 DEF CommandInv
    <3>2. QED
      BY <2>2, <2>5, <3>1 DEF FoundBy
  <2>7. /\ Len(viewTrail') = Len(trail) + next
        /\ \A i \in 1..Len(trail) : viewTrail'[i] = trail[i]
        /\ \A i \in 1..next : viewTrail'[Len(trail) + i] = EventOf(i)
    <3>1. AuditedBy(next - 1)
      BY <2>1 DEF CommandInv
    <3>2. Len(trail) \in Nat /\ viewTrail \in Seq(Events) /\ Len(viewTrail) = Len(trail) + next - 1
      BY <1>t, <2>1, <3>1 DEF TypeOK, AuditedBy
    <3> HIDE DEF e
    <3>3. /\ Len(viewTrail') = Len(viewTrail) + 1 /\ viewTrail'[Len(viewTrail) + 1] = e
          /\ \A i \in 1..Len(viewTrail) : viewTrail'[i] = viewTrail[i]
      BY <2>2, <3>2
    <3>4. Len(viewTrail') = Len(trail) + next
      BY <2>1, <3>2, <3>3
    <3>5. ASSUME NEW i \in 1..Len(trail) PROVE viewTrail'[i] = trail[i]
      BY <2>1, <3>1, <3>2, <3>3 DEF AuditedBy
    <3>6. ASSUME NEW i \in 1..next PROVE viewTrail'[Len(trail) + i] = EventOf(i)
      <4>1. CASE i = next
        BY <2>1, <2>4, <3>2, <3>3, <4>1
      <4>2. CASE i \in 1..(next - 1)
        <5>1. viewTrail[Len(trail) + i] = EventOf(i)
          BY <3>1, <4>2 DEF AuditedBy
        <5>2. Len(trail) + i \in 1..Len(viewTrail)
          BY <2>1, <3>2, <4>2
        <5>3. QED
          BY <3>3, <5>1, <5>2
      <4>3. QED
        BY <2>1, <4>1, <4>2
    <3>7. QED
      BY <3>4, <3>5, <3>6
  <2>8. CASE next = Len(PlanOf(c))
    <3>1. phase' = "recording"
      BY <1>10, <2>8 DEF AppendEvent
    <3>2. AuditedBy(Len(PlanOf(Server)))'
      BY <2>1, <2>2, <2>5, <2>7, <2>8 DEF AuditedBy
    <3>3. QED
      BY <3>1, <3>2, <2>6 DEF CommandInv
  <2>9. CASE next # Len(PlanOf(c))
    <3>1. phase' = "auditing" /\ next' = next + 1 /\ next' - 1 = next
      BY <1>10, <2>1, <2>9 DEF AppendEvent
    <3>2. AuditedBy(next - 1)'
      BY <2>2, <2>5, <2>7, <3>1 DEF AuditedBy
    <3>3. QED
      BY <3>1, <3>2, <2>6 DEF CommandInv
  <2>10. QED
    BY <2>8, <2>9
<1>11. CASE UNCHANGED vars
  BY <1>11, <1>0 DEF vars, Server
<1>12. QED
  BY <1>2, <1>3, <1>4, <1>5, <1>6, <1>7, <1>8, <1>9, <1>10, <1>11 DEF Next, Serve

-------------------------------------------------------------------------------
\* The commit of a transaction is the effect of its command.
LEMMA CommitTakesEffect ==
  ASSUME IInv, LedgerInv, NEW c \in Callers, Commit(c)
  PROVE  \E k \in Keys, s \in Shapes : Ledger!TakeEffect(c, k, s)
<1> DEFINE k == request[c].key
           s == request[c].content.shape
           plan == Plan[s]
<1>t. TypeOK /\ QueueInv /\ TransactionInv /\ RequestInv /\ CommandInv
  BY DEF IInv, LedgerInv
<1>1. /\ c = Server /\ Holds(c) /\ request[c] \in Requests /\ phase = "recording"
      /\ plan \in Seq(Mutations) /\ Len(plan) \in Nat \ {0} /\ PlanOf(c) = plan
      /\ PlanOf(Server) = plan
  BY <1>t, ServedRequest DEF Commit, PlanOf
<1>2. /\ k \in Keys /\ s \in Shapes /\ DOMAIN plan = 1..Len(plan)
      /\ request[c].content.expected \in [Rows -> Nat]
      /\ request[c].content = [shape |-> s, expected |-> request[c].content.expected]
  BY <1>1 DEF Requests, Contents
<1>3. \A i \in 1..Len(plan) : plan[i].row \in Rows /\ plan[i].action \in {"insert", "update"}
  <2> TAKE i \in 1..Len(plan)
  <2>1. plan[i] \in Mutations
    BY <1>1
  <2>2. QED
    BY <2>1 DEF Mutations
<1>4. \A i \in 1..Len(plan) :
        revision[plan[i].row] = IF plan[i].action = "insert" THEN 0
                                ELSE request[c].content.expected[plan[i].row]
  BY <1>1, <1>t DEF CommandInv, FoundBy
<1>5. Ledger!Permitted(s)
  BY <1>2, <1>4 DEF Ledger!Permitted
<1>6. revision' = Ledger!Raised(s)
  <2>1. revision' = RaisedBy(Len(PlanOf(Server)))
    BY <1>1, <1>t DEF Commit, TransactionInv
  <2>2. RaisedBy(Len(PlanOf(Server))) =
          [r \in Rows |-> IF \E i \in 1..Len(plan) : plan[i].row = r THEN revision[r] + 1
                                                                    ELSE revision[r]]
    BY <1>1 DEF RaisedBy
  <2>3. \A r \in Rows : r \in Ledger!Touched(s) <=> \E i \in 1..Len(plan) : plan[i].row = r
    BY <1>2 DEF Ledger!Touched
  <2>4. QED
    BY <2>1, <2>2, <2>3 DEF Ledger!Raised
<1>7. trail' = trail \o Ledger!AuditOf(s, k, c)
  <2> DEFINE events == Ledger!AuditOf(s, k, c)
  <2>1. events = [i \in 1..Len(plan) |-> [row      |-> plan[i].row,
                                          revision |-> revision[plan[i].row] + 1,
                                          key      |-> k,
                                          by       |-> c]]
    <3>1. \A i \in 1..Len(plan) : Ledger!Raised(s)[plan[i].row] = revision[plan[i].row] + 1
      BY <1>2, <1>3 DEF Ledger!Raised, Ledger!Touched
    <3>2. QED
      BY <3>1, <1>2 DEF Ledger!AuditOf
  <2> HIDE DEF events
  <2>2. ASSUME NEW i \in 1..Len(plan) PROVE events[i] = EventOf(i) /\ events[i] \in Events
    <3>1. events[i] = [row |-> plan[i].row, revision |-> revision[plan[i].row] + 1,
                       key |-> k, by |-> c]
      BY <2>1
    <3>2. EventOf(i) = events[i]
      BY <3>1, <1>1 DEF EventOf
    <3>3. revision[plan[i].row] + 1 \in Nat
      BY <1>3, <1>t DEF TypeOK
    <3>4. plan[i].row \in Rows /\ k \in Keys /\ c \in Callers
      BY <1>2, <1>3
    <3> HIDE DEF plan, k
    <3>5. [row |-> plan[i].row, revision |-> revision[plan[i].row] + 1, key |-> k, by |-> c]
            \in Events
      BY <3>3, <3>4 DEF Events
    <3>6. QED
      BY <3>1, <3>2, <3>5
  <2>3. events \in Seq(Events) /\ Len(events) = Len(plan)
    <3>1. events \in [1..Len(plan) -> Events] /\ Len(plan) \in Nat
      BY <2>1, <2>2, <1>1
    <3> HIDE DEF plan
    <3>2. QED
      BY <3>1
  <2>4. /\ trail' = viewTrail /\ trail \in Seq(Events) /\ viewTrail \in Seq(Events)
        /\ AuditedBy(Len(plan))
    BY <1>1, <1>t DEF Commit, CommandInv, TypeOK
  <2>5. /\ trail \o events \in Seq(Events) /\ Len(trail \o events) = Len(trail) + Len(plan)
        /\ \A i \in 1..Len(trail) + Len(plan) :
             (trail \o events)[i] = IF i <= Len(trail) THEN trail[i] ELSE events[i - Len(trail)]
    <3>1. /\ trail \o events \in Seq(Events)
          /\ Len(trail \o events) = Len(trail) + Len(events)
          /\ \A i \in 1..Len(trail) + Len(events) : (trail \o events)[i] =
               IF i <= Len(trail) THEN trail[i] ELSE events[i - Len(trail)]
      BY <2>3, <2>4, ConcatProperties
    <3>2. QED
      BY <3>1, <2>3
  <2>6. /\ Len(viewTrail) = Len(trail) + Len(plan)
        /\ Len(trail) \in Nat /\ Len(plan) \in Nat /\ Len(viewTrail) \in Nat
    <3>1. Len(viewTrail) = Len(trail) + Len(plan) /\ Len(trail) \in Nat
      BY <2>4 DEF AuditedBy
    <3>2. Len(plan) \in Nat
      BY <1>1
    <3> HIDE DEF plan
    <3>3. QED
      BY <3>1, <3>2
  <2>7. ASSUME NEW i \in 1..Len(viewTrail) PROVE viewTrail[i] = (trail \o events)[i]
    <3>1. CASE i <= Len(trail)
      BY <3>1, <2>4, <2>5, <2>6 DEF AuditedBy
    <3>2. CASE i > Len(trail)
      <4>1. PICK j \in 1..Len(plan) : i = Len(trail) + j /\ j = i - Len(trail)
        <5> HIDE DEF plan
        <5>1. i - Len(trail) \in 1..Len(plan) /\ i = Len(trail) + (i - Len(trail))
          BY <3>2, <2>6
        <5>2. QED
          BY <5>1
      <4>2. viewTrail[i] = EventOf(j)
        BY <4>1, <2>4 DEF AuditedBy
      <4>3. events[j] = EventOf(j)
        BY <4>1, <2>2
      <4>4. (trail \o events)[i] = events[j]
        BY <3>2, <4>1, <2>5, <2>6
      <4>5. QED
        BY <4>2, <4>3, <4>4
    <3>3. i \in Nat /\ Len(trail) \in Nat
      BY <2>6
    <3>4. i <= Len(trail) \/ i > Len(trail)
      BY <3>3
    <3>5. QED
      BY <3>1, <3>2, <3>4
  <2>8. QED
    BY <2>4, <2>5, <2>6, <2>7, SeqEqual DEF events
<1>8. request[c].content.expected = Ledger!Seen(s)
  <2>1. ASSUME NEW r \in Rows
        PROVE  request[c].content.expected[r] =
                 IF \E i \in DOMAIN plan : plan[i].row = r /\ plan[i].action = "update"
                 THEN revision[r] ELSE 0
    <3>1. CASE \E i \in 1..Len(plan) : plan[i].row = r /\ plan[i].action = "update"
      BY <3>1, <1>2, <1>4
    <3>2. CASE ~\E i \in 1..Len(plan) : plan[i].row = r /\ plan[i].action = "update"
      <4>1. r \notin Updates(s)
        BY <3>2 DEF Updates
      <4>2. request[c] # NoRequest
        BY <1>1, SentinelAssumption
      <4>3. QED
        BY <4>1, <4>2, <3>2, <1>2, <1>t DEF RequestInv
    <3>3. QED
      BY <3>1, <3>2
  <2>2. QED
    BY <2>1, <1>2 DEF Ledger!Seen
<1>9. commands[k] = NoCommand /\ UNCHANGED answer
      /\ commands' = [commands EXCEPT ![k] = [content |-> [shape |-> s, expected |-> Ledger!Seen(s)],
                                              by |-> c]]
  BY <1>1, <1>2, <1>8, <1>t DEF Commit, TransactionInv, clients
<1>10. Ledger!TakeEffect(c, k, s)
  BY <1>5, <1>6, <1>7, <1>9 DEF Ledger!TakeEffect
<1>11. QED
  BY <1>2, <1>10

\* An answer tells what is on record, or refuses, or is lost.
LEMMA AnswerTells ==
  ASSUME TypeOK, NEW c \in Callers, NEW outcome \in Outcomes, NEW by, Answer(c, outcome, by),
         UNCHANGED stored, request[c] \in Requests,
         outcome = "ok" => commands[request[c].key] = [content |-> request[c].content, by |-> by],
         by \in Callers
  PROVE  Ledger!Next \/ UNCHANGED Ledger!vars
<1>1. CASE UNCHANGED answer
  BY <1>1 DEF Ledger!vars, stored
<1>2. ASSUME answer' = [answer EXCEPT ![c] = [key     |-> request[c].key,
                                           content |-> request[c].content,
                                           outcome |-> outcome,
                                           by      |-> by]]
      PROVE  Ledger!Next
  <2>1. CASE outcome = "ok"
    <3>1. request[c].key \in Keys /\ request[c].content \in Contents
      BY DEF Requests
    <3>2. [content |-> request[c].content, by |-> by] \in Recorded
      BY <3>1 DEF Recorded
    <3>3. /\ commands[request[c].key] # NoCommand
          /\ commands[request[c].key].content = request[c].content
          /\ commands[request[c].key].by = by
      BY <2>1, <3>2, SentinelAssumption
    <3>4. Ledger!TellSuccess(c, request[c].key)
      BY <1>2, <2>1, <3>3 DEF Ledger!TellSuccess, stored
    <3>5. QED
      BY <3>1, <3>4 DEF Ledger!Next
  <2>2. CASE outcome # "ok"
    <3> DEFINE told == [key |-> request[c].key, content |-> request[c].content,
                        outcome |-> outcome, by |-> by]
    <3>1. answer'[c] = told
      BY <1>2 DEF TypeOK
    <3>2. told \in Answers /\ told.outcome \in Ledger!Refusals
      BY <2>2 DEF Answers, Requests, Outcomes, Ledger!Refusals
    <3>3. answer'[c] # NoRequest /\ answer'[c].outcome \in Ledger!Refusals
      BY <3>1, <3>2, SentinelAssumption
    <3>4. Ledger!TellRefusal(c)
      BY <1>2, <3>1, <3>3 DEF Ledger!TellRefusal, stored
    <3>5. QED
      BY <3>4 DEF Ledger!Next
  <2>3. QED
    BY <2>1, <2>2
<1>3. QED
  BY <1>1, <1>2 DEF Answer

LEMMA LedgerStep == IInv /\ LedgerInv /\ [Next]_vars => [Ledger!Next]_(Ledger!vars)
<1> SUFFICES ASSUME IInv, LedgerInv, [Next]_vars PROVE Ledger!Next \/ UNCHANGED Ledger!vars
  OBVIOUS
<1>t. TypeOK /\ QueueInv /\ TransactionInv
  BY DEF IInv
<1>0. ASSUME UNCHANGED <<stored, answer>> PROVE UNCHANGED Ledger!vars
  BY <1>0 DEF Ledger!vars, stored
<1>1. ASSUME NEW c \in Callers, NEW k \in Keys, NEW s \in Shapes, Send(c, k, s)
      PROVE  Ledger!Next
  <2>1. Ledger!AskAgain(c)
    BY <1>1 DEF Send, Ledger!AskAgain, stored
  <2>2. QED
    BY <2>1 DEF Ledger!Next
<1>2. ASSUME NEW c \in Callers,
             Resend(c) \/ GiveUp(c) \/ Begin(c) \/ ApplyMutation(c) \/ AppendEvent(c)
      PROVE  UNCHANGED Ledger!vars
  BY <1>0, <1>2 DEF Resend, GiveUp, Begin, ApplyMutation, AppendEvent, clients
<1>3. ASSUME NEW c \in Callers, Read(c) PROVE Ledger!Next \/ UNCHANGED Ledger!vars
  <2>1. request[c] \in Requests /\ UNCHANGED stored
    BY <1>3, <1>t DEF Read, TypeOK
  <2>2. CASE Answer(c, "entity_not_found", c)
    BY <2>1, <2>2, <1>t, AnswerTells DEF Outcomes
  <2>3. CASE Answer(c, "revision_conflict", c)
    BY <2>1, <2>3, <1>t, AnswerTells DEF Outcomes
  <2>4. CASE UNCHANGED answer
    BY <1>0, <2>1, <2>4
  <2>5. QED
    BY <1>3, <2>2, <2>3, <2>4 DEF Read
<1>4. ASSUME NEW c \in Callers, FindPrior(c) PROVE Ledger!Next \/ UNCHANGED Ledger!vars
  <2>1. request[c] \in Requests /\ request[c].key \in Keys /\ UNCHANGED stored
    BY <1>4, <1>t, ServedRequest DEF FindPrior, Requests
  <2>2. commands[request[c].key] \in Recorded
    BY <1>4, <1>t, <2>1 DEF FindPrior, TypeOK
  <2>3. CASE /\ commands[request[c].key].content = request[c].content
             /\ Answer(c, "ok", commands[request[c].key].by)
    <3>1. /\ commands[request[c].key] = [content |-> request[c].content,
                                         by |-> commands[request[c].key].by]
          /\ commands[request[c].key].by \in Callers
      BY <2>2, <2>3 DEF Recorded
    <3>2. QED
      BY <2>1, <2>3, <3>1, <1>t, AnswerTells DEF Outcomes
  <2>4. CASE Answer(c, "duplicate_identity", c)
    BY <2>1, <2>4, <1>t, AnswerTells DEF Outcomes
  <2>5. QED
    BY <1>4, <2>3, <2>4 DEF FindPrior
<1>5. ASSUME NEW c \in Callers, RollBack(c) PROVE Ledger!Next \/ UNCHANGED Ledger!vars
  <2>1. request[c] \in Requests /\ UNCHANGED stored
    BY <1>5, <1>t, ServedRequest DEF RollBack
  <2>2. Answer(c, "duplicate_identity", c) \/ Answer(c, "revision_conflict", c)
    BY <1>5 DEF RollBack
  <2>3. CASE Answer(c, "duplicate_identity", c)
    BY <2>1, <2>3, <1>t, AnswerTells DEF Outcomes
  <2>4. CASE Answer(c, "revision_conflict", c)
    BY <2>1, <2>4, <1>t, AnswerTells DEF Outcomes
  <2>5. QED
    BY <2>2, <2>3, <2>4
<1>6. ASSUME NEW c \in Callers, Reply(c) PROVE Ledger!Next \/ UNCHANGED Ledger!vars
  <2>1. request[c] \in Requests /\ UNCHANGED stored /\ Answer(c, "ok", c)
    BY <1>6, <1>t, ServedRequest DEF Reply
  <2>2. commands[request[c].key] = [content |-> request[c].content, by |-> c]
    BY <1>6, <1>t, ServedRequest DEF Reply, TransactionInv
  <2>3. QED
    BY <2>1, <2>2, <1>t, AnswerTells DEF Outcomes
<1>7. ASSUME NEW c \in Callers, Commit(c) PROVE Ledger!Next
  BY <1>7, CommitTakesEffect DEF Ledger!Next
<1>8. CASE Crash
  BY <1>0, <1>8 DEF Crash
<1>9. CASE UNCHANGED vars
  BY <1>0, <1>9 DEF vars, clients
<1>10. QED
  BY <1>1, <1>2, <1>3, <1>4, <1>5, <1>6, <1>7, <1>8, <1>9 DEF Next, Serve

\* What the transaction has found and audited so far: the inductive invariant
\* the refinement rests on.
THEOREM LedgerInvariant == Spec => [](IInv /\ LedgerInv)
<1>1. Init => IInv /\ LedgerInv
  BY InitInv DEF Init, LedgerInv, RequestInv, CommandInv
<1>2. IInv /\ LedgerInv /\ [Next]_vars => (IInv /\ LedgerInv)'
  BY TypeStep, QueueStep, TransactionStep, SuccessStep, RequestStep, CommandStep
     DEF IInv, LedgerInv
<1>3. QED
  BY <1>1, <1>2, PTL DEF Spec

\* workspace-store.ts commit, with its tickets, its transaction and its crashes,
\* does what module CommandLedger promises: a command takes effect as a whole at
\* the revisions its author saw, or leaves no trace.
THEOREM StoreImplementsLedger == Spec => ImplementsLedger
<1>1. Init => Ledger!Init
  BY DEF Init, Ledger!Init
<1>2. QED
  BY <1>1, LedgerStep, LedgerInvariant, PTL DEF Spec, ImplementsLedger, Ledger!Spec
===============================================================================
