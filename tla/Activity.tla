------------------------------- MODULE Activity -------------------------------
(***************************************************************************)
(* How a page learns what the workspace holds, and how a user's follow-up    *)
(* reaches a child.  Every commit appends one event (WorkspaceStore).  The   *)
(* page streams the events (sse.ts, useActivityStream of App.tsx) and reads  *)
(* the snapshot anew (server.ts) whenever one arrives, whenever the stream   *)
(* is connected, and after each of its own commands (useRefresh, api.ts).    *)
(* A follow-up is an event, too: the child's parent looks for it among the   *)
(* newest events (context of http-provider.ts), sends the message and        *)
(* records that it has (followup of children.ts).  Connections are lost and  *)
(* the server restarts.                                                      *)
(***************************************************************************)
EXTENDS Naturals, Sequences, FiniteSets, FiniteSetsExt

CONSTANTS
  Requests,    \* follow-ups users ask for
  Deliveries,  \* calls of the tool that delivers them, running side by side
  None,        \* no request, no session
  Window,      \* newest events a snapshot holds (1000)
  PollLimit,   \* events one poll of a stream reads (100)
  MaxEvents,   \* bound: events
  MaxDisturbances \* bound: lost connections, restarts and failed deliveries

ASSUME ActivityAssumption ==
  /\ None \notin Requests
  /\ Window \in Nat \ {0} /\ PollLimit \in Nat \ {0} /\ MaxEvents \in Nat \ {0}
  /\ MaxDisturbances \in Nat

VARIABLES
  events,   \* domain_events: the commits, in order
  server,   \* its process: up or not, and how often it has been started again
  stream,   \* the connection of the page's EventSource, at both ends
  page,     \* the page: its snapshot, the one it fetches, its session and command
  delivery, \* calls of child_followup
  sent,     \* how often each request's message has been sent to the child
  disturbed \* how often something has been lost or has failed

activityVars == <<events, server, stream, page, delivery, sent, disturbed>>
parent == <<delivery, sent>>

-----------------------------------------------------------------------------
\* An event is a source's or an operation's; some operations' are follow-ups.
Events == [kind : {"source", "operation"}, request : {None}]
            \cup [kind : {"requested", "delivered"}, request : Requests]
Plain(kind) == [kind |-> kind, request |-> None]

\* GET /snapshot reads its lists one by one, the events after the records.
Reads == <<"sources", "operations", "events">>
Changes(event, list) ==
  \/ list = "events"
  \/ list = "sources" /\ event.kind = "source"
  \/ list = "operations" /\ event.kind # "source"

\* What is read of a list is told apart by the event that changed it last.
Version(list) == Max({0} \cup {i \in 1..Len(events) : Changes(events[i], list)})

CommitEvent(event) == Len(events) < MaxEvents /\ events' = Append(events, event)

NoStream == [state |-> "none", cursor |-> 0, polls |-> {}, wire |-> <<>>,
             opened |-> FALSE, last |-> 0]
NoFetch == [step |-> "none", got |-> <<>>, retried |-> FALSE]
Fetching(retried) == [step |-> "reading", got |-> <<>>, retried |-> retried]
NoDelivery == [step |-> "free", request |-> None]

\* A page that has just loaded, of a workspace just created.
ActivityInit ==
  /\ events = <<Plain("source")>>
  /\ server = [up |-> TRUE, start |-> 0]
  /\ stream = NoStream
  /\ page = [shown |-> [i \in 1..Len(Reads) |-> Version(Reads[i])], fetch |-> NoFetch, session |-> None,
             asks |-> None]
  /\ delivery = [c \in Deliveries |-> NoDelivery]
  /\ sent = [r \in Requests |-> 0]
  /\ disturbed = 0

-----------------------------------------------------------------------------
\* The snapshot.

\* invalidateQueries cancels the fetch in flight and begins another one.
\* Fault: a fetch in flight is left to finish.
RefreshUnlessBusy(p) == IF p.fetch.step = "reading" THEN p ELSE [p EXCEPT !.fetch = Fetching(FALSE)]
Refresh(p) == [p EXCEPT !.fetch = Fetching(FALSE)]

ReadList ==
  /\ server.up /\ page.fetch.step = "reading" /\ Len(page.fetch.got) < Len(Reads)
  /\ page' = [page EXCEPT !.fetch.got = Append(@, Version(Reads[Len(@) + 1]))]
  /\ UNCHANGED <<events, server, stream, parent, disturbed>>

Show ==
  /\ page.fetch.step = "reading" /\ Len(page.fetch.got) = Len(Reads)
  /\ page' = [page EXCEPT !.shown = page.fetch.got, !.fetch = NoFetch]
  /\ UNCHANGED <<events, server, stream, parent, disturbed>>

\* A fetch that the server's end has cut off is tried once more, and given up
\* where the server is still away.
Retry ==
  /\ page.fetch.step = "lost"
  /\ page' = [page EXCEPT !.fetch =
                IF server.up /\ ~page.fetch.retried THEN Fetching(TRUE) ELSE NoFetch]
  /\ UNCHANGED <<events, server, stream, parent, disturbed>>

-----------------------------------------------------------------------------
\* The stream.  Its address names the cursor 0, which the server prefers to the
\* last event the browser names when it connects again.

Connect ==
  /\ server.up /\ stream.state = "none"
  /\ stream' = [NoStream EXCEPT !.state = "opening"]
  /\ UNCHANGED <<events, server, page, parent, disturbed>>

\* poll: reads the events after the cursor unless a poll is under way.  The
\* first is awaited, a timer begins the others.
\* Fault: a page is taken to be full.
PageFull(cursor) == [from |-> cursor + 1, to |-> cursor + PollLimit]
Page(cursor) ==
  [from |-> cursor + 1,
   to |-> IF Len(events) < cursor + PollLimit THEN Len(events) ELSE cursor + PollLimit]
\* Fault: a tick of the timer polls though the poll before has not ended.
PollUnguarded ==
  /\ stream.state \in {"opening", "serving"}
  /\ stream.state = "opening" => stream.polls = {}
  /\ stream.cursor < Len(events)
  /\ stream' = [stream EXCEPT !.polls = @ \cup {[tick |-> Cardinality(@), page |-> Page(stream.cursor)]}]
  /\ Cardinality(stream.polls) < 2
  /\ UNCHANGED <<events, server, page, parent, disturbed>>
Poll ==
  /\ stream.state \in {"opening", "serving"} /\ stream.polls = {}
  /\ stream.cursor < Len(events)
  /\ stream' = [stream EXCEPT !.polls = {[tick |-> 0, page |-> Page(stream.cursor)]}]
  /\ UNCHANGED <<events, server, page, parent, disturbed>>

Write(poll) ==
  /\ poll \in stream.polls
  /\ stream' = [stream EXCEPT !.polls = @ \ {poll}, !.cursor = poll.page.to,
                              !.state = "serving",
                              !.wire = @ \o [i \in 1..(poll.page.to - poll.page.from + 1) |->
                                               poll.page.from + i - 1]]
  /\ UNCHANGED <<events, server, page, parent, disturbed>>

\* The first thing written carries the headers, on which the page refreshes.
Opened ==
  /\ stream.state = "serving" /\ ~stream.opened
  /\ stream' = [stream EXCEPT !.opened = TRUE]
  /\ page' = Refresh(page)
  /\ UNCHANGED <<events, server, parent, disturbed>>

Receive ==
  /\ stream.opened /\ stream.wire # <<>>
  /\ stream' = [stream EXCEPT !.wire = Tail(@), !.last = Head(stream.wire)]
  /\ page' = Refresh(page)
  /\ UNCHANGED <<events, server, parent, disturbed>>

-----------------------------------------------------------------------------
\* What goes wrong.

Disturb == disturbed < MaxDisturbances /\ disturbed' = disturbed + 1

Drop ==
  /\ stream.state # "none" /\ Disturb
  /\ stream' = NoStream
  /\ UNCHANGED <<events, server, page, parent>>

\* The server's end cuts off all that is under way; the host's calls fail.
Lost(fetch) == IF fetch.step = "reading" THEN [fetch EXCEPT !.step = "lost", !.got = <<>>] ELSE fetch
Down ==
  /\ server.up /\ Disturb
  /\ server' = [server EXCEPT !.up = FALSE]
  /\ stream' = NoStream
  /\ page' = [page EXCEPT !.fetch = Lost(@), !.asks = None]
  /\ UNCHANGED <<events, parent>>

Up ==
  /\ ~server.up
  /\ server' = [up |-> TRUE, start |-> server.start + 1]
  /\ UNCHANGED <<events, stream, page, parent, disturbed>>

-----------------------------------------------------------------------------
\* Commands.  The page asks for the token of its commands once, with the first,
\* and keeps what it was told; a server started again has another token.

AskFollowUp(r) ==
  /\ server.up /\ page.asks = None
  /\ \A i \in 1..Len(events) : events[i].request # r
  /\ page' = [page EXCEPT !.asks = r,
                          !.session = IF page.session = None THEN server.start ELSE page.session]
  /\ UNCHANGED <<events, server, stream, parent, disturbed>>

\* requestChildFollowup behind requireMutationSecurity; the page refreshes on
\* the reply, and shows a refusal.
Request ==
  /\ server.up /\ page.asks # None
  /\ IF page.session = server.start
     THEN /\ CommitEvent([kind |-> "requested", request |-> page.asks])
          /\ page' = Refresh([page EXCEPT !.asks = None])
     ELSE page' = [page EXCEPT !.asks = None] /\ UNCHANGED events
  /\ UNCHANGED <<server, stream, parent, disturbed>>

\* Any other command of a user or an agent.
Other ==
  /\ server.up
  /\ \E kind \in {"source", "operation"} : CommitEvent(Plain(kind))
  /\ UNCHANGED <<server, stream, page, parent, disturbed>>

-----------------------------------------------------------------------------
\* child_followup: the parent has learned of the request before.

OnRecord(kind, r, from) == \E i \in from..Len(events) : events[i] = [kind |-> kind, request |-> r]
Newest == IF Len(events) > Window THEN Len(events) - Window + 1 ELSE 1

\* pendingFollowups: the requests among the newest events without a delivery.
Pending == {r \in Requests : OnRecord("requested", r, Newest) /\ ~OnRecord("delivered", r, Newest)}

Look(c, r) ==
  /\ server.up /\ delivery[c].step = "free" /\ r \in Pending
  /\ delivery' = [delivery EXCEPT ![c] = [step |-> "admit", request |-> r]]
  /\ UNCHANGED <<events, server, stream, page, sent, disturbed>>

Admit(c) ==
  /\ server.up /\ delivery[c].step = "admit"
  /\ CommitEvent(Plain("operation"))
  /\ delivery' = [delivery EXCEPT ![c].step = "send"]
  /\ UNCHANGED <<server, stream, page, sent, disturbed>>

Send(c) ==
  /\ delivery[c].step = "send"
  /\ delivery' = [delivery EXCEPT ![c].step = "record"]
  /\ sent' = [sent EXCEPT ![delivery[c].request] = @ + 1]
  /\ UNCHANGED <<events, server, stream, page, disturbed>>

Record(c) ==
  /\ server.up /\ delivery[c].step = "record"
  /\ CommitEvent([kind |-> "delivered", request |-> delivery[c].request])
  /\ delivery' = [delivery EXCEPT ![c] = NoDelivery]
  /\ UNCHANGED <<server, stream, page, sent, disturbed>>

\* The admission, the message or its record is refused: the operation has been
\* changed meanwhile, the call is aborted or the server away.  The operation is
\* settled as failed, unless that is refused, too; the request stays pending.
Fail(c) ==
  /\ delivery[c].step \in {"admit", "send", "record"} /\ Disturb
  /\ delivery' = [delivery EXCEPT ![c] = NoDelivery]
  /\ \/ delivery[c].step # "admit" /\ server.up /\ CommitEvent(Plain("operation"))
     \/ UNCHANGED events
  /\ UNCHANGED <<server, stream, page, sent>>

-----------------------------------------------------------------------------
ActivityNext ==
  \/ ReadList \/ Show \/ Retry
  \/ Connect \/ Poll \/ (\E poll \in stream.polls : Write(poll)) \/ Opened \/ Receive
  \/ Drop \/ Down \/ Up
  \/ Request \/ Other
  \/ \E r \in Requests : AskFollowUp(r)
  \/ \E c \in Deliveries : \/ \E r \in Requests : Look(c, r)
                           \/ Admit(c) \/ Send(c) \/ Record(c) \/ Fail(c)

ActivitySpec == ActivityInit /\ [][ActivityNext]_activityVars

\* A browser reads what is sent, connects again and goes on with what it has
\* asked for, a timer polls, and a server that has ended is started again.
\* Nothing makes anyone commit anything.
FairSpec ==
  /\ ActivitySpec
  /\ WF_activityVars(ReadList \/ Show \/ Retry)
  /\ WF_activityVars(Connect \/ Poll \/ (\E poll \in stream.polls : Write(poll)))
  /\ WF_activityVars(Opened \/ Receive)
  /\ WF_activityVars(Up)

-----------------------------------------------------------------------------
Versions == 0..MaxEvents

ActivityTypeOK ==
  /\ events \in Seq(Events) /\ Len(events) \in 1..MaxEvents
  /\ server \in [up : BOOLEAN, start : 0..MaxDisturbances]
  /\ stream.state \in {"none", "opening", "serving"} /\ stream.opened \in BOOLEAN
  /\ stream.cursor \in 0..Len(events) /\ stream.last \in 0..stream.cursor
  /\ stream.wire \in Seq(1..MaxEvents) /\ Cardinality(stream.polls) <= 1
  /\ page.shown \in [1..Len(Reads) -> Versions]
  /\ page.fetch.step \in {"none", "reading", "lost"} /\ page.fetch.retried \in BOOLEAN
  /\ page.fetch.got \in Seq(Versions) /\ Len(page.fetch.got) <= Len(Reads)
  /\ page.session \in {None} \cup 0..MaxDisturbances /\ page.asks \in {None} \cup Requests
  /\ delivery \in [Deliveries -> [step : {"free", "admit", "send", "record"},
                                 request : {None} \cup Requests]]
  /\ sent \in [Requests -> Nat]
  /\ disturbed \in 0..MaxDisturbances

\* A connection hands the page the workspace's events one after the other, none
\* twice and none left out, however polls and commits interleave.
StreamInOrder ==
  [][stream'.last \notin {stream.last, 0} => stream'.last = stream.last + 1]_activityVars

\* Once nothing is committed any more the page shows what the tables hold,
\* whichever reads, replies and connections crossed each other or were lost.
Converges == <>[](\A i \in 1..Len(Reads) : page.shown[i] = Version(Reads[i]))

\* "Follow-up request is absent, already delivered, or belongs to another
\* child": a user's follow-up is sent to the child once.
DeliveredOnce == \A r \in Requests : sent[r] <= 1
===============================================================================
