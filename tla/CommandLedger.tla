---------------------------- MODULE CommandLedger ----------------------------
(***************************************************************************)
(* What the workspace repository promises to the application services,     *)
(* with no lock, no transaction and no crash in sight: a command either    *)
(* takes effect as a whole, at the revisions its author saw, with one      *)
(* audit event per changed record and under an idempotency key that is     *)
(* spent for good, or it leaves no trace.  Callers are told outcomes; a    *)
(* success is only ever told of a command that took effect.                *)
(***************************************************************************)
EXTENDS Naturals, Sequences

CONSTANTS
  Callers,      \* the requests the server can be serving at the same time
  Rows,         \* identities of records, and slots of unique indexes
  Keys,         \* idempotency keys
  Shapes,       \* kinds of commands
  Plan,         \* Plan[shape]: the mutations the command asks for, in order
  NoCommand,    \* an idempotency key nothing was recorded under
  NoRequest     \* a caller that was told nothing yet

VARIABLES
  revision,     \* revision[row] of each record, 0 while it does not exist
  trail,        \* the audit events, in the order of their sequence numbers
  commands,     \* the command recorded under each key
  answer        \* the last answer a caller was given, while it asks nothing new

vars == <<revision, trail, commands, answer>>

Refusals == {"revision_conflict", "duplicate_identity", "entity_not_found"}

Touched(shape) == {Plan[shape][i].row : i \in DOMAIN Plan[shape]}

\* The revisions a command of this shape names when its author saw the records
\* as they stand: a command on anything older is refused.
Seen(shape) ==
  [r \in Rows |-> IF \E i \in DOMAIN Plan[shape] :
                       Plan[shape][i].row = r /\ Plan[shape][i].action = "update"
                  THEN revision[r] ELSE 0]

\* An insert finds no record.
Permitted(shape) ==
  \A i \in DOMAIN Plan[shape] :
    Plan[shape][i].action = "insert" => revision[Plan[shape][i].row] = 0

Raised(shape) ==
  [r \in Rows |-> IF r \in Touched(shape) THEN revision[r] + 1 ELSE revision[r]]

AuditOf(shape, key, by) ==
  [i \in DOMAIN Plan[shape] |->
     [row      |-> Plan[shape][i].row,
      revision |-> Raised(shape)[Plan[shape][i].row],
      key      |-> key,
      by       |-> by]]

Init ==
  /\ revision = [r \in Rows |-> 0]
  /\ trail = <<>>
  /\ commands = [k \in Keys |-> NoCommand]
  /\ answer = [c \in Callers |-> NoRequest]

TakeEffect(by, key, shape) ==
  /\ commands[key] = NoCommand
  /\ Permitted(shape)
  /\ revision' = Raised(shape)
  /\ trail' = trail \o AuditOf(shape, key, by)
  /\ commands' = [commands EXCEPT ![key] =
                    [content |-> [shape |-> shape, expected |-> Seen(shape)],
                     by      |-> by]]
  /\ UNCHANGED answer

\* A success is the outcome recorded under the key, whoever asks.
TellSuccess(c, key) ==
  /\ commands[key] # NoCommand
  /\ answer' = [answer EXCEPT ![c] = [key     |-> key,
                                     content |-> commands[key].content,
                                     outcome |-> "ok",
                                     by      |-> commands[key].by]]
  /\ UNCHANGED <<revision, trail, commands>>

TellRefusal(c) ==
  /\ answer'[c] # NoRequest /\ answer'[c].outcome \in Refusals
  /\ answer' = [answer EXCEPT ![c] = answer'[c]]
  /\ UNCHANGED <<revision, trail, commands>>

AskAgain(c) ==
  /\ answer' = [answer EXCEPT ![c] = NoRequest]
  /\ UNCHANGED <<revision, trail, commands>>

Next ==
  \E c \in Callers :
    \/ \E k \in Keys, s \in Shapes : TakeEffect(c, k, s)
    \/ \E k \in Keys : TellSuccess(c, k)
    \/ AskAgain(c)
    \/ TellRefusal(c)

Spec == Init /\ [][Next]_vars
=============================================================================
