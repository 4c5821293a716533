---------------------------- MODULE TicketStore ----------------------------
(***************************************************************************)
(* services/soc-tickets-mcp/server.py: the ticket store behind a           *)
(* ThreadingHTTPServer.  The whole store is one file of JSON lines.  Every *)
(* mutating tool reads the file, edits its private copy of the records and *)
(* puts the copy back with os.replace; no lock is held in between, so each *)
(* request is two steps here (Begin*, Commit) and requests of different    *)
(* handler threads interleave.  Wall-clock times are abstracted to the     *)
(* calendar day (which the ids carry) and to "closed_at is set or not".    *)
(***************************************************************************)
EXTENDS Integers, Sequences, FiniteSetsExt, Functions

CONSTANTS
  Handler,      \* threads of the HTTP server
  Label,        \* label strings
  Assignee,     \* assignee strings
  Nobody,       \* the JSON null of "assignee"
  Keep,         \* an argument the request leaves out
  Creates,      \* the create_ticket argument records that callers send
  Edits,        \* the update_ticket argument records that callers send
  LabelsMax,    \* LABELS_MAX_COUNT
  CommentsMax,  \* COMMENTS_MAX
  MaxDay,       \* bound: days the clock may advance through
  MaxSeq,       \* bound: largest counter of an id
  MaxTickets    \* bound: tickets in the file

Status == {"open", "in_progress", "waiting", "closed"}     \* ALLOWED_STATUS
LabelBag == [Label -> Nat]              \* a JSON list may repeat a label
Day == 1..MaxDay
TicketId == Day \X (1..MaxSeq)          \* TKT-YYYYMMDD-NNN

NewArgs == [labels: LabelBag, assignee: Assignee \cup {Nobody}]

Edit == [status: Status \cup {Keep},
         assignee: Assignee \cup {Nobody, Keep},
         comment: BOOLEAN,
         add: SUBSET Label,
         remove: LabelBag]

ASSUME SentinelAssumption ==
  /\ Keep \notin Assignee /\ Keep \notin Status
  /\ Nobody \notin Assignee /\ Nobody # Keep
ASSUME ArgumentsAssumption == Creates \subseteq NewArgs /\ Edits \subseteq Edit
ASSUME BoundsAssumption ==
  /\ LabelsMax \in Nat /\ CommentsMax \in Nat
  /\ MaxDay \in Nat \ {0} /\ MaxSeq \in Nat \ {0} /\ MaxTickets \in Nat

Ticket == [id: TicketId, status: Status, assignee: Assignee \cup {Nobody},
           labels: LabelBag, comments: Nat, closed_at: BOOLEAN]

Request ==
  [op: {"create"}, args: NewArgs]
    \cup [op: {"update"}, id: TicketId, edit: Edit]
    \cup [op: {"get"}, id: TicketId]
    \cup [op: {"list"}, status: Status]

NoRequest == [op |-> "none"]

\* An answer is the HTTP status with what the body carries.
NoAnswer == [code |-> 0]
Refusal(c) == [code |-> c]

VARIABLES
  file,           \* the records of the ticket file, in file order
  today,          \* the UTC date of the server's clock
  writesEnabled,  \* SOC_TICKET_MCP_ALLOW_WRITES of the running process
  pc,             \* per handler: idle, loaded (a copy is being edited), done
  req,            \* per handler: the request being served
  copy,           \* per handler: the edited copy that Commit puts back
  answer          \* per handler: the response, until the connection closes

vars == <<file, today, writesEnabled, pc, req, copy, answer>>

-----------------------------------------------------------------------------
(* Operators on the record list.                                           *)

Ids(recs) == {recs[i].id : i \in DOMAIN recs}

SeqsOn(recs, d) == {id[2] : id \in {x \in Ids(recs) : x[1] = d}}

\* Seeded fault: the scan for the counter misses the last line of the file.
NextIdOffByOne(recs, d) ==
  <<d, 1 + Max({0} \cup {recs[i].id[2] : i \in {j \in DOMAIN recs :
                                   j < Len(recs) /\ recs[j].id[1] = d}})>>

\* _next_id: one more than the largest counter that carries today's prefix.
NextId(recs, d) == <<d, 1 + Max({0} \cup SeqsOn(recs, d))>>

\* _find_by_id: the first record with the id.
IndexOf(recs, id) ==
  CHOOSE i \in DOMAIN recs :
    recs[i].id = id /\ \A j \in DOMAIN recs : recs[j].id = id => i <= j

WithinLabelCap(bag) == SumFunction(bag) <= LabelsMax

NewTicket(id, a) ==
  [id |-> id, status |-> "open", assignee |-> a.assignee, labels |-> a.labels,
   comments |-> 0, closed_at |-> FALSE]

EditedLabels(labels, e) ==
  [l \in Label |->
     LET n == IF l \in e.add /\ labels[l] = 0 THEN 1 ELSE labels[l]
     IN  IF e.remove[l] <= n THEN n - e.remove[l] ELSE 0]

EditedTicket(t, e) ==
  [id        |-> t.id,
   status    |-> IF e.status = Keep THEN t.status ELSE e.status,
   assignee  |-> IF e.assignee = Keep THEN t.assignee ELSE e.assignee,
   labels    |-> EditedLabels(t.labels, e),
   comments  |-> IF e.comment THEN t.comments + 1 ELSE t.comments,
   closed_at |-> t.closed_at \/ e.status = "closed"]

\* close_ticket: an update with status "closed" and an optional last comment.
CloseEdit(note) ==
  [status |-> "closed", assignee |-> Keep, comment |-> note,
   add |-> {}, remove |-> [l \in Label |-> 0]]

TouchesLabels(e) == e.add # {} \/ \E l \in Label : e.remove[l] > 0

\* Seeded fault: the refusal of closed tickets is gone.
EditRefusedUnlessOpen(t, e) ==
  \/ e.comment /\ t.comments >= CommentsMax
  \/ TouchesLabels(e) /\ ~WithinLabelCap(EditedLabels(t.labels, e))

\* Seeded fault: the comment cap is not enforced.
EditRefusedUncapped(t, e) ==
  \/ t.status = "closed"
  \/ TouchesLabels(e) /\ ~WithinLabelCap(EditedLabels(t.labels, e))

\* The ValueErrors update_ticket raises for a ticket it has found.
EditRefused(t, e) ==
  \/ t.status = "closed"
  \/ e.comment /\ t.comments >= CommentsMax
  \/ TouchesLabels(e) /\ ~WithinLabelCap(EditedLabels(t.labels, e))

-----------------------------------------------------------------------------
Init ==
  /\ file = <<>>
  /\ today = 1
  /\ writesEnabled \in BOOLEAN
  /\ pc = [h \in Handler |-> "idle"]
  /\ req = [h \in Handler |-> NoRequest]
  /\ copy = [h \in Handler |-> <<>>]
  /\ answer = [h \in Handler |-> NoAnswer]

\* The handler has nothing to write: it answers from what it just read.
Reply(h, r, a) ==
  /\ pc' = [pc EXCEPT ![h] = "done"]
  /\ req' = [req EXCEPT ![h] = r]
  /\ answer' = [answer EXCEPT ![h] = a]
  /\ UNCHANGED <<file, today, writesEnabled, copy>>

\* The handler has loaded the file and holds the records it will put back.
Hold(h, r, recs, t) ==
  /\ pc' = [pc EXCEPT ![h] = "loaded"]
  /\ req' = [req EXCEPT ![h] = r]
  /\ copy' = [copy EXCEPT ![h] = recs]
  /\ answer' = [answer EXCEPT ![h] = [code |-> 200, ticket |-> t]]
  /\ UNCHANGED <<file, today, writesEnabled>>

\* _load_all or _atomic_write raises: do_POST answers 403 for a PermissionError
\* (of makedirs, open, mkstemp or replace), 500 for anything else.
TroubleCodes == {403, 500}

\* _load_all raises: nothing was read, the request ends.
LoadFails(h, r) == \E c \in TroubleCodes : Reply(h, r, Refusal(c))

\* tool_create_ticket up to the write: gate, load, next id, append.
BeginCreate(h, a) ==
  LET r == [op |-> "create", args |-> a]
      id == NextId(file, today)
      t == NewTicket(id, a)
  IN  /\ pc[h] = "idle"
      /\ \/ ~writesEnabled /\ Reply(h, r, Refusal(403))
         \/ /\ writesEnabled /\ ~WithinLabelCap(a.labels)
            /\ Reply(h, r, Refusal(400))
         \/ writesEnabled /\ WithinLabelCap(a.labels) /\ LoadFails(h, r)
         \/ /\ writesEnabled /\ WithinLabelCap(a.labels)
            /\ id \in TicketId /\ Len(file) < MaxTickets
            /\ Hold(h, r, Append(file, t), t)

\* Seeded fault: the write gate is missing from the update path.
BeginUpdateUngated(h, id, e) ==
  LET i == IndexOf(file, id)
      t == EditedTicket(file[i], e)
  IN  /\ pc[h] = "idle" /\ id \in Ids(file) /\ ~EditRefused(file[i], e)
      /\ Hold(h, [op |-> "update", id |-> id, edit |-> e],
              [file EXCEPT ![i] = t], t)

\* tool_update_ticket (and close_ticket, its alias) up to the write.
BeginUpdate(h, id, e) ==
  LET r == [op |-> "update", id |-> id, edit |-> e]
      i == IndexOf(file, id)
      t == EditedTicket(file[i], e)
  IN  /\ pc[h] = "idle"
      /\ \/ ~writesEnabled /\ Reply(h, r, Refusal(403))
         \/ writesEnabled /\ LoadFails(h, r)
         \/ writesEnabled /\ id \notin Ids(file) /\ Reply(h, r, Refusal(404))
         \/ /\ writesEnabled /\ id \in Ids(file)
            /\ \/ EditRefused(file[i], e) /\ Reply(h, r, Refusal(400))
               \/ ~EditRefused(file[i], e)
                    /\ Hold(h, r, [file EXCEPT ![i] = t], t)

\* _atomic_write succeeds: the copy becomes the file.
Commit(h) ==
  /\ pc[h] = "loaded"
  /\ file' = copy[h]
  /\ pc' = [pc EXCEPT ![h] = "done"]
  /\ copy' = [copy EXCEPT ![h] = <<>>]
  /\ UNCHANGED <<today, writesEnabled, req, answer>>

\* _atomic_write raises (disk full, permissions): the file is as it was.
CommitFails(h) ==
  /\ pc[h] = "loaded"
  /\ pc' = [pc EXCEPT ![h] = "done"]
  /\ copy' = [copy EXCEPT ![h] = <<>>]
  /\ \E c \in TroubleCodes : answer' = [answer EXCEPT ![h] = Refusal(c)]
  /\ UNCHANGED <<file, today, writesEnabled, req>>

\* tool_get_ticket: reads are not gated.
GetTicket(h, id) ==
  /\ pc[h] = "idle"
  /\ \/ LoadFails(h, [op |-> "get", id |-> id])
     \/ Reply(h, [op |-> "get", id |-> id],
              IF id \in Ids(file)
                THEN [code |-> 200, ticket |-> file[IndexOf(file, id)]]
                ELSE Refusal(404))

\* tool_list_tickets with a status filter; the answer is the matching ids.
ListTickets(h, s) ==
  /\ pc[h] = "idle"
  /\ \/ LoadFails(h, [op |-> "list", status |-> s])
     \/ Reply(h, [op |-> "list", status |-> s],
              [code |-> 200,
               ids |-> {file[i].id : i \in {j \in DOMAIN file : file[j].status = s}}])

\* The response is sent (or its reader is gone); the thread ends.
Finish(h) ==
  /\ pc[h] = "done"
  /\ pc' = [pc EXCEPT ![h] = "idle"]
  /\ req' = [req EXCEPT ![h] = NoRequest]
  /\ answer' = [answer EXCEPT ![h] = NoAnswer]
  /\ UNCHANGED <<file, today, writesEnabled, copy>>

Midnight ==
  /\ today < MaxDay
  /\ today' = today + 1
  /\ UNCHANGED <<file, writesEnabled, pc, req, copy, answer>>

\* The process stops, in the middle of requests too, and is started again,
\* possibly with the write gate changed.  Only the file survives.
Restart ==
  /\ writesEnabled' \in BOOLEAN
  /\ pc' = [h \in Handler |-> "idle"]
  /\ req' = [h \in Handler |-> NoRequest]
  /\ copy' = [h \in Handler |-> <<>>]
  /\ answer' = [h \in Handler |-> NoAnswer]
  /\ UNCHANGED <<file, today>>

Serve(h) ==
  \/ \E a \in Creates : BeginCreate(h, a)
  \/ \E id \in TicketId, e \in Edits : BeginUpdate(h, id, e)
  \/ \E id \in TicketId : GetTicket(h, id)
  \/ \E s \in Status : ListTickets(h, s)
  \/ Commit(h)
  \/ CommitFails(h)
  \/ Finish(h)

-----------------------------------------------------------------------------
(* Properties that hold whatever the requests do to each other.            *)

TypeOK ==
  /\ file \in Seq(Ticket)
  /\ today \in Day
  /\ writesEnabled \in BOOLEAN
  /\ pc \in [Handler -> {"idle", "loaded", "done"}]
  /\ req \in [Handler -> Request \cup {NoRequest}]
  /\ copy \in [Handler -> Seq(Ticket)]
  /\ answer \in [Handler ->
       {NoAnswer} \cup [code: {400, 403, 404, 500}]
         \cup [code: {200}, ticket: Ticket] \cup [code: {200}, ids: SUBSET TicketId]]

DistinctIds(recs) ==
  \A i, j \in DOMAIN recs : recs[i].id = recs[j].id => i = j

\* No two records of the file carry the same id, although _next_id works on a
\* copy that another request may have overtaken: a late writer replaces the
\* whole file and so cannot put its id beside the one it clashes with.
UniqueIds == DistinctIds(file)

SoundTicket(t) ==
  /\ t.closed_at <=> t.status = "closed"
  /\ t.comments <= CommentsMax
  /\ WithinLabelCap(t.labels)

\* A record is stamped closed_at exactly while its status is closed (so no
\* stamped ticket was ever reopened), and no sequence of updates, overlapping
\* ones included, takes a ticket past the comment and label caps.
RecordsSound == \A i \in DOMAIN file : SoundTicket(file[i])

\* The file changes only while the running process has its write gate open:
\* a request admitted before the gate was shut does not write after it.
GateShut == [][writesEnabled]_file

(* Properties that hold only when requests do not overlap.                 *)

Extends(old, new) ==
  /\ Len(old) <= Len(new)
  /\ \A i \in DOMAIN old :
       /\ new[i].id = old[i].id
       /\ old[i].status = "closed" => new[i] = old[i]
       /\ old[i].comments <= new[i].comments

\* "Append-only when writing - update_ticket rewrites the matching line in
\* place": a line keeps its place and id, a closed ticket stays as it is and
\* comments are only added.
AppendOnly == [][Extends(file, file')]_file

-----------------------------------------------------------------------------
Next == (\E h \in Handler : Serve(h)) \/ Midnight \/ Restart

Spec == Init /\ [][Next]_vars

\* Requests that never overlap: the next one begins after the last one wrote.
Writers == {h \in Handler : pc[h] = "loaded"}
Alone == \A h, k \in Writers' : h = k
SerialNext == Next /\ Alone
SerialSpec == Init /\ [][SerialNext]_vars

\* The file seen as a map from ids to records.
Register == INSTANCE TicketRegister WITH
              tickets <- [id \in Ids(file) |-> file[IndexOf(file, id)]]

\* When requests do not overlap, every request is one step of the register
\* the tools describe.
ImplementsRegister == Register!Spec
=============================================================================
