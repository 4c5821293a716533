---------------------------- MODULE TicketProofs ----------------------------
(***************************************************************************)
(* Theorems about TicketStore and the TicketClient that calls it, for any  *)
(* number of handlers, calls, labels, days and tickets.                    *)
(***************************************************************************)
EXTENDS TicketClient, FiniteSetTheorems, WellFoundedInduction, TLAPS

(***************************************************************************)
(* A nonempty set of naturals below a bound has a maximum, so the Max that *)
(* NextId takes is what its name says.                                     *)
(***************************************************************************)
LEMMA MaxOfBounded ==
  ASSUME NEW S \in SUBSET Nat, S # {}, NEW n \in Nat, \A x \in S : x <= n
  PROVE  Max(S) \in S /\ \A x \in S : Max(S) >= x
<1> DEFINE T == {n - x : x \in S}
<1>1. T \subseteq Nat /\ T # {}
  <2>1. \A x \in S : n - x \in Nat /\ n - x \in T
    OBVIOUS
  <2> QED BY <2>1
<1>2. IsWellFoundedOn(OpToRel(<, Nat), Nat)
  BY NatLessThanWellFounded
<1>3. PICK m \in T : \A y \in T : <<y, m>> \notin OpToRel(<, Nat)
  <2> HIDE DEF T
  <2> QED BY <1>1, <1>2, WFMin
<1>4. \A y \in T : ~(y < m)
  <2> TAKE y \in T
  <2>1. <<y, m>> \in Nat \X Nat
    BY <1>1, <1>3
  <2> QED BY <1>3, <2>1 DEF OpToRel
<1>5. PICK x \in S : m = n - x
  BY <1>3
<1>6. \A y \in S : x >= y
  <2> TAKE y \in S
  <2>1. ~(n - y < n - x)
    BY <1>4, <1>5
  <2> QED BY <2>1
<1> QED BY <1>6 DEF Max

(* The id of a new ticket is on no record of the list it is appended to.   *)
LEMMA NextIdFresh ==
  ASSUME NEW recs \in Seq(Ticket), NEW d \in Day
  PROVE  NextId(recs, d) \notin Ids(recs)
<1> DEFINE S == {0} \cup SeqsOn(recs, d)
<1>1. SeqsOn(recs, d) \subseteq 0..MaxSeq
  <2>1. \A i \in DOMAIN recs : recs[i] \in Ticket
    OBVIOUS
  <2>2. \A id \in Ids(recs) : id \in TicketId
    BY <2>1 DEF Ids, Ticket
  <2>3. \A id \in Ids(recs) : id[2] \in 0..MaxSeq
    BY <2>2, BoundsAssumption DEF TicketId
  <2> QED BY <2>3 DEF SeqsOn
<1>2. S \in SUBSET Nat /\ S # {} /\ \A x \in S : x <= MaxSeq
  BY <1>1, BoundsAssumption
<1>3. Max(S) \in S /\ \A x \in S : Max(S) >= x
  <2> HIDE DEF S
  <2> QED BY <1>2, MaxOfBounded, BoundsAssumption
<1>4. SUFFICES ASSUME NextId(recs, d) \in Ids(recs) PROVE FALSE
  OBVIOUS
<1>5. NextId(recs, d)[1] = d /\ NextId(recs, d)[2] = 1 + Max(S)
  BY DEF NextId
<1>6. 1 + Max(S) \in S
  BY <1>4, <1>5 DEF SeqsOn
<1> HIDE DEF S
<1>7. Max(S) \in Nat
  BY <1>2, <1>3
<1> QED BY <1>3, <1>6, <1>7

LEMMA IndexOfFinds ==
  ASSUME NEW recs \in Seq(Ticket), DistinctIds(recs), NEW id \in Ids(recs)
  PROVE  IndexOf(recs, id) \in DOMAIN recs /\ recs[IndexOf(recs, id)].id = id
<1>1. PICK i \in DOMAIN recs : recs[i].id = id
  BY DEF Ids
<1>2. \A j \in DOMAIN recs : recs[j].id = id => i <= j
  BY <1>1 DEF DistinctIds
<1> QED BY <1>1, <1>2 DEF IndexOf

LEMMA EditedLabelsType ==
  ASSUME NEW labels \in LabelBag, NEW e \in Edit
  PROVE  /\ EditedLabels(labels, e) \in LabelBag
         /\ ~TouchesLabels(e) => EditedLabels(labels, e) = labels
<1>1. \A l \in Label : labels[l] \in Nat /\ e.remove[l] \in Nat
  BY DEF LabelBag, Edit
<1>2. EditedLabels(labels, e) \in LabelBag
  BY <1>1 DEF EditedLabels, LabelBag
<1>3. ASSUME ~TouchesLabels(e) PROVE EditedLabels(labels, e) = labels
  <2>1. \A l \in Label : l \notin e.add /\ e.remove[l] = 0
    BY <1>1, <1>3 DEF TouchesLabels
  <2>2. \A l \in Label : EditedLabels(labels, e)[l] = labels[l]
    BY <1>1, <2>1 DEF EditedLabels
  <2> QED BY <1>2, <2>2 DEF LabelBag, EditedLabels
<1> QED BY <1>2, <1>3

(* An edit that is not refused keeps a sound ticket sound, and its id.     *)
LEMMA EditKeepsSound ==
  ASSUME NEW t \in Ticket, SoundTicket(t), NEW e \in Edit, ~EditRefused(t, e)
  PROVE  /\ EditedTicket(t, e) \in Ticket
         /\ EditedTicket(t, e).id = t.id
         /\ SoundTicket(EditedTicket(t, e))
         /\ t.status # "closed" /\ t.comments <= EditedTicket(t, e).comments
<1> DEFINE u == EditedTicket(t, e)
<1>1. EditedLabels(t.labels, e) \in LabelBag
  BY EditedLabelsType DEF Ticket
<1>2. /\ u.id = t.id
      /\ u.status = (IF e.status = Keep THEN t.status ELSE e.status)
      /\ u.assignee = (IF e.assignee = Keep THEN t.assignee ELSE e.assignee)
      /\ u.labels = EditedLabels(t.labels, e)
      /\ u.comments = (IF e.comment THEN t.comments + 1 ELSE t.comments)
      /\ u.closed_at = (t.closed_at \/ e.status = "closed")
  BY DEF EditedTicket, Ticket
<1>3. u \in Ticket
  <2>1. /\ u.status \in Status
        /\ u.assignee \in Assignee \cup {Nobody}
        /\ u.comments \in Nat
    BY <1>2 DEF Ticket, Edit
  <2>2. u.closed_at \in BOOLEAN
    BY <1>2
  <2>3. u = [id |-> u.id, status |-> u.status, assignee |-> u.assignee,
             labels |-> u.labels, comments |-> u.comments,
             closed_at |-> u.closed_at]
    BY DEF EditedTicket, Ticket
  <2>4. u.id \in TicketId /\ u.labels \in LabelBag
    BY <1>1, <1>2 DEF Ticket
  <2> HIDE DEF u
  <2> QED BY <2>1, <2>2, <2>3, <2>4 DEF Ticket
<1>4. u.closed_at <=> u.status = "closed"
  <2>1. t.status # "closed" /\ ~t.closed_at
    BY DEF EditRefused, SoundTicket
  <2> QED BY <1>2, <2>1, SentinelAssumption DEF Status
<1>5. u.comments <= CommentsMax
  BY <1>2, BoundsAssumption DEF EditRefused, SoundTicket, Ticket, Edit
<1>6. WithinLabelCap(u.labels)
  <2> DEFINE new == EditedLabels(t.labels, e)
  <2>1. CASE ~TouchesLabels(e)
    <3>1. new = t.labels
      BY <2>1, EditedLabelsType DEF Ticket
    <3> QED BY <1>2, <3>1 DEF SoundTicket
  <2>2. CASE TouchesLabels(e)
    <3> QED BY <1>2, <2>2 DEF EditRefused
  <2> QED BY <2>1, <2>2
<1>7. t.comments <= u.comments
  BY <1>2 DEF Ticket, Edit
<1> QED BY <1>2, <1>3, <1>4, <1>5, <1>6, <1>7 DEF SoundTicket, EditRefused

LEMMA NewTicketSound ==
  ASSUME NEW id \in TicketId, NEW a \in NewArgs, WithinLabelCap(a.labels)
  PROVE  /\ NewTicket(id, a) \in Ticket
         /\ NewTicket(id, a).id = id
         /\ SoundTicket(NewTicket(id, a))
  BY BoundsAssumption DEF NewTicket, Ticket, NewArgs, SoundTicket, Status

-----------------------------------------------------------------------------
(***************************************************************************)
(* The inductive invariant: what holds of the file also holds of every     *)
(* copy a handler is about to put in its place, and a handler that is      *)
(* about to write was admitted by the process that is running now.         *)
(***************************************************************************)
SoundList(recs) ==
  DistinctIds(recs) /\ \A i \in DOMAIN recs : SoundTicket(recs[i])

IInv ==
  /\ TypeOK
  /\ SoundList(file)
  /\ \A h \in Handler : SoundList(copy[h])
  /\ \A h \in Handler : pc[h] = "loaded" => writesEnabled

LEMMA AppendSound ==
  ASSUME NEW recs \in Seq(Ticket), SoundList(recs),
         NEW t \in Ticket, SoundTicket(t), t.id \notin Ids(recs)
  PROVE  /\ Append(recs, t) \in Seq(Ticket)
         /\ SoundList(Append(recs, t))
<1>1. /\ Append(recs, t) \in Seq(Ticket)
      /\ DOMAIN recs = 1..Len(recs) /\ Len(recs) \in Nat
      /\ DOMAIN Append(recs, t) = 1..(Len(recs) + 1)
      /\ \A i \in DOMAIN recs : Append(recs, t)[i] = recs[i]
      /\ Append(recs, t)[Len(recs) + 1] = t
  OBVIOUS
<1>2. \A i \in DOMAIN recs : recs[i].id # t.id
  BY DEF Ids
<1>3. DistinctIds(Append(recs, t))
  BY <1>1, <1>2 DEF DistinctIds, SoundList
<1>4. \A i \in DOMAIN Append(recs, t) : SoundTicket(Append(recs, t)[i])
  BY <1>1 DEF SoundList
<1> QED BY <1>1, <1>3, <1>4 DEF SoundList

LEMMA ReplaceSound ==
  ASSUME NEW recs \in Seq(Ticket), SoundList(recs), NEW i \in DOMAIN recs,
         NEW t \in Ticket, SoundTicket(t), t.id = recs[i].id
  PROVE  /\ [recs EXCEPT ![i] = t] \in Seq(Ticket)
         /\ SoundList([recs EXCEPT ![i] = t])
<1> DEFINE new == [recs EXCEPT ![i] = t]
<1>1. new \in Seq(Ticket) /\ DOMAIN new = DOMAIN recs
  OBVIOUS
<1>2. \A j \in DOMAIN new : new[j].id = recs[j].id
  OBVIOUS
<1>3. DistinctIds(new)
  BY <1>1, <1>2 DEF DistinctIds, SoundList
<1>4. \A j \in DOMAIN new : SoundTicket(new[j])
  BY <1>1 DEF SoundList
<1> QED BY <1>1, <1>3, <1>4 DEF SoundList

LEMMA InitIInv == Init => IInv
  BY BoundsAssumption DEF Init, IInv, TypeOK, SoundList, DistinctIds, Day

LEMMA ReplyIInv ==
  ASSUME IInv, NEW h \in Handler, NEW r \in Request,
         NEW a, Reply(h, r, a),
         a \in [code: {400, 403, 404, 500}] \cup [code: {200}, ticket: Ticket]
                 \cup [code: {200}, ids: SUBSET TicketId]
  PROVE  IInv'
  BY DEF IInv, Reply, TypeOK, SoundList, DistinctIds, SoundTicket

LEMMA LoadFailsIInv ==
  ASSUME IInv, NEW h \in Handler, NEW r \in Request, LoadFails(h, r)
  PROVE  IInv'
<1>1. PICK c \in TroubleCodes : Reply(h, r, Refusal(c)) BY DEF LoadFails
<1>2. Refusal(c) \in [code: {400, 403, 404, 500}] BY DEF Refusal, TroubleCodes
<1>. QED BY <1>1, <1>2, ReplyIInv

LEMMA HoldIInv ==
  ASSUME IInv, NEW h \in Handler, NEW r \in Request,
         NEW recs \in Seq(Ticket), SoundList(recs), NEW t \in Ticket,
         Hold(h, r, recs, t), writesEnabled
  PROVE  IInv'
<1>1. TypeOK'
  BY DEF IInv, Hold, TypeOK
<1>2. SoundList(file)' /\ (\A k \in Handler : SoundList(copy[k]))'
  BY DEF IInv, Hold, TypeOK, SoundList, DistinctIds, SoundTicket
<1>3. (\A k \in Handler : pc[k] = "loaded" => writesEnabled)'
  BY DEF Hold
<1> QED BY <1>1, <1>2, <1>3 DEF IInv

LEMMA CreateIInv ==
  ASSUME IInv, NEW h \in Handler, NEW a \in NewArgs, BeginCreate(h, a)
  PROVE  IInv'
<1> DEFINE r == [op |-> "create", args |-> a]
           id == NextId(file, today)
           t == NewTicket(id, a)
<1>1. r \in Request
  BY DEF Request
<1>2. CASE \/ Reply(h, r, Refusal(403)) \/ Reply(h, r, Refusal(400))
           \/ LoadFails(h, r)
  BY <1>1, <1>2, ReplyIInv, LoadFailsIInv DEF Refusal
<1>3. CASE /\ writesEnabled /\ WithinLabelCap(a.labels)
           /\ id \in TicketId
           /\ Hold(h, r, Append(file, t), t)
  <2>1. t \in Ticket /\ t.id = id /\ SoundTicket(t)
    BY <1>3, NewTicketSound
  <2>2. id \notin Ids(file)
    BY NextIdFresh DEF IInv, TypeOK
  <2>3. Append(file, t) \in Seq(Ticket) /\ SoundList(Append(file, t))
    <3> HIDE DEF t, id
    <3> QED BY <2>1, <2>2, AppendSound DEF IInv, TypeOK
  <2> HIDE DEF t, r
  <2> QED BY <1>1, <1>3, <2>1, <2>3, HoldIInv
<1> QED BY <1>2, <1>3 DEF BeginCreate

LEMMA UpdateIInv ==
  ASSUME IInv, NEW h \in Handler, NEW id \in TicketId, NEW e \in Edit,
         BeginUpdate(h, id, e)
  PROVE  IInv'
<1> DEFINE r == [op |-> "update", id |-> id, edit |-> e]
           i == IndexOf(file, id)
           t == EditedTicket(file[i], e)
<1>1. r \in Request
  BY DEF Request
<1>2. CASE \/ Reply(h, r, Refusal(403)) \/ Reply(h, r, Refusal(404))
           \/ Reply(h, r, Refusal(400)) \/ LoadFails(h, r)
  BY <1>1, <1>2, ReplyIInv, LoadFailsIInv DEF Refusal
<1>3. CASE /\ writesEnabled /\ id \in Ids(file) /\ ~EditRefused(file[i], e)
           /\ Hold(h, r, [file EXCEPT ![i] = t], t)
  <2>1. i \in DOMAIN file /\ file[i] \in Ticket /\ SoundTicket(file[i])
    BY <1>3, IndexOfFinds DEF IInv, TypeOK, SoundList
  <2>2. t \in Ticket /\ t.id = file[i].id /\ SoundTicket(t)
    BY <1>3, <2>1, EditKeepsSound
  <2>3. /\ [file EXCEPT ![i] = t] \in Seq(Ticket)
        /\ SoundList([file EXCEPT ![i] = t])
    <3> HIDE DEF t, i
    <3> QED BY <2>1, <2>2, ReplaceSound DEF IInv, TypeOK
  <2> HIDE DEF t, r, i
  <2> QED BY <1>1, <1>3, <2>2, <2>3, HoldIInv
<1> QED BY <1>2, <1>3 DEF BeginUpdate

LEMMA ServeIInv ==
  ASSUME IInv, NEW h \in Handler, Serve(h)
  PROVE  IInv'
<1>1. ASSUME NEW a \in Creates, BeginCreate(h, a) PROVE IInv'
  BY <1>1, CreateIInv, ArgumentsAssumption
<1>2. ASSUME NEW id \in TicketId, NEW e \in Edits, BeginUpdate(h, id, e)
      PROVE  IInv'
  BY <1>2, UpdateIInv, ArgumentsAssumption
<1>3. ASSUME NEW id \in TicketId, GetTicket(h, id) PROVE IInv'
  <2> DEFINE r == [op |-> "get", id |-> id]
             a == IF id \in Ids(file)
                    THEN [code |-> 200, ticket |-> file[IndexOf(file, id)]]
                    ELSE Refusal(404)
  <2>1. r \in Request
    BY DEF Request
  <2>2. ASSUME id \in Ids(file) PROVE file[IndexOf(file, id)] \in Ticket
    BY <2>2, IndexOfFinds DEF IInv, TypeOK, SoundList
  <2>3. a \in [code: {404}] \cup [code: {200}, ticket: Ticket]
    BY <2>2 DEF Refusal
  <2>4. Reply(h, r, a) \/ LoadFails(h, r)
    BY <1>3 DEF GetTicket
  <2> HIDE DEF r, a
  <2>5. a \in [code: {400, 403, 404, 500}] \cup [code: {200}, ticket: Ticket]
    BY <2>3
  <2> QED BY <2>1, <2>4, <2>5, ReplyIInv, LoadFailsIInv
<1>4. ASSUME NEW s \in Status, ListTickets(h, s) PROVE IInv'
  <2> DEFINE ids == {file[i].id : i \in {j \in DOMAIN file : file[j].status = s}}
  <2>1. ids \subseteq TicketId
    <3>1. \A i \in DOMAIN file : file[i] \in Ticket
      BY DEF IInv, TypeOK
    <3>2. \A i \in DOMAIN file : file[i].id \in TicketId
      BY <3>1 DEF Ticket
    <3> QED BY <3>2
  <2>2. [op |-> "list", status |-> s] \in Request
    BY DEF Request
  <2>3. \/ Reply(h, [op |-> "list", status |-> s], [code |-> 200, ids |-> ids])
        \/ LoadFails(h, [op |-> "list", status |-> s])
    BY <1>4 DEF ListTickets
  <2> HIDE DEF ids
  <2> QED BY <2>1, <2>2, <2>3, ReplyIInv, LoadFailsIInv
<1>5. ASSUME Commit(h) PROVE IInv'
  <2>1. TypeOK'
    BY <1>5 DEF Commit, IInv, TypeOK
  <2>2. SoundList(file)' /\ (\A k \in Handler : SoundList(copy[k]))'
    BY <1>5 DEF Commit, IInv, TypeOK, SoundList, DistinctIds, SoundTicket
  <2>3. (\A k \in Handler : pc[k] = "loaded" => writesEnabled)'
    BY <1>5 DEF Commit, IInv, TypeOK
  <2> QED BY <2>1, <2>2, <2>3 DEF IInv
<1>6. ASSUME CommitFails(h) PROVE IInv'
  <2>1. TypeOK'
    BY <1>6 DEF CommitFails, TroubleCodes, Refusal, IInv, TypeOK
  <2>2. SoundList(file)' /\ (\A k \in Handler : SoundList(copy[k]))'
    BY <1>6 DEF CommitFails, IInv, TypeOK, SoundList, DistinctIds, SoundTicket
  <2>3. (\A k \in Handler : pc[k] = "loaded" => writesEnabled)'
    BY <1>6 DEF CommitFails, IInv, TypeOK
  <2> QED BY <2>1, <2>2, <2>3 DEF IInv
<1>7. ASSUME Finish(h) PROVE IInv'
  BY <1>7 DEF Finish, IInv, TypeOK, SoundList, DistinctIds, SoundTicket
<1> QED BY <1>1, <1>2, <1>3, <1>4, <1>5, <1>6, <1>7 DEF Serve

LEMMA NextIInv == IInv /\ [Next]_vars => IInv'
<1> SUFFICES ASSUME IInv, [Next]_vars PROVE IInv'
  OBVIOUS
<1>1. ASSUME NEW h \in Handler, Serve(h) PROVE IInv'
  BY <1>1, ServeIInv
<1>2. ASSUME Midnight PROVE IInv'
  <2>1. today' \in Day
    BY <1>2, BoundsAssumption DEF Midnight, IInv, TypeOK, Day
  <2>2. TypeOK'
    BY <1>2, <2>1 DEF Midnight, IInv, TypeOK
  <2>3. SoundList(file)' /\ (\A h \in Handler : SoundList(copy[h]))'
    BY <1>2 DEF Midnight, IInv, SoundList, DistinctIds, SoundTicket
  <2> QED BY <1>2, <2>2, <2>3 DEF Midnight, IInv
<1>3. ASSUME Restart PROVE IInv'
  BY <1>3 DEF Restart, IInv, TypeOK, SoundList, DistinctIds, SoundTicket
<1>4. ASSUME UNCHANGED vars PROVE IInv'
  BY <1>4 DEF vars, IInv, TypeOK, SoundList, DistinctIds, SoundTicket
<1> QED BY <1>1, <1>2, <1>3, <1>4 DEF Next

\* The server's state keeps its type through every interleaving of requests,
\* failed writes, midnights and restarts.
THEOREM TypeCorrect == Spec => []TypeOK
<1>1. IInv => TypeOK
  BY DEF IInv
<1> QED BY <1>1, InitIInv, NextIInv, PTL DEF Spec

\* tool_create_ticket never puts two records with one id in the file, however
\* its read-modify-write cycles overlap.
THEOREM IdsUnique == Spec => []UniqueIds
<1>1. IInv => UniqueIds
  BY DEF IInv, SoundList, UniqueIds
<1> QED BY <1>1, InitIInv, NextIInv, PTL DEF Spec

\* tool_update_ticket: closed_at exactly on closed tickets, caps respected.
THEOREM TicketsSound == Spec => []RecordsSound
<1>1. IInv => RecordsSound
  BY DEF IInv, SoundList, RecordsSound
<1> QED BY <1>1, InitIInv, NextIInv, PTL DEF Spec

\* _require_writes_enabled: no write reaches the file while the gate is shut.
THEOREM NoWriteWhenShut == Spec => GateShut
<1>1. IInv /\ [Next]_vars => [writesEnabled]_file
  <2> SUFFICES ASSUME IInv, [Next]_vars, file' # file PROVE writesEnabled
    OBVIOUS
  <2>1. PICK h \in Handler : Serve(h)
    BY DEF Next, Midnight, Restart, vars
  <2>2. Commit(h)
    BY <2>1 DEF Serve, BeginCreate, BeginUpdate, GetTicket, ListTickets,
                CommitFails, Finish, Reply, Hold, LoadFails
  <2> QED BY <2>2 DEF Commit, IInv
<1> QED BY <1>1, InitIInv, NextIInv, PTL DEF Spec, GateShut

-----------------------------------------------------------------------------
(***************************************************************************)
(* Requests that do not overlap.  At most one handler holds a copy, and    *)
(* the copy is the file with one ticket filed or one ticket amended: what  *)
(* Commit does then is what the register promises.                         *)
(***************************************************************************)
Filing(old, new) ==
  \E t \in Ticket :
    /\ new = Append(old, t)
    /\ t.id \notin Ids(old)
    /\ t.id[2] = 1 \/ <<t.id[1], t.id[2] - 1>> \in Ids(old)
    /\ t.status = "open" /\ t.comments = 0 /\ ~t.closed_at

Amending(old, new) ==
  \E i \in DOMAIN old, t \in Ticket :
    /\ new = [old EXCEPT ![i] = t]
    /\ t.id = old[i].id
    /\ old[i].status # "closed"
    /\ t.comments \in {old[i].comments, old[i].comments + 1}
    /\ t.closed_at <=> t.status = "closed"

SerialInv ==
  /\ IInv
  /\ \A h, k \in Writers : h = k
  /\ \A h \in Writers : Filing(file, copy[h]) \/ Amending(file, copy[h])

(* A new id is the first of its day or follows one that is in the list.    *)
LEMMA NextIdFollows ==
  ASSUME NEW recs \in Seq(Ticket), NEW d \in Day
  PROVE  LET id == NextId(recs, d)
         IN  id[2] = 1 \/ <<id[1], id[2] - 1>> \in Ids(recs)
<1> DEFINE S == {0} \cup SeqsOn(recs, d)
<1>1. \A i \in DOMAIN recs : recs[i].id \in TicketId
  <2>1. \A i \in DOMAIN recs : recs[i] \in Ticket
    OBVIOUS
  <2> QED BY <2>1 DEF Ticket
<1>2. \A id \in Ids(recs) : id \in TicketId
  BY <1>1 DEF Ids
<1>3. S \in SUBSET Nat /\ S # {} /\ \A x \in S : x <= MaxSeq
  BY <1>2, BoundsAssumption DEF SeqsOn, TicketId
<1>4. Max(S) \in S
  <2> HIDE DEF S
  <2> QED BY <1>3, MaxOfBounded, BoundsAssumption
<1>5. NextId(recs, d) = <<d, 1 + Max(S)>>
  BY DEF NextId
<1>6. CASE Max(S) = 0
  BY <1>5, <1>6
<1>7. CASE Max(S) \in SeqsOn(recs, d)
  <2>1. PICK id \in Ids(recs) : id[1] = d /\ id[2] = Max(S)
    BY <1>7 DEF SeqsOn
  <2>2. id = <<d, Max(S)>>
    BY <1>2, <2>1 DEF TicketId
  <2>3. Max(S) \in Nat
    BY <1>3, <1>4
  <2> HIDE DEF S
  <2> QED BY <1>5, <2>1, <2>2, <2>3
<1> QED BY <1>4, <1>6, <1>7

(* In a list of distinct ids, IndexOf finds the place of each record.      *)
LEMMA IndexOfPlace ==
  ASSUME NEW recs \in Seq(Ticket), DistinctIds(recs), NEW i \in DOMAIN recs
  PROVE  IndexOf(recs, recs[i].id) = i
<1>1. recs[i].id \in Ids(recs)
  BY DEF Ids
<1>2. IndexOf(recs, recs[i].id) \in DOMAIN recs
      /\ recs[IndexOf(recs, recs[i].id)].id = recs[i].id
  BY <1>1, IndexOfFinds
<1> QED BY <1>2 DEF DistinctIds

LEMMA BeginCreateFiles ==
  ASSUME IInv, NEW h \in Handler, NEW a \in NewArgs, BeginCreate(h, a),
         pc'[h] = "loaded"
  PROVE  Filing(file, copy'[h])
<1> DEFINE id == NextId(file, today)
           t == NewTicket(id, a)
<1>1. /\ WithinLabelCap(a.labels) /\ id \in TicketId
      /\ copy'[h] = Append(file, t)
  BY DEF BeginCreate, Reply, Hold, LoadFails, IInv, TypeOK
<1>2. t \in Ticket /\ t.id = id
  BY <1>1, NewTicketSound
<1>3. id \notin Ids(file) /\ (id[2] = 1 \/ <<id[1], id[2] - 1>> \in Ids(file))
  BY NextIdFresh, NextIdFollows DEF IInv, TypeOK
<1>4. t.status = "open" /\ t.comments = 0 /\ ~t.closed_at
  BY DEF NewTicket
<1> HIDE DEF t, id
<1> QED BY <1>1, <1>2, <1>3, <1>4 DEF Filing

LEMMA BeginUpdateAmends ==
  ASSUME IInv, NEW h \in Handler, NEW id \in TicketId, NEW e \in Edit,
         BeginUpdate(h, id, e), pc'[h] = "loaded"
  PROVE  Amending(file, copy'[h])
<1> DEFINE i == IndexOf(file, id)
           t == EditedTicket(file[i], e)
<1>1. /\ id \in Ids(file) /\ ~EditRefused(file[i], e)
      /\ copy'[h] = [file EXCEPT ![i] = t]
  BY DEF BeginUpdate, Reply, Hold, LoadFails, IInv, TypeOK
<1>2. i \in DOMAIN file /\ file[i] \in Ticket /\ SoundTicket(file[i])
  BY <1>1, IndexOfFinds DEF IInv, TypeOK, SoundList
<1>3. /\ t \in Ticket /\ t.id = file[i].id
      /\ t.closed_at <=> t.status = "closed"
      /\ file[i].status # "closed"
  BY <1>1, <1>2, EditKeepsSound DEF SoundTicket
<1>4. t.comments \in {file[i].comments, file[i].comments + 1}
  BY DEF EditedTicket
<1> HIDE DEF t, i
<1> QED BY <1>1, <1>2, <1>3, <1>4 DEF Amending

LEMMA SerialStep ==
  ASSUME SerialInv, SerialNext
  PROVE  SerialInv'
<1> USE DEF Writers
<1>1. IInv'
  BY NextIInv DEF SerialInv, SerialNext
<1>2. (\A h, k \in Writers : h = k)'
  BY DEF SerialNext, Alone
<1>3. SUFFICES ASSUME NEW h \in Handler, pc'[h] = "loaded"
               PROVE  Filing(file', copy'[h]) \/ Amending(file', copy'[h])
  BY <1>1, <1>2 DEF SerialInv
<1>4. pc \in [Handler -> {"idle", "loaded", "done"}] /\ copy \in [Handler -> Seq(Ticket)]
  BY DEF SerialInv, IInv, TypeOK
<1>5. CASE Midnight \/ Restart
  BY <1>3, <1>4, <1>5 DEF Midnight, Restart, SerialInv
<1>6. ASSUME NEW k \in Handler, Serve(k)
      PROVE  Filing(file', copy'[h]) \/ Amending(file', copy'[h])
  <2>1. CASE pc[h] = "loaded" /\ k # h
    <3>1. UNCHANGED file /\ copy'[h] = copy[h]
      <4>1. ~Commit(k)
        BY <2>1 DEF Commit, SerialInv
      <4> QED BY <1>4, <1>6, <2>1, <4>1
           DEF Serve, BeginCreate, BeginUpdate, GetTicket, ListTickets,
               CommitFails, Finish, Reply, Hold, LoadFails
    <3> QED BY <2>1, <3>1 DEF SerialInv
  <2>2. CASE pc[h] # "loaded" /\ k # h
    BY <1>3, <1>4, <1>6, <2>2
       DEF Serve, BeginCreate, BeginUpdate, GetTicket, ListTickets,
           Commit, CommitFails, Finish, Reply, Hold, LoadFails
  <2>3. CASE k = h
    <3>1. \/ \E a \in Creates : BeginCreate(h, a)
          \/ \E id \in TicketId, e \in Edits : BeginUpdate(h, id, e)
      BY <1>3, <1>4, <1>6, <2>3
         DEF Serve, GetTicket, ListTickets, Commit, CommitFails, Finish, Reply, LoadFails
    <3>2. file' = file
      BY <3>1 DEF BeginCreate, BeginUpdate, Reply, Hold, LoadFails
    <3> QED BY <1>3, <3>1, <3>2, BeginCreateFiles, BeginUpdateAmends,
               ArgumentsAssumption DEF SerialInv
  <2> QED BY <2>1, <2>2, <2>3
<1> QED BY <1>5, <1>6 DEF SerialNext, Next

LEMMA SerialInductive == SerialInv /\ [SerialNext]_vars => SerialInv'
<1>1. ASSUME SerialInv, UNCHANGED vars PROVE SerialInv'
  <2>1. IInv'
    BY <1>1, NextIInv DEF SerialInv
  <2> QED BY <1>1, <2>1 DEF SerialInv, vars, Writers
<1> QED BY <1>1, SerialStep

LEMMA SerialInit == Init => SerialInv
  BY InitIInv DEF SerialInv, Init, Writers

(* Only Commit changes the file, and it puts a filed or amended copy in    *)
(* its place.                                                              *)
LEMMA SerialWrites ==
  ASSUME SerialInv, [SerialNext]_vars, file' # file
  PROVE  Filing(file, file') \/ Amending(file, file')
<1>1. PICK h \in Handler : Serve(h)
  BY DEF SerialNext, Next, Midnight, Restart, vars
<1>2. Commit(h)
  BY <1>1 DEF Serve, BeginCreate, BeginUpdate, GetTicket, ListTickets,
              CommitFails, Finish, Reply, Hold, LoadFails
<1> QED BY <1>2 DEF Commit, SerialInv, Writers

LEMMA WritesExtend ==
  ASSUME NEW old \in Seq(Ticket), NEW new,
         Filing(old, new) \/ Amending(old, new)
  PROVE  Extends(old, new)
<1>0. \A i \in DOMAIN old : old[i].comments \in Nat
  <2>1. \A i \in DOMAIN old : old[i] \in Ticket
    OBVIOUS
  <2> QED BY <2>1 DEF Ticket
<1>1. CASE Filing(old, new)
  <2>1. PICK t \in Ticket : new = Append(old, t)
    BY <1>1 DEF Filing
  <2>2. Len(old) <= Len(new) /\ \A i \in DOMAIN old : new[i] = old[i]
    BY <2>1
  <2> QED BY <1>0, <2>2 DEF Extends
<1>2. CASE Amending(old, new)
  <2>1. PICK i \in DOMAIN old, t \in Ticket :
          /\ new = [old EXCEPT ![i] = t] /\ t.id = old[i].id
          /\ old[i].status # "closed"
          /\ t.comments \in {old[i].comments, old[i].comments + 1}
    BY <1>2 DEF Amending
  <2>2. Len(new) = Len(old) /\ new[i] = t
        /\ \A j \in DOMAIN old : j # i => new[j] = old[j]
    BY <2>1
  <2> QED BY <1>0, <2>1, <2>2 DEF Extends
<1> QED BY <1>1, <1>2

\* "Append-only when writing": while requests do not overlap, lines keep their
\* place, closed tickets stay closed and no comment is lost.
THEOREM SerialAppendOnly == SerialSpec => AppendOnly
<1>1. SerialInv /\ [SerialNext]_vars => [Extends(file, file')]_file
  BY SerialWrites, WritesExtend DEF SerialInv, IInv, TypeOK
<1> QED BY <1>1, SerialInit, SerialInductive, PTL DEF SerialSpec, AppendOnly

-----------------------------------------------------------------------------
(***************************************************************************)
(* The refinement.  View(recs) is the map the register sees.               *)
(***************************************************************************)
View(recs) == [id \in Ids(recs) |-> recs[IndexOf(recs, id)]]

LEMMA ViewAt ==
  ASSUME NEW recs \in Seq(Ticket), DistinctIds(recs)
  PROVE  /\ DOMAIN View(recs) = Ids(recs)
         /\ \A i \in DOMAIN recs :
              recs[i].id \in Ids(recs) /\ View(recs)[recs[i].id] = recs[i]
  BY IndexOfPlace DEF View, Ids

LEMMA FilingMaps ==
  ASSUME NEW old \in Seq(Ticket), NEW new \in Seq(Ticket),
         DistinctIds(old), DistinctIds(new), Filing(old, new)
  PROVE  \E id \in TicketId :
           /\ id \notin DOMAIN View(old)
           /\ id[2] = 1 \/ <<id[1], id[2] - 1>> \in DOMAIN View(old)
           /\ DOMAIN View(new) = DOMAIN View(old) \cup {id}
           /\ Restrict(View(new), DOMAIN View(old)) = View(old)
           /\ View(new)[id].status = "open"
           /\ View(new)[id].comments = 0
           /\ ~View(new)[id].closed_at
<1>1. PICK t \in Ticket :
        /\ new = Append(old, t)
        /\ t.id \notin Ids(old)
        /\ t.id[2] = 1 \/ <<t.id[1], t.id[2] - 1>> \in Ids(old)
        /\ t.status = "open" /\ t.comments = 0 /\ ~t.closed_at
  BY DEF Filing
<1>2. /\ DOMAIN old = 1..Len(old) /\ Len(old) \in Nat
      /\ DOMAIN new = DOMAIN old \cup {Len(old) + 1}
      /\ \A i \in DOMAIN old : new[i] = old[i]
      /\ new[Len(old) + 1] = t
  BY <1>1
<1>3. Ids(new) = Ids(old) \cup {t.id}
  BY <1>2 DEF Ids
<1>4. View(new)[t.id] = t
  BY <1>2, ViewAt
<1>5. Restrict(View(new), Ids(old)) = View(old)
  <2>1. \A id \in Ids(old) : View(new)[id] = View(old)[id]
    <3> TAKE id \in Ids(old)
    <3>1. PICK i \in DOMAIN old : old[i].id = id
      BY DEF Ids
    <3> QED BY <1>2, <3>1, ViewAt
  <2>2. View(old) = [id \in Ids(old) |-> View(old)[id]]
    BY DEF View
  <2> QED BY <2>1, <2>2 DEF Restrict
<1>6. t.id \in TicketId
  BY DEF Ticket
<1>7. DOMAIN View(old) = Ids(old) /\ DOMAIN View(new) = Ids(new)
  BY DEF View
<1> QED BY <1>1, <1>3, <1>4, <1>5, <1>6, <1>7

LEMMA AmendingMaps ==
  ASSUME NEW old \in Seq(Ticket), NEW new \in Seq(Ticket),
         DistinctIds(old), DistinctIds(new), Amending(old, new)
  PROVE  \E id \in DOMAIN View(old) :
           /\ View(old)[id].status # "closed"
           /\ DOMAIN View(new) = DOMAIN View(old)
           /\ View(new) = [View(old) EXCEPT ![id] = View(new)[id]]
           /\ View(new)[id].comments \in {View(old)[id].comments,
                                          View(old)[id].comments + 1}
           /\ View(new)[id].closed_at <=> View(new)[id].status = "closed"
<1>1. PICK i \in DOMAIN old, t \in Ticket :
        /\ new = [old EXCEPT ![i] = t]
        /\ t.id = old[i].id
        /\ old[i].status # "closed"
        /\ t.comments \in {old[i].comments, old[i].comments + 1}
        /\ t.closed_at <=> t.status = "closed"
  BY DEF Amending
<1>2. /\ DOMAIN new = DOMAIN old /\ new[i] = t
      /\ \A j \in DOMAIN old : j # i => new[j] = old[j]
      /\ \A j \in DOMAIN old : new[j].id = old[j].id
  BY <1>1
<1>3. Ids(new) = Ids(old)
  BY <1>2 DEF Ids
<1>4. DOMAIN View(old) = Ids(old) /\ DOMAIN View(new) = Ids(old)
  BY <1>3 DEF View
<1>5. t.id \in Ids(old) /\ View(old)[t.id] = old[i] /\ View(new)[t.id] = t
  <2>1. old[i].id \in Ids(old) /\ View(old)[old[i].id] = old[i]
    BY ViewAt
  <2>2. View(new)[new[i].id] = new[i]
    BY <1>2, ViewAt
  <2> QED BY <1>1, <1>2, <2>1, <2>2
<1>6. \A id \in Ids(old) : id # t.id => View(new)[id] = View(old)[id]
  <2> TAKE id \in Ids(old)
  <2>1. PICK j \in DOMAIN old : old[j].id = id
    BY DEF Ids
  <2> QED BY <1>1, <1>2, <2>1, ViewAt
<1>7. View(new) = [View(old) EXCEPT ![t.id] = View(new)[t.id]]
  <2>1. /\ View(old) = [id \in Ids(old) |-> View(old)[id]]
        /\ View(new) = [id \in Ids(old) |-> View(new)[id]]
    BY <1>3 DEF View
  <2> QED BY <1>5, <1>6, <2>1
<1>8. t.id \in DOMAIN View(old)
  BY <1>4, <1>5
<1> HIDE DEF View
<1> WITNESS t.id \in DOMAIN View(old)
<1>9. View(old)[t.id].status # "closed"
  BY <1>1, <1>5
<1>10. DOMAIN View(new) = DOMAIN View(old)
  BY <1>4
<1>11. View(new)[t.id].comments \in {View(old)[t.id].comments,
                                     View(old)[t.id].comments + 1}
  BY <1>1, <1>5
<1>12. View(new)[t.id].closed_at <=> View(new)[t.id].status = "closed"
  BY <1>1, <1>5
<1> QED BY <1>7, <1>9, <1>10, <1>11, <1>12

\* While requests do not overlap, the file with its read-modify-write tools is
\* the atomic register of tickets that TicketRegister describes.
THEOREM SerialRefinement == SerialSpec => ImplementsRegister
<1>1. Init => Register!Init
  <2> SUFFICES ASSUME Init PROVE Register!Init
    OBVIOUS
  <2>1. Ids(file) = {}
    BY DEF Init, Ids
  <2> QED BY <2>1 DEF Register!Init
<1>2. SerialInv /\ SerialInv' /\ [SerialNext]_vars
        => [Register!Next]_(View(file))
  <2>1. file' = file => View(file)' = View(file)
    BY DEF View, Ids, IndexOf
  <2> SUFFICES ASSUME SerialInv, SerialInv', [SerialNext]_vars, file' # file
               PROVE  Register!Next
    BY <2>1
  <2>3. /\ file \in Seq(Ticket) /\ file' \in Seq(Ticket)
        /\ DistinctIds(file) /\ DistinctIds(file')
    <3>1. file \in Seq(Ticket) /\ file' \in Seq(Ticket)
      BY DEF SerialInv, IInv, TypeOK
    <3>2. DistinctIds(file) /\ DistinctIds(file)'
      BY DEF SerialInv, IInv, SoundList
    <3>3. DistinctIds(file') = DistinctIds(file)'
      BY DEF DistinctIds
    <3> QED BY <3>1, <3>2, <3>3
  <2>4. CASE Filing(file, file')
    <3>1. PICK id \in TicketId :
           /\ id \notin DOMAIN View(file)
           /\ id[2] = 1 \/ <<id[1], id[2] - 1>> \in DOMAIN View(file)
           /\ DOMAIN View(file') = DOMAIN View(file) \cup {id}
           /\ Restrict(View(file'), DOMAIN View(file)) = View(file)
           /\ View(file')[id].status = "open"
           /\ View(file')[id].comments = 0
           /\ ~View(file')[id].closed_at
      BY <2>3, <2>4, FilingMaps
    <3>2. Register!File(id)
      BY <3>1 DEF Register!File, View, Restrict, Register!Restrict
    <3> QED BY <3>2 DEF Register!Next
  <2>5. CASE Amending(file, file')
    <3>1. PICK id \in DOMAIN View(file) :
           /\ View(file)[id].status # "closed"
           /\ DOMAIN View(file') = DOMAIN View(file)
           /\ View(file') = [View(file) EXCEPT ![id] = View(file')[id]]
           /\ View(file')[id].comments \in {View(file)[id].comments,
                                            View(file)[id].comments + 1}
           /\ View(file')[id].closed_at <=> View(file')[id].status = "closed"
      BY <2>3, <2>5, AmendingMaps
    <3>2. Register!Amend(id)
      BY <3>1 DEF Register!Amend, View
    <3>3. id \in DOMAIN [x \in Ids(file) |-> file[IndexOf(file, x)]]
      BY DEF View
    <3> QED BY <3>2, <3>3 DEF Register!Next
  <2> QED BY <2>4, <2>5, SerialWrites
<1> QED
  BY <1>1, <1>2, SerialInit, SerialInductive, PTL
     DEF SerialSpec, ImplementsRegister, Register!Spec, View

-----------------------------------------------------------------------------
(***************************************************************************)
(* The helper's calls.  A call and the threads that still serve one of its *)
(* attempts count together: each attempt hands the server one request, and *)
(* what a thread has committed it no longer holds.                         *)
(***************************************************************************)
Serving(c) == {h \in Handler : owner[h] = c /\ pc[h] = "loaded"}

\* The attempts that reached the server or were refused on the way.
Tried(c) == IF state[c] \in {"ready", "connecting"} THEN attempt[c] - 1 ELSE attempt[c]

\* What the thread that a call waits for is about to answer it.
Truthful(c, h) ==
  owner[h] = c /\ pc[h] = "done" =>
    /\ answer[h].code = 200 => Len(wrote[c]) >= 1
    /\ attempt[c] = 1 /\ answer[h].code # 200 => Len(wrote[c]) = 0

CallOK(c) ==
  /\ IsFiniteSet(Serving(c)) /\ Len(wrote[c]) + Cardinality(Serving(c)) <= Tried(c)
  /\ state[c] = "waiting" <=> line[c] # None
  /\ attempt[c] = 1 => Serving(c) \subseteq {line[c]}
  /\ attempt[c] = 1 /\ state[c] \in Ended => Len(wrote[c]) = IF state[c] = "ok" THEN 1 ELSE 0
  /\ state[c] = "ok" => Len(wrote[c]) >= 1
  /\ \A i \in DOMAIN wrote[c] : Obeys(wrote[c][i], ask[c])
  /\ \A h \in Handler : line[c] = h => Truthful(c, h)

\* A thread that is about to write holds the ticket that its call asked for.
Apt(h) ==
  pc[h] = "loaded" =>
    /\ answer[h] \in [code: {200}, ticket: Ticket] /\ owner[h] \in Call
    /\ Obeys(answer[h].ticket, ask[owner[h]])

ClientInv ==
  /\ IInv /\ ClientTypeOK
  /\ \A h \in Handler : Apt(h)
  /\ \A c \in Call : CallOK(c)

\* What the begin of a create or an update does to its thread: the request is
\* refused at once, or the answer is ready and the copy still to be written.
Begun(h, a) ==
  /\ answer' = [answer EXCEPT ![h] = a]
  /\ \/ pc' = [pc EXCEPT ![h] = "loaded"] /\ a.code = 200
     \/ pc' = [pc EXCEPT ![h] = "done"] /\ a.code # 200

LEMMA BeginAnswers ==
  ASSUME TypeOK, NEW h \in Handler,
         \/ \E a \in NewArgs : BeginCreate(h, a)
         \/ \E id \in TicketId, e \in Edit : BeginUpdate(h, id, e)
  PROVE  pc[h] = "idle" /\ \E a : Begun(h, a)
<1>1. ASSUME NEW r, NEW code \in {400, 403, 404, 500}, Reply(h, r, Refusal(code))
      PROVE  \E a : Begun(h, a)
  <2>1. Refusal(code).code # 200 BY DEF Refusal
  <2>2. Begun(h, Refusal(code)) BY <1>1, <2>1 DEF Reply, Begun
  <2>. QED BY <2>2
<1>2. ASSUME NEW r, NEW recs, NEW t, Hold(h, r, recs, t)
      PROVE  \E a : Begun(h, a)
  <2>1. Begun(h, [code |-> 200, ticket |-> t]) BY <1>2 DEF Hold, Begun
  <2>. QED BY <2>1
<1>3. CASE \E a \in NewArgs : BeginCreate(h, a)
  BY <1>1, <1>2, <1>3 DEF BeginCreate, LoadFails, TroubleCodes
<1>4. CASE \E id \in TicketId, e \in Edit : BeginUpdate(h, id, e)
  BY <1>1, <1>2, <1>4 DEF BeginUpdate, LoadFails, TroubleCodes
<1>. QED BY <1>3, <1>4

\* The payload that _validate_update_args builds is an edit.
LEMMA PayloadEdits ==
  ASSUME NEW e \in Edit
  PROVE  Payload(e) \in Edit
BY DEF Payload, Edit

\* What a call asks for is something that the server can be asked.
LEMMA ConnectBegins ==
  ASSUME ClientTypeOK, NEW c \in Call, NEW h \in Handler, Connect(c, h)
  PROVE  \/ \E a \in NewArgs : BeginCreate(h, a)
         \/ \E id \in TicketId, e \in Edit : BeginUpdate(h, id, e)
<1>1. ask[c] \in Ask BY DEF ClientTypeOK
<1>2. CASE ask[c].op = "create"
  <2>1. ask[c].args \in NewArgs BY <1>1, <1>2 DEF Ask
  <2>. QED BY <1>2, <2>1 DEF Connect
<1>3. CASE ask[c].op # "create"
  <2>1. ask[c].id \in TicketId /\ ask[c].edit \in Edit BY <1>1, <1>3 DEF Ask
  <2>2. Payload(ask[c].edit) \in Edit BY <2>1, PayloadEdits
  <2>3. BeginUpdate(h, ask[c].id, Payload(ask[c].edit)) BY <1>3 DEF Connect
  <2>. QED BY <2>1, <2>2, <2>3
<1>. QED BY <1>2, <1>3

\* An edit of the payload does to a ticket what the caller's edit says of it.
LEMMA PayloadObeyed ==
  ASSUME NEW t \in Ticket, NEW a \in Ask, a.op = "update", t.id = a.id,
         EditedTicket(t, Payload(a.edit)) \in Ticket
  PROVE  Obeys(EditedTicket(t, Payload(a.edit)), a)
<1> DEFINE e == a.edit
           p == Payload(e)
           u == EditedTicket(t, p)
<1>1. e \in Edit BY DEF Ask
<1>2. /\ p.status = e.status /\ p.comment = e.comment /\ p.add = e.add
      /\ p.remove = e.remove /\ (e.assignee = Nobody => p.assignee = Nobody)
  BY <1>1 DEF Payload, Edit
<1>3. u.id = a.id BY DEF EditedTicket
<1>4. e.status # Keep => u.status = e.status BY <1>2 DEF EditedTicket
<1>5. e.assignee = Nobody => u.assignee = Nobody
  BY <1>2, SentinelAssumption DEF EditedTicket
<1>6. e.comment => u.comments > 0
  <2>1. e.comment => u.comments = t.comments + 1 BY <1>2 DEF EditedTicket
  <2>2. t.comments \in Nat BY DEF Ticket
  <2>. HIDE DEF u
  <2>. QED BY <2>1, <2>2
<1>7. \A l \in e.add : e.remove[l] = 0 => u.labels[l] > 0
  <2>. SUFFICES ASSUME NEW l \in e.add, e.remove[l] = 0 PROVE u.labels[l] > 0 OBVIOUS
  <2>1. l \in Label /\ t.labels[l] \in Nat BY <1>1 DEF Edit, Ticket, LabelBag
  <2> DEFINE n == IF t.labels[l] = 0 THEN 1 ELSE t.labels[l]
  <2>2. n \in Nat /\ n > 0 BY <2>1
  <2>3. u.labels[l] = IF p.remove[l] <= n THEN n - p.remove[l] ELSE 0
    BY <1>2, <2>1 DEF EditedTicket, EditedLabels
  <2>. HIDE DEF n, u, p
  <2>. QED BY <1>2, <2>2, <2>3
<1>. QED BY <1>3, <1>4, <1>5, <1>6, <1>7 DEF Obeys

\* What a thread is about to write for a call is what the call asked for.
LEMMA ConnectApt ==
  ASSUME IInv, ClientTypeOK, NEW c \in Call, NEW h \in Handler, Connect(c, h),
         pc'[h] = "loaded"
  PROVE  answer'[h] \in [code: {200}, ticket: Ticket] /\ Obeys(answer'[h].ticket, ask[c])
<1>1. ask[c] \in Ask BY DEF ClientTypeOK
<1>2. pc \in [Handler -> {"idle", "loaded", "done"}] /\ DOMAIN answer = Handler
  BY DEF IInv, TypeOK
<1>3. CASE ask[c].op = "create"
  <2> DEFINE a == ask[c].args
             id == NextId(file, today)
             t == NewTicket(id, a)
  <2>1. a \in NewArgs BY <1>1, <1>3 DEF Ask
  <2>2. /\ WithinLabelCap(a.labels) /\ id \in TicketId
        /\ answer'[h] = [code |-> 200, ticket |-> t]
    BY <1>2, <1>3 DEF Connect, BeginCreate, Reply, Hold, LoadFails
  <2>3. t \in Ticket BY <2>1, <2>2, NewTicketSound
  <2>4. Obeys(t, ask[c]) BY <1>3 DEF Obeys, NewTicket
  <2>. HIDE DEF t
  <2>. QED BY <2>2, <2>3, <2>4
<1>4. CASE ask[c].op = "update"
  <2> DEFINE e == Payload(ask[c].edit)
             i == IndexOf(file, ask[c].id)
             t == EditedTicket(file[i], e)
  <2>1. ask[c].id \in TicketId /\ ask[c].edit \in Edit /\ e \in Edit
    BY <1>1, <1>4, PayloadEdits DEF Ask
  <2>2. /\ ask[c].id \in Ids(file) /\ ~EditRefused(file[i], e)
        /\ answer'[h] = [code |-> 200, ticket |-> t]
    BY <1>2, <1>4 DEF Connect, BeginUpdate, Reply, Hold, LoadFails
  <2>3. file[i] \in Ticket /\ SoundTicket(file[i]) /\ file[i].id = ask[c].id
    BY <2>2, IndexOfFinds DEF IInv, TypeOK, SoundList
  <2>4. t \in Ticket BY <2>1, <2>2, <2>3, EditKeepsSound
  <2>5. Obeys(t, ask[c]) BY <1>1, <1>4, <2>3, <2>4, PayloadObeyed
  <2>. HIDE DEF t
  <2>. QED BY <2>2, <2>4, <2>5
<1>. QED BY <1>1, <1>3, <1>4 DEF Ask

\* Whatever the clients do, the server's invariant is kept.
LEMMA ServerKept == ClientTypeOK /\ IInv /\ [ClientNext]_allVars => IInv'
<1>. SUFFICES ASSUME ClientTypeOK, IInv, [ClientNext]_allVars PROVE IInv' OBVIOUS
<1>1. ASSUME NEW c \in Call, NEW h \in Handler, Connect(c, h) PROVE IInv'
  BY <1>1, ConnectBegins, CreateIInv, UpdateIInv
<1>2. [Next]_vars => IInv' BY NextIInv
<1>3. ASSUME NEW h \in Handler, Serve(h) PROVE IInv' BY <1>3, ServeIInv
<1>4. ASSUME NEW c \in Call, Start(c) \/ Refused(c) \/ Timeout(c) PROVE IInv'
  <2>1. UNCHANGED vars BY <1>4 DEF Start, Refused, Timeout
  <2>. QED BY <1>2, <2>1
<1>5. ASSUME NEW c \in Call, NEW h \in Handler, Receive(c, h) PROVE IInv'
  BY <1>3, <1>5 DEF Receive, Serve
<1>6. ASSUME NEW h \in Handler, ServerCommit(h) \/ ServerCommitFails(h) \/ FinishUnheard(h)
      PROVE  IInv'
  BY <1>3, <1>6 DEF ServerCommit, ServerCommitFails, FinishUnheard, Serve
<1>7. CASE Midnight \/ ServerRestart BY <1>2, <1>7 DEF ServerRestart, Next
<1>8. CASE UNCHANGED allVars BY <1>2, <1>8 DEF allVars
<1>. QED BY <1>1, <1>4, <1>5, <1>6, <1>7, <1>8 DEF ClientNext

\* A call that is at its first or second attempt goes on, or ends.
LEMMA RetryTyped ==
  ASSUME ClientTypeOK, NEW c \in Call, Retry(c)
  PROVE  /\ state' \in [Call -> {"ready", "connecting", "waiting"} \cup Ended]
         /\ attempt' \in [Call -> {1, 2}]
BY DEF ClientTypeOK, Retry, Ended

LEMMA ClientTyped == ClientInv /\ [ClientNext]_allVars => ClientTypeOK'
<1>. SUFFICES ASSUME ClientInv, [ClientNext]_allVars PROVE ClientTypeOK' OBVIOUS
<1>0. TypeOK' /\ ClientTypeOK BY ServerKept DEF IInv, ClientInv
<1>1. ASSUME NEW c \in Call, Start(c) \/ Refused(c) \/ Timeout(c) PROVE ClientTypeOK'
  <2>1. CASE Start(c) BY <1>0, <2>1 DEF ClientTypeOK, Start
  <2>2. CASE Refused(c) BY <1>0, <2>2, RetryTyped DEF ClientTypeOK, Refused
  <2>3. CASE Timeout(c) BY <1>0, <2>3, RetryTyped DEF ClientTypeOK, Timeout
  <2>. QED BY <1>1, <2>1, <2>2, <2>3
<1>2. ASSUME NEW c \in Call, NEW h \in Handler, Connect(c, h) PROVE ClientTypeOK'
  BY <1>0, <1>2 DEF ClientTypeOK, Connect
<1>3. ASSUME NEW c \in Call, NEW h \in Handler, Receive(c, h) PROVE ClientTypeOK'
  <2>1. /\ state' \in [Call -> {"ready", "connecting", "waiting"} \cup Ended]
        /\ attempt' \in [Call -> {1, 2}]
    <3>1. state \in [Call -> {"ready", "connecting", "waiting"} \cup Ended]
          /\ attempt \in [Call -> {1, 2}]
      BY <1>0 DEF ClientTypeOK
    <3>2. CASE Retry(c) BY <1>0, <3>2, RetryTyped
    <3>3. CASE ~Retry(c)
      <4>1. attempt' = attempt /\ \E e \in Ended : state' = [state EXCEPT ![c] = e]
        BY <1>3, <3>3 DEF Receive, Ended
      <4>. QED BY <3>1, <4>1
    <3>. QED BY <3>2, <3>3
  <2>. QED BY <1>0, <1>3, <2>1 DEF ClientTypeOK, Receive
<1>4. ASSUME NEW h \in Handler, ServerCommit(h) \/ ServerCommitFails(h) \/ FinishUnheard(h)
      PROVE  ClientTypeOK'
  <2>1. ASSUME ServerCommit(h) PROVE wrote' \in [Call -> Seq(Ticket)]
    <3>1. pc[h] = "loaded" /\ wrote' = [wrote EXCEPT ![owner[h]] = Append(@, answer[h].ticket)]
      BY <2>1 DEF ServerCommit, Commit
    <3>2. answer[h].ticket \in Ticket BY <3>1 DEF ClientInv, Apt
    <3>3. owner[h] \in Call /\ wrote[owner[h]] \in Seq(Ticket)
      BY <1>0, <3>1 DEF ClientTypeOK, ClientInv, Apt
    <3>4. Append(wrote[owner[h]], answer[h].ticket) \in Seq(Ticket) BY <3>2, <3>3
    <3>. QED BY <1>0, <3>1, <3>4 DEF ClientTypeOK
  <2>2. CASE ServerCommit(h) BY <1>0, <2>1, <2>2 DEF ClientTypeOK, ServerCommit
  <2>. QED BY <1>0, <1>4, <2>2 DEF ClientTypeOK, ServerCommitFails, FinishUnheard, callVars
<1>5. CASE Midnight /\ UNCHANGED callVars BY <1>0, <1>5 DEF ClientTypeOK, callVars
<1>6. CASE ServerRestart BY <1>0, <1>6 DEF ClientTypeOK, ServerRestart
<1>7. CASE UNCHANGED allVars BY <1>0, <1>7 DEF ClientTypeOK, allVars, callVars
<1>. QED BY <1>1, <1>2, <1>3, <1>4, <1>5, <1>6, <1>7 DEF ClientNext

\* A step that leaves a call where it is, and gives it no thread and no answer
\* that it did not have, keeps what is known of the call.
Unmoved(c) ==
  /\ state'[c] = state[c] /\ attempt'[c] = attempt[c]
  /\ line'[c] = line[c] /\ wrote'[c] = wrote[c] /\ ask'[c] = ask[c]
  /\ \A h \in Handler : owner'[h] = c /\ pc'[h] \in {"loaded", "done"} =>
       owner[h] = c /\ pc'[h] = pc[h] /\ answer'[h] = answer[h]

LEMMA UnmovedOK ==
  ASSUME ClientTypeOK, NEW c \in Call, CallOK(c), Unmoved(c)
  PROVE  CallOK(c)'
<1>1. Serving(c)' \subseteq Serving(c) BY DEF Serving, Unmoved
<1>2. /\ IsFiniteSet(Serving(c))'
      /\ Cardinality(Serving(c))' <= Cardinality(Serving(c))
      /\ Cardinality(Serving(c))' \in Nat /\ Cardinality(Serving(c)) \in Nat
  BY <1>1, FS_Subset, FS_CardinalityType DEF CallOK
<1>3. Tried(c)' = Tried(c) BY DEF Tried, Unmoved
<1>4. \A h \in Handler : line'[c] = h => Truthful(c, h)'
  BY DEF CallOK, Truthful, Unmoved
<1>5. Len(wrote'[c]) + Cardinality(Serving(c))' <= Tried(c)'
  <2>1. Len(wrote[c]) \in Nat /\ Tried(c) \in Int BY DEF ClientTypeOK, Tried
  <2>2. Len(wrote[c]) + Cardinality(Serving(c)) <= Tried(c) /\ wrote'[c] = wrote[c]
    BY DEF CallOK, Unmoved
  <2>. QED BY <1>2, <1>3, <2>1, <2>2
<1>. QED BY <1>1, <1>2, <1>4, <1>5 DEF CallOK, Unmoved

\* The threads of the server do not move when a client starts or gives up.
LEMMA ClientStepOK ==
  ASSUME ClientInv, NEW c \in Call, Start(c) \/ Refused(c) \/ Timeout(c)
  PROVE  \A d \in Call : CallOK(d)'
<1>0. UNCHANGED <<pc, answer, owner, wrote, ask>>
  BY DEF Start, Refused, Timeout, vars
<1>1. \A d \in Call \ {c} : Unmoved(d)
  BY <1>0 DEF Start, Refused, Timeout, Retry, Unmoved, ClientInv, ClientTypeOK
<1>2. Serving(c)' = Serving(c) BY <1>0 DEF Serving
<1>3. Cardinality(Serving(c)) \in Nat /\ IsFiniteSet(Serving(c)) /\ Len(wrote[c]) \in Nat
  BY FS_CardinalityType DEF ClientInv, CallOK, ClientTypeOK
<1>5. (\A i \in DOMAIN wrote[c] : Obeys(wrote[c][i], ask[c]))'
  BY <1>0 DEF ClientInv, CallOK
<1>4. CallOK(c)'
  <2>1. CASE Start(c)
    <3>1. Tried(c)' = Tried(c) BY <2>1 DEF Tried, Start, ClientInv, ClientTypeOK
    <3>2. /\ state[c] = "ready" /\ state'[c] = "connecting"
          /\ attempt' = attempt /\ line' = line /\ wrote' = wrote
      BY <2>1 DEF Start, ClientInv, ClientTypeOK
    <3>. QED BY <1>0, <1>2, <3>1, <3>2 DEF ClientInv, CallOK, Truthful, Ended
  <2>2. CASE Refused(c) \/ Timeout(c)
    <3>1. /\ state[c] \in {"connecting", "waiting"} /\ Retry(c)
          /\ line'[c] = None /\ wrote' = wrote
      BY <2>2 DEF Refused, Timeout, ClientInv, ClientTypeOK, CallOK
    <3>2. CASE attempt[c] = 1
      <4>1. state'[c] = "connecting" /\ attempt'[c] = 2
        BY <3>1, <3>2 DEF Retry, ClientInv, ClientTypeOK
      <4>2. Tried(c) <= 1 /\ Tried(c)' = 1 BY <3>1, <3>2, <4>1 DEF Tried
      <4>3. Len(wrote[c]) + Cardinality(Serving(c)) <= 1
        <5>1. Tried(c) \in Int BY <3>2 DEF Tried
        <5>. QED BY <1>3, <4>2, <5>1 DEF ClientInv, CallOK
      <4>. QED BY <1>2, <1>3, <1>5, <3>1, <4>1, <4>2, <4>3, ClientAssumption DEF CallOK, Ended
    <3>3. CASE attempt[c] = 2
      <4>1. state'[c] = "none" /\ attempt'[c] = 2
        BY <3>1, <3>3 DEF Retry, ClientInv, ClientTypeOK
      <4>2. Tried(c) \in {1, 2} /\ Tried(c)' = 2 BY <3>1, <3>3, <4>1 DEF Tried
      <4>3. Len(wrote[c]) + Cardinality(Serving(c)) <= 2
        BY <1>3, <4>2 DEF ClientInv, CallOK
      <4>. QED BY <1>2, <1>3, <1>5, <3>1, <4>1, <4>2, <4>3, ClientAssumption DEF CallOK, Ended
    <3>. QED BY <3>2, <3>3 DEF ClientInv, ClientTypeOK
  <2>. QED BY <2>1, <2>2
<1>. QED BY <1>1, <1>4, UnmovedOK DEF ClientInv

\* A thread that takes a request was idle: it served nobody.
LEMMA ConnectOK ==
  ASSUME ClientInv, NEW c \in Call, NEW h \in Handler, Connect(c, h)
  PROVE  /\ \A d \in Call : CallOK(d)'
         /\ \A k \in Handler : Apt(k)'
<1>1. PICK a : /\ pc[h] = "idle" /\ answer' = [answer EXCEPT ![h] = a]
               /\ \/ pc' = [pc EXCEPT ![h] = "loaded"] /\ a.code = 200
                  \/ pc' = [pc EXCEPT ![h] = "done"] /\ a.code # 200
  BY ConnectBegins, BeginAnswers DEF ClientInv, IInv, Begun
<1>2. /\ state[c] = "connecting" /\ state' = [state EXCEPT ![c] = "waiting"]
      /\ line' = [line EXCEPT ![c] = h] /\ owner' = [owner EXCEPT ![h] = c]
      /\ attempt' = attempt /\ wrote' = wrote /\ ask' = ask
  BY DEF Connect
<1>3. pc \in [Handler -> {"idle", "loaded", "done"}] /\ DOMAIN answer = Handler
  BY DEF ClientInv, IInv, TypeOK
<1>4. \A k \in Handler \ {h} : pc'[k] = pc[k] /\ answer'[k] = answer[k]
  BY <1>1, <1>3
<1>5. answer'[h] = a BY <1>1, <1>3
<1>6. \A d \in Call \ {c} : Unmoved(d)
  BY <1>2, <1>4 DEF Unmoved, ClientInv, ClientTypeOK
<1>7. Serving(c)' \subseteq Serving(c) \cup {h} /\ h \notin Serving(c)
  BY <1>1, <1>2, <1>4 DEF Serving, ClientInv, ClientTypeOK
<1>8. /\ IsFiniteSet(Serving(c)) /\ Len(wrote[c]) \in Nat
      /\ Len(wrote[c]) + Cardinality(Serving(c)) <= attempt[c] - 1
      /\ attempt[c] \in {1, 2} /\ line[c] = None
  BY <1>2 DEF ClientInv, CallOK, ClientTypeOK, Tried
<1>9. /\ IsFiniteSet(Serving(c))'
      /\ Cardinality(Serving(c))' <= Cardinality(Serving(c)) + 1
      /\ Cardinality(Serving(c)) \in Nat /\ Cardinality(Serving(c))' \in Nat
  <2>1. /\ IsFiniteSet(Serving(c) \cup {h})
        /\ Cardinality(Serving(c) \cup {h}) = Cardinality(Serving(c)) + 1
    BY <1>7, <1>8, FS_AddElement
  <2>. QED BY <1>7, <1>8, <2>1, FS_Subset, FS_CardinalityType
<1>10. CallOK(c)'
  <2>1. state'[c] = "waiting" /\ line'[c] = h /\ attempt'[c] = attempt[c]
    BY <1>2 DEF ClientInv, ClientTypeOK
  <2>2. Tried(c)' = attempt[c] BY <2>1 DEF Tried
  <2>3. Len(wrote'[c]) + Cardinality(Serving(c))' <= Tried(c)' BY <1>2, <1>8, <1>9, <2>2
  <2>4. attempt[c] = 1 => Serving(c)' \subseteq {h}
    <3>1. attempt[c] = 1 => Serving(c) \subseteq {None} BY <1>8 DEF ClientInv, CallOK
    <3>2. None \notin Serving(c) BY ClientAssumption DEF Serving
    <3>. QED BY <1>7, <3>1, <3>2
  <2>5. Truthful(c, h)'
    <3>. SUFFICES ASSUME pc'[h] = "done" PROVE a.code # 200 /\ (attempt[c] = 1 => Len(wrote[c]) = 0)
      BY <1>2, <1>5 DEF Truthful
    <3>1. a.code # 200 BY <1>1, <1>3
    <3>2. attempt[c] = 1 => Len(wrote[c]) = 0 BY <1>8, <1>9
    <3>. QED BY <3>1, <3>2
  <2>6. (\A i \in DOMAIN wrote[c] : Obeys(wrote[c][i], ask[c]))'
    BY <1>2 DEF ClientInv, CallOK
  <2>. QED BY <1>9, <2>1, <2>3, <2>4, <2>5, <2>6, ClientAssumption DEF CallOK, Ended
<1>11. \A k \in Handler : Apt(k)'
  <2>1. Apt(h)' BY <1>2, ConnectApt DEF Apt, ClientInv, ClientTypeOK
  <2>2. ASSUME NEW k \in Handler \ {h} PROVE Apt(k)'
    <3>1. owner'[k] = owner[k] /\ ask' = ask BY <1>2 DEF ClientInv, ClientTypeOK
    <3>2. pc'[k] = pc[k] /\ answer'[k] = answer[k] BY <1>4
    <3>3. Apt(k) BY DEF ClientInv
    <3>. QED BY <3>1, <3>2, <3>3 DEF Apt
  <2>. QED BY <2>1, <2>2
<1>. QED BY <1>6, <1>10, <1>11, UnmovedOK DEF ClientInv

\* An answer in time: its thread was done with the request.
LEMMA ReceiveOK ==
  ASSUME ClientInv, NEW c \in Call, NEW h \in Handler, Receive(c, h)
  PROVE  \A d \in Call : CallOK(d)'
<1>1. /\ pc[h] = "done" /\ pc' = [pc EXCEPT ![h] = "idle"]
      /\ answer' = [answer EXCEPT ![h] = NoAnswer]
      /\ state[c] = "waiting" /\ line[c] = h /\ owner[h] = c
      /\ line' = [line EXCEPT ![c] = None] /\ owner' = owner /\ wrote' = wrote
      /\ ask' = ask
  BY DEF Receive, Finish
<1>2. pc \in [Handler -> {"idle", "loaded", "done"}] /\ DOMAIN answer = Handler
  BY DEF ClientInv, IInv, TypeOK
<1>3. \A d \in Call \ {c} : Unmoved(d)
  <2>1. \A d \in Call \ {c} : /\ state'[d] = state[d] /\ attempt'[d] = attempt[d]
                              /\ line'[d] = line[d]
    BY <1>1 DEF Receive, Retry, ClientInv, ClientTypeOK
  <2>. QED BY <1>1, <1>2, <2>1 DEF Unmoved
<1>4. Serving(c)' = Serving(c) BY <1>1, <1>2 DEF Serving
<1>5. /\ Cardinality(Serving(c)) \in Nat /\ IsFiniteSet(Serving(c)) /\ Len(wrote[c]) \in Nat
      /\ Len(wrote[c]) + Cardinality(Serving(c)) <= attempt[c] /\ attempt[c] \in {1, 2}
      /\ Truthful(c, h) /\ line'[c] = None
      /\ attempt[c] = 1 => Serving(c) \subseteq {h}
  <2>1. Tried(c) = attempt[c] BY <1>1 DEF Tried
  <2>2. CallOK(c) /\ ClientTypeOK BY DEF ClientInv
  <2>3. Truthful(c, h) BY <1>1, <2>2 DEF CallOK
  <2>4. line'[c] = None BY <1>1, <2>2 DEF ClientTypeOK
  <2>5. IsFiniteSet(Serving(c)) /\ Len(wrote[c]) + Cardinality(Serving(c)) <= attempt[c]
    BY <2>1, <2>2 DEF CallOK
  <2>6. attempt[c] = 1 => Serving(c) \subseteq {h} BY <1>1, <2>2 DEF CallOK
  <2>. QED BY <2>2, <2>3, <2>4, <2>5, <2>6, FS_CardinalityType DEF ClientTypeOK
<1>6. h \notin Serving(c) BY <1>1 DEF Serving
<1>7. attempt[c] = 1 => Len(wrote[c]) = IF answer[h].code = 200 THEN 1 ELSE 0
  BY <1>1, <1>5 DEF Truthful
<1>8. \/ state'[c] = "ok" /\ attempt'[c] = attempt[c] /\ answer[h].code = 200
      \/ state'[c] \in {"none", "raised"} /\ attempt'[c] = attempt[c]
           /\ (attempt[c] = 1 => answer[h].code # 200)
      \/ state'[c] = "connecting" /\ attempt[c] = 1 /\ attempt'[c] = 2
  BY <1>1, <1>5 DEF Receive, Retry, ClientInv, ClientTypeOK
<1>9. Len(wrote'[c]) + Cardinality(Serving(c))' <= Tried(c)'
  BY <1>1, <1>4, <1>5, <1>8 DEF Tried
<1>10. answer[h].code = 200 => Len(wrote[c]) >= 1 BY <1>1, <1>5 DEF Truthful
<1>11. CallOK(c)'
  <2>1. (\A i \in DOMAIN wrote[c] : Obeys(wrote[c][i], ask[c]))'
    BY <1>1 DEF ClientInv, CallOK
  <2>. QED BY <1>1, <1>4, <1>5, <1>6, <1>7, <1>8, <1>9, <1>10, <2>1, ClientAssumption
          DEF CallOK, Ended
<1>. QED BY <1>3, <1>11, UnmovedOK DEF ClientInv

\* A thread's write, or the failure of it, is the call's whose attempt it serves.
LEMMA ServerOK ==
  ASSUME ClientInv, NEW h \in Handler,
         ServerCommit(h) \/ ServerCommitFails(h) \/ FinishUnheard(h)
  PROVE  \A d \in Call : CallOK(d)'
<1>1. UNCHANGED <<state, ask, attempt, line, owner>>
  BY DEF ServerCommit, ServerCommitFails, FinishUnheard, callVars
<1>2. pc \in [Handler -> {"idle", "loaded", "done"}] /\ DOMAIN answer = Handler
  BY DEF ClientInv, IInv, TypeOK
<1>3. CASE FinishUnheard(h)
  <2>1. /\ pc' = [pc EXCEPT ![h] = "idle"] /\ answer' = [answer EXCEPT ![h] = NoAnswer]
        /\ wrote' = wrote
    BY <1>3 DEF FinishUnheard, Finish, callVars
  <2>2. \A d \in Call : Unmoved(d) BY <1>1, <1>2, <2>1 DEF Unmoved
  <2>. QED BY <2>2, UnmovedOK DEF ClientInv
<1>4. CASE ServerCommit(h) \/ ServerCommitFails(h)
  <2>1. /\ pc[h] = "loaded" /\ pc' = [pc EXCEPT ![h] = "done"]
        /\ \/ /\ answer' = answer
              /\ wrote' = [wrote EXCEPT ![owner[h]] = Append(@, answer[h].ticket)]
           \/ /\ \E r \in TroubleCodes : answer' = [answer EXCEPT ![h] = Refusal(r)]
              /\ wrote' = wrote
    BY <1>4 DEF ServerCommit, ServerCommitFails, Commit, CommitFails, callVars
  <2>2. \A k \in Handler \ {h} : pc'[k] = pc[k] /\ answer'[k] = answer[k]
    BY <1>2, <2>1
  <2>3. \A d \in Call : owner[h] # d => Unmoved(d)
    BY <1>1, <2>1, <2>2 DEF Unmoved, ClientInv, ClientTypeOK
  <2>4. ASSUME NEW d \in Call, owner[h] = d PROVE CallOK(d)'
    <3>1. h \in Serving(d) BY <2>1, <2>4 DEF Serving
    <3>2. Serving(d)' = Serving(d) \ {h}
      BY <1>1, <1>2, <2>1, <2>2 DEF Serving
    <3>3. /\ IsFiniteSet(Serving(d))
          /\ Len(wrote[d]) + Cardinality(Serving(d)) <= Tried(d) /\ Len(wrote[d]) \in Nat
          /\ Tried(d) <= attempt[d] /\ attempt[d] \in {1, 2} /\ Tried(d) \in Int
      BY DEF ClientInv, CallOK, ClientTypeOK, Tried
    <3>4. /\ IsFiniteSet(Serving(d))' /\ Cardinality(Serving(d)) \in Nat
          /\ Cardinality(Serving(d))' = Cardinality(Serving(d)) - 1
          /\ Cardinality(Serving(d))' \in Nat
      BY <3>1, <3>2, <3>3, FS_RemoveElement, FS_CardinalityType
    <3>50. /\ answer[h].code = 200 /\ answer[h].ticket \in Ticket
           /\ Obeys(answer[h].ticket, ask[d])
      BY <2>1, <2>4 DEF ClientInv, Apt
    <3>51. \/ wrote'[d] = wrote[d] /\ answer'[h].code # 200
           \/ wrote'[d] = Append(wrote[d], answer[h].ticket) /\ answer'[h].code = 200
      BY <1>2, <2>1, <2>4, <3>50 DEF ClientInv, ClientTypeOK, Refusal, TroubleCodes
    <3>52. wrote[d] \in Seq(Ticket) BY DEF ClientInv, ClientTypeOK
    <3>5. /\ Len(wrote'[d]) \in {Len(wrote[d]), Len(wrote[d]) + 1}
          /\ Len(wrote'[d]) = Len(wrote[d]) => answer'[h].code # 200
          /\ Len(wrote'[d]) = Len(wrote[d]) + 1 => answer'[h].code = 200
      BY <3>50, <3>51, <3>52
    <3>6. Tried(d)' = Tried(d) BY <1>1 DEF Tried
    <3>7. Len(wrote'[d]) + Cardinality(Serving(d))' <= Tried(d)'
      BY <3>3, <3>4, <3>5, <3>6
    <3>8. attempt[d] = 1 => Len(wrote[d]) = 0 /\ line[d] = h
      <4>1. attempt[d] = 1 => Serving(d) \subseteq {line[d]} BY DEF ClientInv, CallOK
      <4>. QED BY <3>1, <3>3, <3>4, <4>1
    <3>9. attempt[d] = 1 => state[d] \notin Ended
      BY <3>8, ClientAssumption DEF ClientInv, CallOK, Ended
    <3>10. \A k \in Handler : line[d] = k => Truthful(d, k)'
      <4>. SUFFICES ASSUME line[d] \in Handler PROVE Truthful(d, line[d])'
        BY <1>1
      <4>1. CASE line[d] = h
        BY <1>1, <3>3, <3>5, <3>8, <4>1 DEF Truthful
      <4>2. CASE line[d] # h
        <5>1. Truthful(d, line[d]) BY DEF ClientInv, CallOK
        <5>. QED BY <1>1, <2>2, <3>3, <3>5, <3>8, <4>2, <5>1 DEF Truthful
      <4>. QED BY <4>1, <4>2
    <3>11. state[d] = "ok" => Len(wrote'[d]) >= 1
      BY <3>3, <3>5 DEF ClientInv, CallOK
    <3>12. \A i \in DOMAIN wrote'[d] : Obeys(wrote'[d][i], ask[d])
      <4>1. \A i \in DOMAIN wrote[d] : Obeys(wrote[d][i], ask[d]) BY DEF ClientInv, CallOK
      <4>. QED BY <3>50, <3>51, <3>52, <4>1
    <3>. QED BY <1>1, <3>2, <3>4, <3>7, <3>9, <3>10, <3>11, <3>12 DEF ClientInv, CallOK
  <2>. QED BY <2>3, <2>4, UnmovedOK DEF ClientInv
<1>. QED BY <1>3, <1>4

LEMMA ClientInvInit == ClientInit => ClientInv
<1>. SUFFICES ASSUME ClientInit PROVE ClientInv OBVIOUS
<1>1. IInv BY InitIInv DEF ClientInit
<1>2. ClientTypeOK BY <1>1, ClientAssumption DEF ClientInit, ClientTypeOK, IInv
<1>3. \A h \in Handler : pc[h] = "idle" /\ Apt(h) BY DEF ClientInit, Init, Apt
<1>4. ASSUME NEW c \in Call PROVE CallOK(c)
  <2>1. Serving(c) = {} BY <1>3 DEF Serving
  <2>2. Tried(c) = 0 /\ Len(wrote[c]) = 0 BY DEF ClientInit, Tried
  <2>. QED BY <2>1, <2>2, FS_EmptySet, ClientAssumption DEF ClientInit, CallOK, Ended, Truthful
<1>. QED BY <1>1, <1>2, <1>3, <1>4 DEF ClientInv

LEMMA ClientInvKept == ClientInv /\ [ClientNext]_allVars => ClientInv'
<1>. SUFFICES ASSUME ClientInv, [ClientNext]_allVars PROVE ClientInv' OBVIOUS
<1>1. IInv' /\ ClientTypeOK' BY ServerKept, ClientTyped DEF ClientInv
<1>2. pc \in [Handler -> {"idle", "loaded", "done"}] /\ DOMAIN answer = Handler
  BY DEF ClientInv, IInv, TypeOK
<1>3. ASSUME UNCHANGED <<pc, answer, owner, ask>>
      PROVE  \A h \in Handler : Apt(h)'
  BY <1>3 DEF ClientInv, Apt
<1>4. ASSUME NEW c \in Call, Start(c) \/ Refused(c) \/ Timeout(c) PROVE ClientInv'
  <2>1. UNCHANGED <<pc, answer, owner, ask>> BY <1>4 DEF Start, Refused, Timeout, vars
  <2>. QED BY <1>1, <1>3, <1>4, <2>1, ClientStepOK DEF ClientInv
<1>5. ASSUME NEW c \in Call, NEW h \in Handler, Connect(c, h) PROVE ClientInv'
  BY <1>1, <1>5, ConnectOK DEF ClientInv
<1>6. ASSUME NEW c \in Call, NEW h \in Handler, Receive(c, h) PROVE ClientInv'
  <2>1. \A k \in Handler : Apt(k)'
    BY <1>2, <1>6 DEF Receive, Finish, ClientInv, Apt
  <2>. QED BY <1>1, <1>6, <2>1, ReceiveOK DEF ClientInv
<1>7. ASSUME NEW h \in Handler, ServerCommit(h) \/ ServerCommitFails(h) \/ FinishUnheard(h)
      PROVE  ClientInv'
  <2>1. \A k \in Handler : Apt(k)'
    <3>1. /\ UNCHANGED <<owner, ask>>
          /\ \A k \in Handler : pc'[k] = "loaded" => pc[k] = "loaded" /\ answer'[k] = answer[k]
      BY <1>2, <1>7 DEF ServerCommit, ServerCommitFails, FinishUnheard, Commit, CommitFails,
                        Finish, callVars
    <3>. QED BY <3>1 DEF ClientInv, Apt
  <2>. QED BY <1>1, <1>7, <2>1, ServerOK DEF ClientInv
<1>8. CASE (Midnight /\ UNCHANGED callVars) \/ UNCHANGED allVars
  <2>1. UNCHANGED <<pc, answer, callVars>> BY <1>8 DEF Midnight, allVars, vars
  <2>2. \A c \in Call : Unmoved(c) BY <2>1 DEF Unmoved, callVars
  <2>3. \A h \in Handler : Apt(h)' BY <1>3, <2>1 DEF callVars
  <2>. QED BY <1>1, <2>2, <2>3, UnmovedOK DEF ClientInv
<1>9. CASE ServerRestart
  <2>1. \A h \in Handler : pc'[h] = "idle" BY <1>9 DEF ServerRestart, Restart
  <2>2. \A c \in Call : Unmoved(c) BY <1>9, <2>1, ClientAssumption DEF Unmoved, ServerRestart
  <2>3. \A h \in Handler : Apt(h)' BY <2>1 DEF Apt
  <2>. QED BY <1>1, <2>2, <2>3, UnmovedOK DEF ClientInv
<1>. QED BY <1>4, <1>5, <1>6, <1>7, <1>8, <1>9 DEF ClientNext

LEMMA ClientInvAlways == ClientSpec => []ClientInv
BY ClientInvInit, ClientInvKept, PTL DEF ClientSpec

\* soc_tickets_helper: what a call writes is the ticket its caller asked for (but
\* for a new assignee); a call that is told "ok" wrote it; none writes more than
\* twice; and one that ends at its first attempt wrote exactly if it is told so,
\* for any number of calls, threads and restarts.
THEOREM CallsCarriedOut == ClientSpec => []CarriedOut
<1>1. ClientInv => CarriedOut
  <2>. SUFFICES ASSUME ClientInv, NEW c \in Call
                PROVE  /\ \A i \in DOMAIN wrote[c] : Obeys(wrote[c][i], ask[c])
                       /\ Len(wrote[c]) <= 2
                       /\ state[c] = "ok" => wrote[c] # <<>>
                       /\ attempt[c] = 1 /\ state[c] \in Ended
                            => Len(wrote[c]) = IF state[c] = "ok" THEN 1 ELSE 0
    BY DEF CarriedOut
  <2>1. CallOK(c) BY DEF ClientInv
  <2>2. /\ Cardinality(Serving(c)) \in Nat /\ Tried(c) \in 0..2
        /\ wrote[c] \in Seq(Ticket) /\ Len(wrote[c]) \in Nat
    BY <2>1, FS_CardinalityType DEF ClientInv, ClientTypeOK, Tried, CallOK
  <2>3. Len(wrote[c]) <= 2 BY <2>1, <2>2 DEF CallOK
  <2>4. state[c] = "ok" => wrote[c] # <<>> BY <2>1 DEF CallOK
  <2>. QED BY <2>1, <2>3, <2>4 DEF CallOK
<1>. QED BY <1>1, ClientInvAlways, PTL

\* What the store promises, it promises under its client's calls too, timed-out
\* and repeated ones included.
THEOREM StoreHolds == ClientSpec => [](ClientTypeOK /\ UniqueIds /\ RecordsSound)
<1>1. ClientInv => ClientTypeOK /\ UniqueIds /\ RecordsSound
  BY DEF ClientInv, IInv, SoundList, UniqueIds, RecordsSound
<1>. QED BY <1>1, ClientInvAlways, PTL

\* No call of the helper writes while the gate is shut.
THEOREM NoCallWritesWhenShut == ClientSpec => GateShut
<1>1. ClientInv /\ [ClientNext]_allVars => [writesEnabled]_file
  <2>. SUFFICES ASSUME ClientInv, [ClientNext]_allVars, file' # file PROVE writesEnabled
    OBVIOUS
  <2>1. \A c \in Call, h \in Handler : ~Connect(c, h)
    BY DEF Connect, BeginCreate, BeginUpdate, Reply, Hold, LoadFails
  <2>2. PICK h \in Handler : ServerCommit(h)
    BY <2>1 DEF ClientNext, Start, Refused, Timeout, Receive, ServerCommitFails, FinishUnheard,
           CommitFails, Finish, Midnight, ServerRestart, Restart, allVars, vars
  <2>. QED BY <2>2 DEF ServerCommit, Commit, ClientInv, IInv
<1>. QED BY <1>1, ClientInvAlways, PTL DEF ClientSpec, GateShut
=============================================================================
