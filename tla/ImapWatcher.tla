----------------------------- MODULE ImapWatcher -----------------------------
(***************************************************************************)
(* services/imap-watcher/imap_idle_watcher.py with lib/lite_soc_agent.py:  *)
(* one thread that polls INBOX, triages each unseen message, and answers   *)
(* it by SMTP or copies it to the review folder.  The mailbox is outside   *)
(* the program: FETCH (RFC822) sets \Seen as a side effect, a command may  *)
(* take effect although its response is lost, and mail keeps arriving.     *)
(* The process may be killed, or get SIGTERM, between any two steps.       *)
(***************************************************************************)
EXTENDS Integers, Sequences, FiniteSets

CONSTANTS
  MessageCount,  \* bound: messages that may arrive
  Outsiders,     \* the messages whose sender is not on the allowlist
  RefTo,         \* per message: the message whose reply it answers, or None
  None,
  OutboundMax,   \* _RECENT_OUTBOUND_MAX
  MaxFaults      \* bound: failed commands, kills and signals in a behaviour

Messages == 1..MessageCount     \* their UIDs

ASSUME MessagesAssumption ==
  /\ MessageCount \in Nat
  /\ Outsiders \subseteq Messages
  /\ None \notin Messages /\ RefTo \in [Messages -> Messages \cup {None}]
ASSUME BoundsAssumption == OutboundMax \in Nat \ {0} /\ MaxFaults \in Nat

Action == {"review_later", "respond_thread", "respond", "seen_no_reply"}

VARIABLES
  arrived,   \* INBOX: messages delivered
  seen,      \* INBOX: messages that carry the \Seen flag
  review,    \* REVIEW_FOLDER: copies of each message
  sent,      \* replies to each message that SMTP accepted
  store,     \* SeenUIDStore (SQLite): uid -> action
  outbound,  \* _RECENT_OUTBOUND: tags of recent replies, oldest first
  conn,      \* is self._imap usable
  pc,        \* where the thread is
  todo,      \* unseen UIDs of this cycle not reached yet
  cur,       \* the UID in _process_one
  plan,      \* its action
  stop,      \* self._stop is set and the store is closed
  lost,      \* history: messages that a fault hit after the fetch began
  faults     \* history: faults so far

mailbox == <<arrived, seen, review, sent>>
thread == <<pc, todo, cur, plan>>
history == <<lost, faults>>
vars == <<mailbox, store, outbound, conn, thread, stop, history>>

Unseen == arrived \ seen
NoRows == [u \in {} |-> "respond"]

Fault == faults < MaxFaults /\ faults' = faults + 1

-----------------------------------------------------------------------------
Init ==
  /\ arrived = {} /\ seen = {}
  /\ review = [u \in Messages |-> 0] /\ sent = [u \in Messages |-> 0]
  /\ store = NoRows /\ outbound = <<>>
  /\ conn = FALSE /\ pc = "idle" /\ todo = {} /\ cur = None /\ plan = None
  /\ stop = FALSE
  /\ lost = {} /\ faults = 0

\* Mail arrives; UIDs are given out in ascending order.
Deliver ==
  /\ arrived # Messages
  /\ arrived' = arrived \cup {Cardinality(arrived) + 1}
  /\ UNCHANGED <<seen, review, sent, store, outbound, conn, thread, stop, history>>

(* The main loop.                                                          *)

\* _connect, at the top of a cycle or from _noop.
Connect ==
  /\ pc = "idle" /\ ~stop /\ ~conn
  /\ conn' = TRUE
  /\ UNCHANGED <<mailbox, store, outbound, thread, stop, history>>

\* A cycle lists the unseen messages.
Poll ==
  /\ pc = "idle" /\ ~stop /\ conn /\ Unseen # {}
  /\ todo' = Unseen
  /\ pc' = "scan"
  /\ UNCHANGED <<mailbox, store, outbound, conn, cur, plan, stop, history>>

\* The next message in UID order; store.has takes the store's lock.
NextMessage ==
  /\ pc = "scan" /\ ~stop /\ todo # {}
  /\ cur' \in todo /\ \A u \in todo : cur' <= u
  /\ todo' = todo \ {cur'}
  /\ pc' = "check"
  /\ UNCHANGED <<mailbox, store, outbound, conn, plan, stop, history>>

EndCycle ==
  /\ pc = "scan" /\ (stop \/ todo = {})
  /\ pc' = "idle" /\ todo' = {}
  /\ UNCHANGED <<mailbox, store, outbound, conn, cur, plan, stop, history>>

Exit ==
  /\ pc = "idle" /\ stop
  /\ pc' = "exited"
  /\ UNCHANGED <<mailbox, store, outbound, conn, todo, cur, plan, stop, history>>

\* run's handler of an exception: log out, forget the connection, next cycle.
CycleError ==
  /\ pc' = "idle" /\ todo' = {} /\ cur' = None
  /\ conn' = FALSE
  /\ UNCHANGED <<arrived, review, sent, store, outbound, plan, stop>>

\* _process_one returns, or its own handler has logged the exception.
NextInScan == pc' = "scan" /\ cur' = None /\ plan' = None /\ UNCHANGED todo

(* _process_one.                                                           *)

\* store.has: a message that has a row is not processed again.
Check ==
  /\ pc = "check" /\ ~stop
  /\ \/ cur \in DOMAIN store /\ NextInScan
     \/ cur \notin DOMAIN store /\ pc' = "fetch" /\ UNCHANGED <<todo, cur, plan>>
  /\ UNCHANGED <<mailbox, store, outbound, conn, stop, history>>

\* The store was closed by the signal handler: store.has raises.
CheckClosed ==
  /\ pc = "check" /\ stop
  /\ CycleError
  /\ UNCHANGED <<seen, lost, faults>>

\* Seeded fault: a known thread is answered whoever the sender is.
TriageThreadFirst(u) ==
  IF \E i \in DOMAIN outbound : outbound[i] = RefTo[u] THEN "respond_thread"
  ELSE IF u \in Outsiders THEN "review_later" ELSE "respond"

\* triage_inbound_email: the allowlist first, then the thread.
Triage(u) ==
  IF u \in Outsiders THEN "review_later"
  ELSE IF \E i \in DOMAIN outbound : outbound[i] = RefTo[u] THEN "respond_thread"
  ELSE "respond"

\* Seeded fault: the message is fetched with BODY.PEEK[], which sets no flag.
FetchPeek ==
  /\ pc = "fetch" /\ conn
  /\ plan' = Triage(cur)
  /\ pc' = "decided"
  /\ UNCHANGED <<mailbox, store, outbound, conn, todo, cur, stop, history>>

\* FETCH (RFC822) returns the message, which the server marks \Seen.
Fetch ==
  /\ pc = "fetch" /\ conn
  /\ seen' = seen \cup {cur}
  /\ plan' = Triage(cur)
  /\ pc' = "decided"
  /\ UNCHANGED <<arrived, review, sent, store, outbound, conn, todo, cur, stop, history>>

\* The server answers NO, or sends no message: skipped.
FetchNone ==
  /\ pc = "fetch" /\ conn
  /\ Fault /\ NextInScan
  /\ UNCHANGED <<mailbox, store, outbound, conn, stop, lost>>

\* The connection breaks (or the signal handler logged it out): the server may
\* have marked the message all the same.
FetchBroken ==
  /\ pc = "fetch"
  /\ \/ conn /\ Fault /\ seen' \in {seen, seen \cup {cur}}
     \/ ~conn /\ UNCHANGED <<seen, faults>>
  /\ lost' = lost \cup {cur}
  /\ CycleError

\* COPY and STORE to the review folder; store.add takes the lock next.
CopyToReview ==
  /\ pc = "decided" /\ plan = "review_later" /\ conn
  /\ review' = [review EXCEPT ![cur] = @ + 1]
  /\ pc' = "record"
  /\ UNCHANGED <<arrived, seen, sent, store, outbound, conn, todo, cur, plan, stop, history>>

\* _move_to_folder gives False, before or after the copy was made; the message
\* is recorded as moved nevertheless.
CopyFails ==
  /\ pc = "decided" /\ plan = "review_later"
  /\ \/ conn /\ Fault /\ review' \in {review, [review EXCEPT ![cur] = @ + 1]}
     \/ ~conn /\ UNCHANGED <<review, faults>>
  /\ pc' = "record"
  /\ conn' \in {conn, FALSE}
  /\ UNCHANGED <<arrived, seen, sent, store, outbound, todo, cur, plan, stop, lost>>

\* The model drafts a reply.
Draft ==
  /\ pc = "decided" /\ plan # "review_later"
  /\ pc' = "drafted"
  /\ UNCHANGED <<mailbox, store, outbound, conn, todo, cur, plan, stop, history>>

\* No reply from the model: marked seen (best effort), recorded as unanswered.
DraftNone ==
  /\ pc = "decided" /\ plan # "review_later"
  /\ seen' = IF conn THEN seen \cup {cur} ELSE seen
  /\ plan' = "seen_no_reply"
  /\ pc' = "record"
  /\ UNCHANGED <<arrived, review, sent, store, outbound, conn, todo, cur, stop, history>>

\* call_llm raises: _process_one's handler logs it and moves on.
DraftRaises ==
  /\ pc = "decided" /\ plan # "review_later"
  /\ Fault /\ NextInScan
  /\ lost' = lost \cup {cur}
  /\ UNCHANGED <<mailbox, store, outbound, conn, stop>>

\* record_outbound_subject: at the cap the oldest tag is dropped.
Remember(u) ==
  outbound' = Append(IF Len(outbound) >= OutboundMax THEN Tail(outbound) ELSE outbound, u)

\* SMTP accepts the reply: it is remembered and the message marked seen.
Send ==
  /\ pc = "drafted"
  /\ sent' = [sent EXCEPT ![cur] = @ + 1]
  /\ Remember(cur)
  /\ seen' = IF conn THEN seen \cup {cur} ELSE seen
  /\ pc' = "record"
  /\ UNCHANGED <<arrived, review, store, conn, todo, cur, plan, stop, history>>

\* send_reply gives None: any exception, also one that comes after the server
\* has accepted the reply.  "Leave unseen so we retry next cycle."
SendFails ==
  /\ pc = "drafted"
  /\ Fault /\ NextInScan
  /\ sent' \in {sent, [sent EXCEPT ![cur] = @ + 1]}
  /\ lost' = lost \cup {cur}
  /\ UNCHANGED <<arrived, seen, review, store, outbound, conn, stop>>

\* Seeded fault: the row takes the triage's action, also when no reply went out.
RecordTriage ==
  /\ pc = "record" /\ ~stop
  /\ store' = [u \in DOMAIN store \cup {cur} |->
                 IF u \in DOMAIN store THEN store[u] ELSE Triage(u)]
  /\ NextInScan
  /\ UNCHANGED <<mailbox, outbound, conn, stop, history>>

\* Seeded fault: the row is inserted but "commit" is left out.
RecordUncommitted ==
  /\ pc = "record" /\ ~stop
  /\ NextInScan
  /\ UNCHANGED <<mailbox, store, outbound, conn, stop, history>>

\* store.add, INSERT OR IGNORE and commit under the lock.
Record ==
  /\ pc = "record" /\ ~stop
  /\ store' = [u \in DOMAIN store \cup {cur} |->
                 IF u \in DOMAIN store THEN store[u] ELSE plan]
  /\ NextInScan
  /\ UNCHANGED <<mailbox, outbound, conn, stop, history>>

\* store.add raises: SQLite fails, or the signal handler has closed it.
RecordFails ==
  /\ pc = "record"
  /\ Fault \/ (stop /\ UNCHANGED faults)
  /\ lost' = lost \cup {cur}
  /\ NextInScan
  /\ UNCHANGED <<mailbox, store, outbound, conn, stop>>

(* Signals and crashes.                                                    *)

Running == pc \notin {"exited", "hung"}

\* The SIGTERM handler runs in the same thread between two of its steps: it
\* logs out and closes the store.  Where the thread holds the store's lock,
\* which is not reentrant, store.close waits for it forever.
Terminate ==
  /\ Running /\ ~stop /\ Fault
  /\ stop' = TRUE /\ conn' = FALSE
  /\ pc' \in {pc} \cup (IF pc \in {"check", "record"} THEN {"hung"} ELSE {})
  /\ UNCHANGED <<mailbox, store, outbound, todo, cur, plan, lost>>

\* The process ends, or is killed in the middle of anything, and is started
\* again.  The seeded _RECENT_OUTBOUND holds incident ids, no reply tags.
Restart ==
  /\ Fault
  /\ pc' = "idle" /\ todo' = {} /\ cur' = None /\ plan' = None
  /\ conn' = FALSE /\ stop' = FALSE /\ outbound' = <<>>
  /\ lost' = IF cur = None THEN lost ELSE lost \cup {cur}
  /\ UNCHANGED <<mailbox, store>>

-----------------------------------------------------------------------------
Process ==
  \/ Check \/ CheckClosed
  \/ Fetch \/ FetchNone \/ FetchBroken
  \/ CopyToReview \/ CopyFails
  \/ Draft \/ DraftNone \/ DraftRaises
  \/ Send \/ SendFails
  \/ Record \/ RecordFails

Watch == Connect \/ Poll \/ NextMessage \/ EndCycle \/ Exit \/ Process

Next == Deliver \/ Watch \/ Terminate \/ Restart

\* The thread never stops of itself: every wait of its own has a timeout or
\* is a sleep, and the mailbox is taken to answer or to break the connection.
Spec == Init /\ [][Next]_vars /\ WF_vars(Watch)

-----------------------------------------------------------------------------
TypeOK ==
  /\ arrived \subseteq Messages /\ seen \subseteq arrived
  /\ review \in [Messages -> Nat] /\ sent \in [Messages -> Nat]
  /\ DOMAIN store \subseteq Messages /\ \A u \in DOMAIN store : store[u] \in Action
  /\ outbound \in Seq(Messages) /\ Len(outbound) <= OutboundMax
  /\ conn \in BOOLEAN /\ stop \in BOOLEAN
  /\ pc \in {"idle", "scan", "check", "fetch", "decided", "drafted", "record",
             "exited", "hung"}
  /\ todo \subseteq Messages
  /\ cur \in Messages \cup {None} /\ plan \in Action \cup {None}
  /\ lost \subseteq Messages
  /\ faults \in 0..MaxFaults

\* "so a restart doesn't re-process mail": whatever is killed, lost on the wire
\* or fails after it took effect, nobody is answered twice and no message is
\* copied to the review folder twice.
NeverReprocessed == \A u \in Messages : sent[u] <= 1 /\ review[u] <= 1

\* A sender who is not on the allowlist is never answered, not even in a thread
\* the watcher started, and an allowed one is never filed for review.
OutsidersUnanswered ==
  \A u \in Messages : IF u \in Outsiders THEN sent[u] = 0 ELSE review[u] = 0

\* The SQLite rows tell the truth about replies: a row says respond or
\* respond_thread exactly when a reply went out.
StoreTellsReplies ==
  \A u \in DOMAIN store :
    store[u] \in {"respond", "respond_thread"} <=> sent[u] = 1

\* No message disappears silently: one that is marked \Seen has its row, or is
\* the one in hand, or a fault hit it after its fetch.
NoSilentLoss == \A u \in seen : u \in DOMAIN store \/ u = cur \/ u \in lost

\* Every message that arrives is dealt with: it gets its row, unless a fault
\* hit it or the watcher was told to stop.
EveryMessageHandled ==
  \A u \in Messages : u \in arrived ~> (u \in DOMAIN store \/ u \in lost \/ stop)

=============================================================================
