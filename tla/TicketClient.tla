---------------------------- MODULE TicketClient ----------------------------
(***************************************************************************)
(* lib/soc_tickets_helper.py calling the ticket server.  A Call is one     *)
(* invocation of create_ticket, update_ticket or close_ticket: it is tried *)
(* at most twice, and each attempt has a 200 ms timeout after which the    *)
(* client walks away while the handler thread carries on.                  *)
(***************************************************************************)
EXTENDS TicketStore

CONSTANTS
  Call,      \* invocations of the helper
  None,      \* no call, or no handler
  Asks       \* the argument records that the calls can have

Ask == [op: {"create"}, args: NewArgs]
         \cup [op: {"update"}, id: TicketId, edit: Edit]

ASSUME ClientAssumption ==
  None \notin Call /\ None \notin Handler /\ Asks \subseteq Ask

VARIABLES
  state,     \* per call: ready, connecting, waiting, or how it ended
  ask,       \* per call: its arguments
  attempt,   \* per call: 1 or 2
  line,      \* per call: the handler serving its current attempt
  owner,     \* per handler: the call whose attempt it serves or served
  wrote      \* history, per call: the tickets its attempts put in the file

callVars == <<state, ask, attempt, line, owner, wrote>>
allVars == <<vars, callVars>>

Ended == {"ok", "none", "raised"}

ClientInit ==
  /\ Init
  /\ state = [c \in Call |-> "ready"]
  /\ ask \in [Call -> Asks]
  /\ attempt = [c \in Call |-> 1]
  /\ line = [c \in Call |-> None]
  /\ owner = [h \in Handler |-> None]
  /\ wrote = [c \in Call |-> <<>>]

\* Seeded fault: the comment is validated and, like a new assignee, not put in.
PayloadBare(e) ==
  [e EXCEPT !.assignee = IF @ = Nobody THEN Nobody ELSE Keep, !.comment = FALSE]

\* _validate_update_args builds the payload: of the assignee argument only
\* the empty string (unassign) is put in it; a name is checked and dropped.
Payload(e) == [e EXCEPT !.assignee = IF @ = Nobody THEN Nobody ELSE Keep]

Start(c) ==
  /\ state[c] = "ready"
  /\ state' = [state EXCEPT ![c] = "connecting"]
  /\ UNCHANGED <<vars, ask, attempt, line, owner, wrote>>

\* The request reaches a free server thread, which starts on it.
Connect(c, h) ==
  /\ state[c] = "connecting"
  /\ IF ask[c].op = "create"
       THEN BeginCreate(h, ask[c].args)
       ELSE BeginUpdate(h, ask[c].id, Payload(ask[c].edit))
  /\ state' = [state EXCEPT ![c] = "waiting"]
  /\ line' = [line EXCEPT ![c] = h]
  /\ owner' = [owner EXCEPT ![h] = c]
  /\ UNCHANGED <<ask, attempt, wrote>>

\* Seeded fault: the loop does not count its attempts.
RetryForever(c) == state' = [state EXCEPT ![c] = "connecting"] /\ UNCHANGED attempt

\* A retryable failure: "for attempt in (1, 2)", then None.
Retry(c) ==
  IF attempt[c] = 1
    THEN /\ state' = [state EXCEPT ![c] = "connecting"]
         /\ attempt' = [attempt EXCEPT ![c] = 2]
    ELSE /\ state' = [state EXCEPT ![c] = "none"]
         /\ UNCHANGED attempt

\* Connection refused, or a timeout before any thread took the request.
Refused(c) ==
  /\ state[c] = "connecting"
  /\ Retry(c)
  /\ UNCHANGED <<vars, ask, line, owner, wrote>>

\* No usable answer within 200 ms (slow, reset by a restart, garbled): the
\* client gives the attempt up; the handler, if it lives, is not told.
Timeout(c) ==
  /\ state[c] = "waiting"
  /\ Retry(c)
  /\ line' = [line EXCEPT ![c] = None]
  /\ UNCHANGED <<vars, ask, owner, wrote>>

\* The answer arrives in time: 200 is returned, 403 gives None at once, a 500
\* is retried, 400 and 404 raise ValueError.
Receive(c, h) ==
  /\ state[c] = "waiting" /\ line[c] = h /\ owner[h] = c
  /\ Finish(h)
  /\ \/ /\ answer[h].code = 200
        /\ state' = [state EXCEPT ![c] = "ok"]
        /\ UNCHANGED attempt
     \/ /\ answer[h].code = 403
        /\ state' = [state EXCEPT ![c] = "none"]
        /\ UNCHANGED attempt
     \/ answer[h].code = 500 /\ Retry(c)
     \/ /\ answer[h].code \in {400, 404}
        /\ state' = [state EXCEPT ![c] = "raised"]
        /\ UNCHANGED attempt
  /\ line' = [line EXCEPT ![c] = None]
  /\ UNCHANGED <<ask, owner, wrote>>

\* A thread whose client has left answers into a closed connection.
FinishUnheard(h) ==
  /\ Finish(h)
  /\ \A c \in Call : line[c] # h
  /\ UNCHANGED callVars

ServerCommit(h) ==
  /\ Commit(h)
  /\ wrote' = [wrote EXCEPT ![owner[h]] = Append(@, answer[h].ticket)]
  /\ UNCHANGED <<state, ask, attempt, line, owner>>

ServerCommitFails(h) == CommitFails(h) /\ UNCHANGED callVars

ServerRestart ==
  /\ Restart
  /\ owner' = [h \in Handler |-> None]
  /\ UNCHANGED <<state, ask, attempt, line, wrote>>

ClientNext ==
  \/ \E c \in Call : Start(c) \/ Refused(c) \/ Timeout(c)
  \/ \E c \in Call, h \in Handler : Connect(c, h) \/ Receive(c, h)
  \/ \E h \in Handler : ServerCommit(h) \/ ServerCommitFails(h) \/ FinishUnheard(h)
  \/ Midnight /\ UNCHANGED callVars
  \/ ServerRestart

\* urllib's socket timeout fires whatever the server does, and so does the
\* refusal or connect timeout of an attempt no thread has taken.
Fairness == \A c \in Call : WF_allVars(Refused(c)) /\ WF_allVars(Timeout(c))

ClientSpec == ClientInit /\ [][ClientNext]_allVars /\ Fairness

-----------------------------------------------------------------------------
ClientTypeOK ==
  /\ TypeOK
  /\ state \in [Call -> {"ready", "connecting", "waiting"} \cup Ended]
  /\ ask \in [Call -> Ask]
  /\ attempt \in [Call -> {1, 2}]
  /\ line \in [Call -> Handler \cup {None}]
  /\ owner \in [Handler -> Call \cup {None}]
  /\ wrote \in [Call -> Seq(Ticket)]

\* What the caller of create_ticket, update_ticket or close_ticket asked for, in
\* the terms of the helper's docstrings ("only the fields provided are
\* mutated").  Left out are a new assignee, which the helper drops (a finding),
\* and the labels taken away: a list may hold a label more than once.
Obeys(t, a) ==
  \/ /\ a.op = "create"
     /\ t.status = "open" /\ t.labels = a.args.labels /\ t.assignee = a.args.assignee
  \/ /\ a.op = "update"
     /\ t.id = a.id
     /\ a.edit.status # Keep => t.status = a.edit.status
     /\ a.edit.assignee = Nobody => t.assignee = Nobody
     /\ a.edit.comment => t.comments > 0
     /\ \A l \in a.edit.add : a.edit.remove[l] = 0 => t.labels[l] > 0

\* Whatever crashes and retries happened: what a call puts in the file is the
\* ticket its caller asked for; a call whose caller is told "ok" put one there;
\* a call does so at most twice, because a timed-out attempt may have been
\* committed behind the client's back; and one that ended at its first attempt
\* did so exactly once if it was told "ok", and never otherwise.
CarriedOut ==
  \A c \in Call :
    /\ \A i \in DOMAIN wrote[c] : Obeys(wrote[c][i], ask[c])
    /\ Len(wrote[c]) <= 2
    /\ state[c] = "ok" => wrote[c] # <<>>
    /\ attempt[c] = 1 /\ state[c] \in Ended =>
         Len(wrote[c]) = IF state[c] = "ok" THEN 1 ELSE 0

\* Every call that was started returns to its caller, even when the server
\* is down, restarting or never answers.
CallsReturn ==
  \A c \in Call : state[c] = "connecting" ~> state[c] \in Ended
=============================================================================
