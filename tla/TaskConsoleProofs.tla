--------------------------- MODULE TaskConsoleProofs ---------------------------
(***************************************************************************)
(* The dashboard's tasks and the C2 server behind them, for any number of  *)
(* threads, retries and faults.  What C2 keeps is kept under any steps of  *)
(* the dashboard, which only calls it; the task rows follow from the two   *)
(* together: a row is written when the tool has come back, and what it     *)
(* says was decided before.                                                *)
(***************************************************************************)
EXTENDS TaskConsole, WellFoundedInduction, TLAPS

\* What C2 knows of a call at each of its places.
CallInv == \A t \in Threads :
  /\ pc[t] \notin {"reply", "answered"} => orders[t] = 0
  /\ pc[t] = "reply" => orders[t] = IF request[t] = "scan" THEN 1 ELSE 0
  /\ pc[t] # "answered" => result[t] = 0
  /\ pc[t] = "drop" => attempt[t] < MaxRetries
  /\ request[t] \notin Served =>
       pc[t] \in {"none", "new", "answered"} /\ result[t] # 200 /\ orders[t] = 0
  /\ orders[t] # 0 /\ pc[t] = "answered" => result[t] = 200 \/ t \in hit
  /\ orders[t] <= 1
  /\ result[t] = 200 /\ request[t] = "scan" => orders[t] = 1
  /\ result[t] \in {400, 403, 404} => orders[t] = 0

ClientInv == ClientTypeOK /\ CallInv

\* A call whose order has not been taken, and no longer can be.
Quiet(d) == orders[d] = 0 /\ pc[d] \in {"none", "answered"}

Scans == {"run_scan", "run_host_compliance_scan"}

\* A thread of the dashboard has at most one call, and calls only once.
OneCall == \A d \in Threads :
  /\ dpc[d] \in {"idle", "started", "gated"} => pc[d] = "none"
  /\ kind[d] \in Scans /\ pc[d] # "none" => request[d] \in {"scan", "malformed"}

\* What a scan came to agrees with what became of its call.
OkTells == \A d \in Threads : kind[d] \in Scans /\ dpc[d] = "returned" =>
  /\ ok[d] = "ok" => orders[d] = 1
  /\ ok[d] # "ok" /\ d \notin hit => Quiet(d)

\* The last word of the task log on a thread is settled when it has answered.
RowInv == \A d \in Threads :
  /\ dpc[d] = "idle" \/ kind[d] \notin Logged => Shown(d) = NoRow
  /\ Shown(d) \in {NoRow, "running", "done", "failed"}
  /\ Shown(d) \in {"done", "failed"} => dpc[d] = "responded"
  /\ kind[d] \in Scans /\ Shown(d) = "done" => orders[d] = 1
  /\ kind[d] \in Scans /\ Shown(d) = "failed" /\ d \notin hit => Quiet(d)

ConsoleInv == TypeOK /\ ClientInv /\ OneCall /\ OkTells /\ RowInv /\ TaskSettles

-----------------------------------------------------------------------------
(* The task log.                                                           *)

Row == [id : Threads, status : {"running", "done", "failed"}]

\* The rows of an id have a last one.
LEMMA HasLast ==
  ASSUME NEW l, DOMAIN l \subseteq Nat, NEW n \in Nat, \A i \in DOMAIN l : i <= n,
         NEW id, Rows(l, id) # {}
  PROVE  \E i \in Rows(l, id) : \A j \in Rows(l, id) : j <= i
<1>. DEFINE S == Rows(l, id)
            T == {n - i : i \in S}
<1>1. S \subseteq Nat /\ S # {} /\ \A i \in S : i <= n BY DEF Rows
<1>. HIDE DEF S
<1>2. T \subseteq Nat /\ T # {} BY <1>1
<1>3. PICK m \in T : \A k \in T : <<k, m>> \notin OpToRel(<, Nat)
  <2>. HIDE DEF T
  <2>. QED BY <1>2, NatLessThanWellFounded, WFMin
<1>4. \A k \in T : ~(k < m)
  <2>. TAKE k \in T
  <2>1. <<k, m>> \in Nat \X Nat BY <1>2, <1>3
  <2>. QED BY <1>3, <2>1 DEF OpToRel
<1>5. PICK i \in S : m = n - i BY <1>3
<1>6. \A j \in S : j <= i
  <2>. TAKE j \in S
  <2>1. ~(n - j < n - i) BY <1>4, <1>5
  <2>. QED BY <1>1, <2>1
<1>. QED BY <1>6 DEF S

\* A row that is recorded is the last of its id.
LEMMA RecordedLast ==
  ASSUME NEW l \in Seq(Row), NEW id \in Threads, NEW s \in {"running", "done", "failed"}
  PROVE  /\ RecordTask(l, id, s) \in Seq(Row)
         /\ LoadTask(RecordTask(l, id, s), id) = s
<1>. DEFINE r == [id |-> id, status |-> s]
            k == RecordTask(l, id, s)
            N == Len(l) + 1
<1>1. r \in Row /\ k = Append(l, r) BY DEF Row, RecordTask
<1>2. k \in Seq(Row) /\ DOMAIN k = 1..N /\ k[N] = r /\ N \in Nat BY <1>1
<1>. HIDE DEF k
<1>3. N \in Rows(k, id) /\ \A i \in Rows(k, id) : i \in Nat /\ i <= N BY <1>2 DEF Rows
<1>4. \A i \in Rows(k, id) : (\A j \in Rows(k, id) : j <= i) => i = N BY <1>2, <1>3
<1>5. (CHOOSE i \in Rows(k, id) : \A j \in Rows(k, id) : j <= i) = N BY <1>3, <1>4
<1>6. Rows(k, id) # {} BY <1>3
<1>7. LoadTask(k, id) = k[N].status BY <1>5, <1>6 DEF LoadTask
<1>. QED BY <1>2, <1>7 DEF k

\* And says nothing about the others.
LEMMA RecordedApart ==
  ASSUME NEW l \in Seq(Row), NEW id \in Threads, NEW s \in {"running", "done", "failed"},
         NEW other, other # id
  PROVE  LoadTask(RecordTask(l, id, s), other) = LoadTask(l, other)
<1>. DEFINE r == [id |-> id, status |-> s]
            k == RecordTask(l, id, s)
            N == Len(l) + 1
<1>1. r \in Row /\ k = Append(l, r) BY DEF Row, RecordTask
<1>2. /\ DOMAIN k = 1..N /\ DOMAIN l = 1..Len(l) /\ Len(l) \in Nat
      /\ k[N].id = id /\ \A i \in DOMAIN l : k[i] = l[i]
  BY <1>1
<1>. HIDE DEF k
<1>3. DOMAIN k = DOMAIN l \cup {N} BY <1>2
<1>4. Rows(k, other) = Rows(l, other) BY <1>2, <1>3 DEF Rows
<1>5. CASE Rows(l, other) = {} BY <1>4, <1>5 DEF LoadTask, k
<1>6. CASE Rows(l, other) # {}
  <2>. DEFINE i == CHOOSE i \in Rows(l, other) : \A j \in Rows(l, other) : j <= i
  <2>1. \E m \in Rows(l, other) : \A j \in Rows(l, other) : j <= m
    BY <1>2, <1>6, HasLast
  <2>2. i \in Rows(l, other) BY <2>1
  <2>3. LoadTask(l, other) = l[i].status BY <1>6 DEF LoadTask
  <2>4. LoadTask(k, other) = k[i].status BY <1>4, <1>6 DEF LoadTask
  <2>5. k[i] = l[i] BY <1>2, <2>2 DEF Rows
  <2>. QED BY <2>3, <2>4, <2>5 DEF k
<1>. QED BY <1>5, <1>6

-----------------------------------------------------------------------------
(* The C2 server.                                                          *)

\* A step of the dashboard that C2 does not see, but for the faults it counts.
Aside == /\ UNCHANGED <<token, expiry, manager, pc, call>>
         /\ faults < MaxFaults /\ faults' = faults + 1
         /\ hit \subseteq hit' /\ hit' \subseteq Threads

ClientStep == ClientNext \/ Aside \/ UNCHANGED clientVars

LEMMA ClientInitInductive == ClientInit => ClientInv
<1>. SUFFICES ASSUME ClientInit PROVE ClientInv OBVIOUS
<1>. USE ManagerAssumption DEF ClientInit
<1>1. ClientTypeOK BY DEF ClientTypeOK, Places, Requests, Served, Statuses, NoToken
<1>2. CallInv
  <2>1. \A t \in Threads : pc[t] = "none" /\ request[t] = "read" /\ result[t] = 0 /\ orders[t] = 0
    OBVIOUS
  <2>. HIDE DEF ClientInit
  <2>2. \A t \in Threads : orders[t] <= 1
    <3>1. 0 <= 1 OBVIOUS
    <3>. QED BY <2>1, <3>1, Zenon
  <2>3. \A t \in Threads : request[t] \in Served BY <2>1, Zenon DEF Served
  <2>. QED BY <2>1, <2>2, <2>3, Zenon DEF CallInv
<1>. QED BY <1>1, <1>2 DEF ClientInv

\* An answer is one of the statuses, and clears what the thread kept.
LEMMA Answered ==
  ASSUME ClientTypeOK, NEW t \in Threads, NEW s \in Statuses, Answer(t, s)
  PROVE  /\ pc' = [pc EXCEPT ![t] = "answered"] /\ result' = [result EXCEPT ![t] = s]
         /\ pc' \in [Threads -> Places] /\ result' \in [Threads -> Statuses]
         /\ attempt' \in [Threads -> 0..MaxRetries] /\ used' \in [Threads -> 0..issued]
BY ManagerAssumption DEF ClientTypeOK, Answer, Goto, Places, NoToken

LEMMA ClientTypeOKKept ==
  ASSUME ClientTypeOK, CallInv, ClientStep
  PROVE  ClientTypeOK'
<1>. USE ManagerAssumption DEF ClientTypeOK, expiry, manager, call
<1>1. CASE Revoke BY <1>1 DEF Revoke
<1>2. CASE Expire BY <1>2 DEF Expire
<1>3. ASSUME NEW t \in Threads, NEW r \in Requests, Call(t, r) PROVE ClientTypeOK'
  BY <1>3 DEF Call, Goto, Places
<1>4. ASSUME NEW t \in Threads, NEW s \in Statuses, Answer(t, s),
             UNCHANGED <<token, expiry, manager, request, orders>>,
             UNCHANGED <<hit, faults>> \/ Fault(t)
      PROVE  ClientTypeOK'
  <2>1. hit' \subseteq Threads /\ faults' \in 0..MaxFaults BY <1>4 DEF Fault
  <2>. QED BY <1>4, <2>1, Answered
<1>5. ASSUME NEW t \in Threads, Arrive(t) \/ AssertToken(t) \/ Reply(t) \/ Reject(t)
      PROVE  ClientTypeOK'
  <2>1. CASE \E s \in Statuses : Answer(t, s) BY <1>4, <1>5, <2>1 DEF Arrive, AssertToken, Reply, Reject
  <2>2. CASE ~\E s \in Statuses : Answer(t, s)
    <3>0. \A r \in DOMAIN Refusal : Refusal[r] \in Statuses BY DEF Refusal, Statuses
    <3>1. /\ pc' \in [Threads -> Places]
          /\ UNCHANGED <<token, expiry, manager, request, attempt, used, result, orders, hit, faults>>
      BY <1>5, <2>2, <3>0 DEF Arrive, AssertToken, Reply, Reject, Goto, Places, Statuses
    <3>. QED BY <3>1
  <2>. QED BY <2>1, <2>2
<1>6. ASSUME NEW t \in Threads, AuthenticateFails(t) \/ ReplyLost(t) \/ SendLost(t) \/ ManagerError(t)
      PROVE  ClientTypeOK'
  <2>1. \E s \in Statuses : Answer(t, s)
    BY <1>6 DEF AuthenticateFails, ReplyLost, SendLost, ManagerError, Statuses
  <2>. QED BY <1>4, <1>6, <2>1 DEF AuthenticateFails, ReplyLost, SendLost, ManagerError
<1>7. ASSUME NEW t \in Threads, Unreachable(t) PROVE ClientTypeOK'
  <2>1. CASE Answer(t, 502)
    <3>1. 502 \in Statuses BY DEF Statuses
    <3>. QED BY <1>4, <1>7, <2>1, <3>1 DEF Unreachable
  <2>2. CASE attempt[t] < MaxRetries /\ attempt' = [attempt EXCEPT ![t] = attempt[t] + 1]
             /\ Goto(t, "refresh") /\ UNCHANGED <<used, result>>
    BY <1>7, <2>2 DEF Unreachable, Fault, Goto, Places
  <2>. QED BY <1>7, <2>1, <2>2 DEF Unreachable
<1>8. ASSUME NEW t \in Threads, Refresh(t) \/ StoreToken(t) \/ StampToken(t) \/ ReadToken(t)
      PROVE  ClientTypeOK'
  <2>1. pc' \in [Threads -> Places]
    BY <1>8 DEF Refresh, StoreToken, StampToken, ReadToken, Goto, Places
  <2>2. token' \in 0..issued /\ used' \in [Threads -> 0..issued] /\ expired' \in BOOLEAN
    BY <1>8 DEF Refresh, StoreToken, StampToken, ReadToken
  <2>3. UNCHANGED <<expiries, manager, request, attempt, result, orders, hit, faults>>
    BY <1>8 DEF Refresh, StoreToken, StampToken, ReadToken
  <2>. QED BY <2>1, <2>2, <2>3
<1>9. ASSUME NEW t \in Threads, Authenticate(t) PROVE ClientTypeOK'
  <2>1. issued' = issued + 1 /\ used' = [used EXCEPT ![t] = issued + 1] BY <1>9 DEF Authenticate
  <2>2. used' \in [Threads -> 0..issued'] BY <2>1
  <2>3. pc' \in [Threads -> Places] BY <1>9 DEF Authenticate, Goto, Places
  <2>. QED BY <1>9, <2>1, <2>2, <2>3 DEF Authenticate
<1>10. ASSUME NEW t \in Threads, Accept(t) PROVE ClientTypeOK'
  <2>1. orders' \in [Threads -> Nat]
    <3>1. (IF request[t] = "scan" THEN orders[t] + 1 ELSE orders[t]) \in Nat OBVIOUS
    <3>. QED BY <1>10, <3>1 DEF Accept
  <2>2. pc' \in [Threads -> Places] BY <1>10 DEF Accept, Goto, Places
  <2>. QED BY <1>10, <2>1, <2>2 DEF Accept
<1>11. ASSUME NEW t \in Threads, DropToken(t) PROVE ClientTypeOK'
  <2>1. attempt[t] < MaxRetries BY <1>11 DEF CallInv, DropToken
  <2>2. attempt' \in [Threads -> 0..MaxRetries] BY <1>11, <2>1 DEF DropToken
  <2>. QED BY <1>11, <2>2 DEF DropToken, Goto, Places, NoToken
<1>12. CASE Aside BY <1>12 DEF Aside
<1>13. CASE UNCHANGED clientVars BY <1>13 DEF clientVars
<1>. QED
  BY <1>1, <1>2, <1>3, <1>5, <1>6, <1>7, <1>8, <1>9, <1>10, <1>11, <1>12, <1>13, Zenon
  DEF ClientStep, ClientNext, Step, NetworkFault

\* The order of a call is taken in the step that accepts it, after which only
\* the answer follows.
LEMMA CallInvKept ==
  ASSUME ClientTypeOK, CallInv, ClientStep
  PROVE  CallInv'
<1>. USE DEF ClientTypeOK, CallInv, expiry, manager, call
<1>1. CASE UNCHANGED <<pc, call>> /\ hit \subseteq hit' BY <1>1
<1>2. ASSUME NEW t \in Threads, NEW r \in Requests, Call(t, r) PROVE CallInv'
  BY <1>2 DEF Call, Goto
<1>3. ASSUME NEW t \in Threads, NEW s \in Statuses, Answer(t, s), UNCHANGED <<request, orders>>,
             s # 0, hit \subseteq hit',
             request[t] \notin Served => s # 200 /\ orders[t] = 0,
             orders[t] # 0 => s = 200 \/ (s \in {500, 502} /\ t \in hit'), orders[t] <= 1,
             s = 200 /\ request[t] = "scan" => orders[t] = 1
      PROVE  CallInv'
  <2>1. /\ \A q \in Threads : q # t => pc'[q] = pc[q] /\ result'[q] = result[q] /\ attempt'[q] = attempt[q]
        /\ pc'[t] = "answered" /\ result'[t] = s
    BY <1>3 DEF Answer, Goto
  <2>. QED BY <1>3, <2>1
<1>4. ASSUME NEW t \in Threads, Arrive(t) PROVE CallInv'
  <2>1. CASE \E s \in {400, 403, 404, 500} : Answer(t, s)
    <3>1. PICK s \in {400, 403, 404, 500} : Answer(t, s) BY <2>1
    <3>2. orders[t] = 0 /\ UNCHANGED <<request, orders, hit>> BY <1>4 DEF Arrive
    <3>3. s \in Statuses /\ s # 0 /\ s # 200 BY DEF Statuses
    <3>. QED BY <1>3, <3>1, <3>2, <3>3
  <2>2. CASE /\ request[t] \in {"read", "scan"} /\ Goto(t, "refresh")
             /\ UNCHANGED <<attempt, used, result>>
    <3>1. UNCHANGED <<request, orders, hit>> /\ pc[t] = "new" BY <1>4 DEF Arrive
    <3>. QED BY <2>2, <3>1 DEF Goto, Served
  <2>3. \A r \in DOMAIN Refusal : Refusal[r] \in {400, 403, 404, 500} BY DEF Refusal
  <2>. QED BY <1>4, <2>1, <2>2, <2>3 DEF Arrive
<1>5. ASSUME NEW t \in Threads, AuthenticateFails(t) \/ SendLost(t) \/ ManagerError(t)
      PROVE  CallInv'
  <2>1. PICK s \in {500, 502} : Answer(t, s) BY <1>5 DEF AuthenticateFails, SendLost, ManagerError
  <2>2. /\ pc[t] \in {"auth", "send", "reply"} /\ UNCHANGED <<request, orders>> /\ hit' = hit \cup {t}
    BY <1>5 DEF AuthenticateFails, SendLost, ManagerError, Fault
  <2>. QED BY <1>3, <2>1, <2>2 DEF Statuses
<1>6. ASSUME NEW t \in Threads, Refresh(t) \/ Authenticate(t) \/ StoreToken(t) \/ StampToken(t) \/ ReadToken(t)
      PROVE  CallInv'
  <2>1. /\ pc[t] \in {"refresh", "auth", "store", "stamp", "header"}
        /\ pc'[t] \in {"auth", "check", "store", "stamp", "send"}
        /\ \A q \in Threads : q # t => pc'[q] = pc[q]
        /\ UNCHANGED <<request, attempt, result, orders, hit>>
    BY <1>6 DEF Refresh, Authenticate, StoreToken, StampToken, ReadToken, Goto
  <2>. QED BY <2>1
<1>7. ASSUME NEW t \in Threads, AssertToken(t) PROVE CallInv'
  <2>1. CASE Answer(t, 500)
    <3>1. pc[t] = "check" /\ UNCHANGED <<request, orders, hit>> BY <1>7 DEF AssertToken
    <3>. QED BY <1>3, <2>1, <3>1 DEF Statuses
  <2>2. CASE Goto(t, "header") /\ UNCHANGED <<attempt, used, result>>
    BY <1>7, <2>2 DEF AssertToken, Goto
  <2>. QED BY <1>7, <2>1, <2>2 DEF AssertToken
<1>8. ASSUME NEW t \in Threads, Accept(t) PROVE CallInv'
  <2>1. /\ pc[t] = "send" /\ pc'[t] = "reply" /\ orders[t] = 0
        /\ orders'[t] = IF request[t] = "scan" THEN orders[t] + 1 ELSE orders[t]
    BY <1>8 DEF Accept, Goto
  <2>2. /\ \A q \in Threads : q # t => pc'[q] = pc[q] /\ orders'[q] = orders[q]
        /\ UNCHANGED <<request, attempt, result, hit>>
    BY <1>8 DEF Accept, Goto
  <2>. QED BY <2>1, <2>2
<1>9. ASSUME NEW t \in Threads, Reply(t) PROVE CallInv'
  <2>1. pc[t] = "reply" /\ UNCHANGED <<request, orders, hit>> BY <1>9 DEF Reply
  <2>2. PICK s \in {200, 404} : Answer(t, s) /\ (s = 404 => request[t] = "read")
    BY <1>9 DEF Reply
  <2>. QED BY <1>3, <2>1, <2>2 DEF Statuses
<1>10. ASSUME NEW t \in Threads, ReplyLost(t) PROVE CallInv'
  <2>1. pc[t] = "reply" /\ UNCHANGED <<request, orders>> /\ hit' = hit \cup {t} /\ Answer(t, 500)
    BY <1>10 DEF ReplyLost, Fault
  <2>. QED BY <1>3, <2>1 DEF Statuses
<1>11. ASSUME NEW t \in Threads, Unreachable(t) PROVE CallInv'
  <2>0. pc[t] = "send" /\ UNCHANGED <<request, orders>> /\ hit' = hit \cup {t}
    BY <1>11 DEF Unreachable, Fault
  <2>1. CASE Answer(t, 502) BY <1>3, <2>0, <2>1 DEF Statuses
  <2>2. CASE attempt' = [attempt EXCEPT ![t] = attempt[t] + 1] /\ Goto(t, "refresh") /\ UNCHANGED <<used, result>>
    BY <2>0, <2>2 DEF Goto
  <2>. QED BY <1>11, <2>1, <2>2 DEF Unreachable
<1>12. ASSUME NEW t \in Threads, Reject(t) PROVE CallInv'
  <2>0. pc[t] = "send" /\ UNCHANGED <<request, orders, hit>> BY <1>12 DEF Reject
  <2>1. CASE Answer(t, 502) BY <1>3, <2>0, <2>1 DEF Statuses
  <2>2. CASE attempt[t] < MaxRetries /\ Goto(t, "drop") /\ UNCHANGED <<attempt, used, result>>
    BY <2>0, <2>2 DEF Goto
  <2>. QED BY <1>12, <2>1, <2>2 DEF Reject
<1>13. ASSUME NEW t \in Threads, DropToken(t) PROVE CallInv' BY <1>13 DEF DropToken, Goto
<1>14. CASE Revoke \/ Expire BY <1>1, <1>14 DEF Revoke, Expire
<1>15. CASE Aside \/ UNCHANGED clientVars BY <1>1, <1>15 DEF Aside, clientVars
<1>. HIDE DEF ClientTypeOK, CallInv, expiry, manager, call
<1>. QED
  BY <1>2, <1>4, <1>5, <1>6, <1>7, <1>8, <1>9, <1>10, <1>11, <1>12, <1>13, <1>14, <1>15, Zenon
  DEF ClientStep, ClientNext, Step, NetworkFault

\* One order of a call, and an answer that does not deny it.
LEMMA CallInvTells == CallInv => OncePerCall /\ AnswerTells
BY DEF CallInv, OncePerCall, AnswerTells

-----------------------------------------------------------------------------
(* The dashboard.                                                          *)

\* What a step of the dashboard is to C2.
LEMMA ConsoleCalls ==
  ASSUME TypeOK, [Next]_vars
  PROVE  ClientStep
<1>0. hit \subseteq Threads BY DEF TypeOK, ClientTypeOK
<1>1. ASSUME NEW d \in Threads, DFault(d) PROVE Aside
  BY <1>0, <1>1 DEF DFault, Fault, Aside
<1>2. ASSUME NEW d \in Threads,
             \/ \E k \in Kinds : Trigger(d, k)
             \/ MissingArgument(d) \/ Gate(d) \/ GateFails(d) \/ C2Unreachable(d)
             \/ ReceiveC2(d) \/ GiveUp(d) \/ Remediate(d) \/ Finish(d)
      PROVE  DFault(d) \/ UNCHANGED clientVars
  BY <1>2 DEF Trigger, MissingArgument, Gate, GateFails, C2Unreachable, ReceiveC2, GiveUp,
              Remediate, Finish
<1>3. ASSUME NEW d \in Threads, PostC2(d) PROVE \E r \in Requests : Call(d, r)
  <2>1. Sent(kind[d]) \subseteq Requests BY DEF Sent, Requests, Served, Refusal
  <2>. QED BY <1>3, <2>1 DEF PostC2
<1>4. CASE Die BY <1>0, <1>4 DEF Die, Aside, ClientStep
<1>5. CASE UNCHANGED vars BY <1>5 DEF vars, ClientStep
<1>. QED
  BY <1>1, <1>2, <1>3, <1>4, <1>5, Zenon
  DEF Next, DStep, DFaultStep, C2Step, C2Other, ClientStep, ClientNext

\* What C2 does of its own leaves a call that has ended, or not begun, alone,
\* and takes no order back.
LEMMA C2Moves ==
  ASSUME ClientInv, \/ Revoke \/ Expire
                    \/ \E t \in Threads : Step(t) \/ NetworkFault(t)
  PROVE  /\ UNCHANGED request /\ hit \subseteq hit'
         /\ \A d \in Threads : /\ (pc[d] = "none") = (pc'[d] = "none")
                               /\ Quiet(d) => Quiet(d)'
                               /\ orders[d] = 1 => orders'[d] = 1
<1>. USE DEF ClientInv, ClientTypeOK, Quiet, expiry, manager, call
<1>1. CASE Revoke \/ Expire BY <1>1 DEF Revoke, Expire
<1>2. ASSUME NEW t \in Threads, NEW p \in Places \ {"none"}, Goto(t, p),
             pc[t] \notin {"none", "answered"},
             UNCHANGED <<request, orders>>, hit \subseteq hit'
      PROVE  /\ UNCHANGED request /\ hit \subseteq hit'
             /\ \A d \in Threads : /\ (pc[d] = "none") = (pc'[d] = "none")
                                   /\ Quiet(d) => Quiet(d)'
                                   /\ orders[d] = 1 => orders'[d] = 1
  BY <1>2 DEF Goto
<1>3. ASSUME NEW t \in Threads, Arrive(t) \/ Refresh(t) \/ Authenticate(t) \/ StoreToken(t)
               \/ StampToken(t) \/ AssertToken(t) \/ ReadToken(t) \/ Reply(t) \/ Reject(t)
               \/ DropToken(t)
      PROVE  \E p \in Places \ {"none"} :
               /\ Goto(t, p) /\ pc[t] \notin {"none", "answered"}
               /\ UNCHANGED <<request, orders>> /\ hit \subseteq hit'
  <2>1. pc[t] \notin {"none", "answered"} /\ UNCHANGED <<request, orders, hit>>
    BY <1>3 DEF Arrive, Refresh, Authenticate, StoreToken, StampToken, AssertToken, ReadToken,
                Reply, Reject, DropToken
  <2>2. \E p \in Places \ {"none"} : Goto(t, p)
    BY <1>3 DEF Arrive, Refresh, Authenticate, StoreToken, StampToken, AssertToken, ReadToken,
                Reply, Reject, DropToken, Answer, Places
  <2>. QED BY <2>1, <2>2
<1>4. ASSUME NEW t \in Threads, NetworkFault(t)
      PROVE  \E p \in Places \ {"none"} :
               /\ Goto(t, p) /\ pc[t] \notin {"none", "answered"}
               /\ UNCHANGED <<request, orders>> /\ hit \subseteq hit'
  <2>1. pc[t] \notin {"none", "answered"} /\ UNCHANGED <<request, orders>> /\ hit \subseteq hit'
    BY <1>4 DEF NetworkFault, AuthenticateFails, ReplyLost, SendLost, ManagerError, Unreachable,
                Fault
  <2>2. \E p \in Places \ {"none"} : Goto(t, p)
    BY <1>4 DEF NetworkFault, AuthenticateFails, ReplyLost, SendLost, ManagerError, Unreachable,
                Answer, Places
  <2>. QED BY <2>1, <2>2
<1>5. ASSUME NEW t \in Threads, Accept(t)
      PROVE  /\ UNCHANGED request /\ hit \subseteq hit'
             /\ \A d \in Threads : /\ (pc[d] = "none") = (pc'[d] = "none")
                                   /\ Quiet(d) => Quiet(d)'
                                   /\ orders[d] = 1 => orders'[d] = 1
  <2>1. pc[t] = "send" /\ pc'[t] = "reply" /\ orders[t] = 0 BY <1>5 DEF Accept, Goto, CallInv
  <2>2. /\ UNCHANGED <<request, hit>>
        /\ \A d \in Threads : d # t => pc'[d] = pc[d] /\ orders'[d] = orders[d]
    BY <1>5 DEF Accept, Goto
  <2>. QED BY <2>1, <2>2
<1>. HIDE DEF ClientInv, ClientTypeOK, Quiet, expiry, manager, call
<1>6. ASSUME NEW t \in Threads, Step(t) \/ NetworkFault(t)
      PROVE  /\ UNCHANGED request /\ hit \subseteq hit'
             /\ \A d \in Threads : /\ (pc[d] = "none") = (pc'[d] = "none")
                                   /\ Quiet(d) => Quiet(d)'
                                   /\ orders[d] = 1 => orders'[d] = 1
  <2>1. CASE Accept(t) BY <1>5, <2>1, Zenon
  <2>2. CASE ~Accept(t)
    <3>1. \E p \in Places \ {"none"} :
               /\ Goto(t, p) /\ pc[t] \notin {"none", "answered"}
               /\ UNCHANGED <<request, orders>> /\ hit \subseteq hit'
      BY <1>3, <1>4, <1>6, <2>2, Zenon DEF Step
    <3>. QED BY <1>2, <3>1, Zenon
  <2>. QED BY <2>1, <2>2, Zenon
<1>. QED BY <1>1, <1>6, Zenon

\* The dashboard's own steps, by what they do to its variables.
DashStep(d) ==
  \/ \E k \in Kinds : Trigger(d, k)
  \/ MissingArgument(d) \/ Gate(d) \/ GateFails(d) \/ PostC2(d) \/ C2Unreachable(d)
  \/ ReceiveC2(d) \/ GiveUp(d) \/ Remediate(d) \/ Finish(d)

C2Alone == /\ Revoke \/ Expire \/ \E t \in Threads : Step(t) \/ NetworkFault(t)
           /\ UNCHANGED taskVars

LEMMA ConsoleSteps ==
  ASSUME [Next]_vars
  PROVE  Die \/ C2Alone \/ UNCHANGED vars \/ \E d \in Threads : DashStep(d)
BY Zenon DEF Next, DStep, DFaultStep, C2Step, C2Other, DashStep, C2Alone

\* The calls are as they were, but for the one the dashboard makes.
LEMMA CallsStand ==
  ASSUME TypeOK, NEW d \in Threads, DashStep(d), ~PostC2(d)
  PROVE  UNCHANGED <<pc, call>> /\ hit \subseteq hit'
BY DEF DashStep, Trigger, MissingArgument, Gate, GateFails, C2Unreachable, ReceiveC2, GiveUp,
       Remediate, Finish, DFault, Fault, clientVars

\* A row for a thread.
LEMMA RowsMove ==
  ASSUME TypeOK, NEW d \in Threads, NEW s \in {"running", "done", "failed"},
         log' = RecordTask(log, d, s)
  PROVE  /\ log' \in Seq(Row)
         /\ Shown(d)' = s /\ \A e \in Threads : e # d => Shown(e)' = Shown(e)
<1>1. log \in Seq(Row) BY DEF TypeOK, Row
<1>2. LoadTask(log', d) = s /\ log' \in Seq(Row) BY <1>1, RecordedLast
<1>3. \A e \in Threads : e # d => LoadTask(log', e) = LoadTask(log, e) BY <1>1, RecordedApart
<1>. QED BY <1>2, <1>3, Zenon DEF Shown

LEMMA TypeOKKept ==
  ASSUME TypeOK, ClientTypeOK', [Next]_vars
  PROVE  TypeOK'
<1>. USE DEF TypeOK
<1>1. ASSUME NEW d \in Threads, NEW k \in Kinds, Trigger(d, k) PROVE TypeOK'
  <2>1. log' \in Seq(Row)
    <3>1. CASE log' = RecordTask(log, d, "running") BY <3>1, RowsMove
    <3>2. CASE UNCHANGED log BY <3>2 DEF Row
    <3>. QED BY <1>1, <3>1, <3>2 DEF Trigger
  <2>. QED BY <1>1, <2>1 DEF Trigger, DGoto, DPlaces, Row
<1>2. ASSUME NEW d \in Threads, MissingArgument(d) \/ Gate(d) \/ GateFails(d) \/ PostC2(d)
      PROVE  TypeOK'
  BY <1>2 DEF MissingArgument, Gate, GateFails, PostC2, DGoto, Return, DPlaces
<1>3. ASSUME NEW d \in Threads, C2Unreachable(d) \/ ReceiveC2(d) \/ GiveUp(d) PROVE TypeOK'
  BY <1>3 DEF C2Unreachable, ReceiveC2, GiveUp, DGoto, Return, DPlaces
<1>4. ASSUME NEW d \in Threads, Remediate(d) PROVE TypeOK'
  BY <1>4 DEF Remediate, DGoto, Return, DPlaces, Fixes
<1>5. ASSUME NEW d \in Threads, Finish(d) PROVE TypeOK'
  <2>1. log' \in Seq(Row)
    <3>1. CASE log' = RecordTask(log, d, Outcome(d))
      <4>1. Outcome(d) \in {"running", "done", "failed"} BY DEF Outcome
      <4>. QED BY <3>1, <4>1, RowsMove
    <3>2. CASE UNCHANGED log BY <3>2 DEF Row
    <3>. QED BY <1>5, <3>1, <3>2 DEF Finish
  <2>. QED BY <1>5, <2>1 DEF Finish, DGoto, DPlaces, Row
<1>6. CASE Die BY <1>6 DEF Die, DPlaces
<1>7. CASE UNCHANGED taskVars BY <1>7 DEF taskVars
<1>. HIDE DEF TypeOK
<1>8. CASE C2Alone \/ UNCHANGED vars BY <1>7, <1>8 DEF C2Alone, vars
<1>. QED BY <1>1, <1>2, <1>3, <1>4, <1>5, <1>6, <1>8, ConsoleSteps, Zenon DEF DashStep

\* Only a thread that has not called yet makes its call.
LEMMA OneCallKept ==
  ASSUME TypeOK, ClientInv, OneCall, [Next]_vars
  PROVE  OneCall'
<1>. USE DEF TypeOK, OneCall
<1>1. ASSUME NEW d \in Threads, NEW k \in Kinds, Trigger(d, k) PROVE OneCall'
  <2>1. UNCHANGED <<pc, call>> BY <1>1, CallsStand DEF DashStep, Trigger, PostC2, CallsC2
  <2>. QED BY <1>1, <2>1 DEF Trigger, DGoto, call
<1>2. ASSUME NEW d \in Threads, PostC2(d) PROVE OneCall'
  <2>1. PICK r \in Sent(kind[d]) : Call(d, r) BY <1>2 DEF PostC2
  <2>2. kind[d] \in Scans => r \in {"scan", "malformed"} BY DEF Sent, Scans
  <2>3. ClientTypeOK BY DEF ClientInv
  <2>. QED BY <1>2, <2>1, <2>2, <2>3 DEF PostC2, Call, Goto, DGoto, ClientTypeOK
<1>3. ASSUME NEW d \in Threads, DashStep(d), ~PostC2(d), \A k \in Kinds : ~Trigger(d, k)
      PROVE  OneCall'
  <2>1. UNCHANGED <<pc, call>> BY <1>3, CallsStand
  <2>2. /\ UNCHANGED kind /\ \A e \in Threads : e # d => dpc'[e] = dpc[e]
        /\ dpc'[d] \in {"gated", "dry", "returned", "responded"}
        /\ dpc'[d] = "gated" => dpc[d] = "started"
    BY <1>3 DEF DashStep, MissingArgument, Gate, GateFails, C2Unreachable, ReceiveC2, GiveUp,
                Remediate, Finish, DGoto, Return
  <2>. QED BY <2>1, <2>2 DEF call
<1>4. CASE Die BY <1>4 DEF Die, call
<1>5. CASE C2Alone BY <1>5, C2Moves DEF C2Alone, taskVars
<1>6. CASE UNCHANGED vars BY <1>6 DEF vars, clientVars, taskVars, call
<1>. HIDE DEF TypeOK, OneCall
<1>. QED BY <1>1, <1>2, <1>3, <1>4, <1>5, <1>6, ConsoleSteps, Zenon

\* A tool comes back with "ok" when C2 answered 200, and 200 is an order.
LEMMA OkTellsKept ==
  ASSUME TypeOK, ClientInv, OneCall, OkTells, [Next]_vars
  PROVE  OkTells'
<1>. USE DEF TypeOK, OkTells
<1>1. ASSUME NEW d \in Threads, DashStep(d), ~PostC2(d),
             kind'[d] \in Scans /\ dpc'[d] = "returned" =>
               /\ ok'[d] = "ok" => orders[d] = 1
               /\ ok'[d] # "ok" /\ d \notin hit' => Quiet(d)
      PROVE  OkTells'
  <2>1. UNCHANGED <<pc, call>> /\ hit \subseteq hit' BY <1>1, CallsStand
  <2>2. \A e \in Threads : e # d => dpc'[e] = dpc[e] /\ kind'[e] = kind[e] /\ ok'[e] = ok[e]
    BY <1>1 DEF DashStep, Trigger, MissingArgument, Gate, GateFails, C2Unreachable, ReceiveC2,
                GiveUp, Remediate, Finish, DGoto, Return
  <2>. QED BY <1>1, <2>1, <2>2 DEF call, Quiet
<1>2. ASSUME NEW d \in Threads, NEW k \in Kinds, Trigger(d, k) PROVE OkTells'
  <2>1. DashStep(d) /\ ~PostC2(d) /\ dpc'[d] = "started"
    BY <1>2 DEF DashStep, Trigger, PostC2, CallsC2, DGoto
  <2>. QED BY <1>1, <2>1
<1>3. ASSUME NEW d \in Threads, MissingArgument(d) \/ Gate(d) PROVE OkTells'
  <2>1. DashStep(d) /\ ~PostC2(d) /\ (dpc'[d] = "returned" => ok'[d] # "ok")
    BY <1>3 DEF DashStep, MissingArgument, Gate, PostC2, DGoto, Return, CallsC2
  <2>2. Quiet(d)
    <3>1. pc[d] = "none" BY <1>3 DEF MissingArgument, Gate, OneCall
    <3>. QED BY <3>1 DEF Quiet, ClientInv, CallInv
  <2>. QED BY <1>1, <2>1, <2>2
<1>4. ASSUME NEW d \in Threads, GateFails(d) \/ C2Unreachable(d) \/ GiveUp(d) PROVE OkTells'
  <2>1. DashStep(d) /\ ~PostC2(d) /\ d \in hit' /\ (dpc'[d] = "returned" => ok'[d] # "ok")
    BY <1>4 DEF DashStep, GateFails, C2Unreachable, GiveUp, PostC2, DGoto, Return, CallsC2,
                DFault, Fault
  <2>. QED BY <1>1, <2>1
<1>5. ASSUME NEW d \in Threads, ReceiveC2(d) PROVE OkTells'
  <2>1. /\ DashStep(d) /\ ~PostC2(d) /\ pc[d] = "answered" /\ UNCHANGED <<kind, hit>>
        /\ ok'[d] = IF result[d] = 200 THEN "ok" ELSE "not_ok"
    BY <1>5 DEF DashStep, ReceiveC2, PostC2, Return, CallsC2, clientVars
  <2>2. ASSUME kind[d] \in Scans, result[d] = 200 PROVE orders[d] = 1
    <3>1. request[d] \in {"scan", "malformed"} BY <2>1, <2>2 DEF OneCall
    <3>2. request[d] = "scan" BY <2>2, <3>1 DEF ClientInv, CallInv, Served
    <3>. QED BY <2>2, <3>2 DEF ClientInv, CallInv
  <2>3. ASSUME result[d] # 200, d \notin hit' PROVE Quiet(d)
    BY <2>1, <2>3 DEF ClientInv, CallInv, Quiet
  <2>. QED BY <1>1, <2>1, <2>2, <2>3
<1>6. ASSUME NEW d \in Threads, Remediate(d) PROVE OkTells'
  <2>1. DashStep(d) /\ ~PostC2(d) /\ kind'[d] \notin Scans
    BY <1>6 DEF DashStep, Remediate, PostC2, CallsC2, Scans
  <2>. QED BY <1>1, <2>1
<1>7. ASSUME NEW d \in Threads, Finish(d) PROVE OkTells'
  <2>1. DashStep(d) /\ ~PostC2(d) /\ dpc'[d] = "responded"
    BY <1>7 DEF DashStep, Finish, PostC2, CallsC2, DGoto
  <2>. QED BY <1>1, <2>1
<1>8. ASSUME NEW d \in Threads, PostC2(d) PROVE OkTells'
  <2>1. PICK r \in Sent(kind[d]) : Call(d, r) BY <1>8 DEF PostC2
  <2>2. /\ \A e \in Threads : e # d => dpc'[e] = dpc[e] /\ pc'[e] = pc[e]
        /\ dpc'[d] = "waiting" /\ UNCHANGED <<kind, ok, orders, hit>>
    BY <1>8, <2>1 DEF PostC2, Call, Goto, DGoto, ClientInv, ClientTypeOK
  <2>. QED BY <2>2 DEF Quiet
<1>9. CASE Die
  <2>1. \A d \in Threads : dpc'[d] # "returned" BY <1>9 DEF Die
  <2>. QED BY <2>1
<1>10. CASE C2Alone BY <1>10, C2Moves DEF C2Alone, taskVars
<1>11. CASE UNCHANGED vars BY <1>11 DEF vars, clientVars, taskVars, call, Quiet
<1>. HIDE DEF TypeOK, OkTells
<1>. QED
  BY <1>2, <1>3, <1>4, <1>5, <1>6, <1>7, <1>8, <1>9, <1>10, <1>11, ConsoleSteps, Zenon DEF DashStep

\* A row is written when the thread starts and when it has come back.
LEMMA RowInvKept ==
  ASSUME TypeOK, ClientInv, OneCall, OkTells, RowInv, TaskSettles, [Next]_vars
  PROVE  RowInv' /\ TaskSettles'
<1>. USE DEF TypeOK, RowInv, TaskSettles, Outcome
<1>1. ASSUME NEW d \in Threads, NEW k \in Kinds, Trigger(d, k) PROVE RowInv' /\ TaskSettles'
  <2>1. /\ UNCHANGED <<pc, call>> /\ hit \subseteq hit' /\ dpc'[d] = "started" /\ dpc[d] = "idle"
        /\ \A e \in Threads : e # d => dpc'[e] = dpc[e] /\ kind'[e] = kind[e]
        /\ kind'[d] = k /\ UNCHANGED <<ok, unwritten>>
    BY <1>1, CallsStand DEF DashStep, Trigger, PostC2, CallsC2, DGoto
  <2>2. CASE k \in Logged /\ log' = RecordTask(log, d, "running")
    <3>1. Shown(d)' = "running" /\ \A e \in Threads : e # d => Shown(e)' = Shown(e)
      BY <2>2, RowsMove
    <3>. QED BY <2>1, <2>2, <3>1 DEF call, Quiet, NoRow
  <2>3. CASE UNCHANGED log
    <3>1. \A e \in Threads : Shown(e)' = Shown(e) BY <2>3 DEF Shown
    <3>2. Shown(d) = NoRow BY <2>1
    <3>. QED BY <2>1, <3>1, <3>2 DEF call, Quiet, NoRow
  <2>. QED BY <1>1, <2>2, <2>3 DEF Trigger
<1>2. ASSUME NEW d \in Threads,
             \/ MissingArgument(d) \/ Gate(d) \/ GateFails(d) \/ C2Unreachable(d)
             \/ ReceiveC2(d) \/ GiveUp(d) \/ Remediate(d)
      PROVE  RowInv' /\ TaskSettles'
  <2>1. /\ UNCHANGED <<pc, call>> /\ hit \subseteq hit'
    BY <1>2, CallsStand DEF DashStep, MissingArgument, Gate, GateFails, C2Unreachable, ReceiveC2,
            GiveUp, Remediate, PostC2, Return, DGoto, CallsC2
  <2>2. /\ \A e \in Threads : e # d => dpc'[e] = dpc[e]
        /\ dpc'[d] \in {"gated", "dry", "returned"} /\ dpc[d] \in {"started", "gated", "dry", "waiting"}
        /\ \A e \in Threads : e # d => ok'[e] = ok[e]
        /\ UNCHANGED <<kind, log, unwritten>>
    BY <1>2 DEF MissingArgument, Gate, GateFails, C2Unreachable, ReceiveC2,
            GiveUp, Remediate, Return, DGoto, CallsC2
  <2>3. \A e \in Threads : Shown(e)' = Shown(e) BY <2>2 DEF Shown
  <2>. QED BY <2>1, <2>2, <2>3 DEF call, Quiet
<1>3. ASSUME NEW d \in Threads, PostC2(d) PROVE RowInv' /\ TaskSettles'
  <2>1. PICK r \in Sent(kind[d]) : Call(d, r) BY <1>3 DEF PostC2
  <2>2. /\ \A e \in Threads : e # d => dpc'[e] = dpc[e] /\ pc'[e] = pc[e]
        /\ dpc[d] \in {"started", "gated"} /\ dpc'[d] = "waiting"
        /\ UNCHANGED <<kind, log, ok, unwritten, orders, hit>>
    BY <1>3, <2>1 DEF PostC2, CallsC2, Call, Goto, DGoto, ClientInv, ClientTypeOK
  <2>3. \A e \in Threads : Shown(e)' = Shown(e) BY <2>2 DEF Shown
  <2>. QED BY <2>2, <2>3 DEF Quiet
<1>4. ASSUME NEW d \in Threads, Finish(d) PROVE RowInv' /\ TaskSettles'
  <2>1. /\ UNCHANGED <<pc, call>> /\ hit \subseteq hit' /\ dpc[d] = "returned"
        /\ dpc'[d] = "responded" /\ UNCHANGED <<kind, ok>> /\ unwritten \subseteq unwritten'
        /\ \A e \in Threads : e # d => dpc'[e] = dpc[e]
    BY <1>4, CallsStand DEF DashStep, Finish, PostC2, CallsC2, DGoto
  <2>2. CASE kind[d] \in Logged /\ log' = RecordTask(log, d, Outcome(d))
    <3>1. Outcome(d) \in {"done", "failed"} /\ (Outcome(d) = "done" => ok[d] = "ok")
          /\ (Outcome(d) = "failed" => ok[d] # "ok")
      BY DEF Outcome
    <3>2. Shown(d)' = Outcome(d) /\ \A e \in Threads : e # d => Shown(e)' = Shown(e)
      BY <2>2, <3>1, RowsMove
    <3>3. kind[d] \in Scans /\ Outcome(d) = "done" => orders[d] = 1 BY <2>1, <3>1 DEF OkTells
    <3>4. kind[d] \in Scans /\ Outcome(d) = "failed" /\ d \notin hit => Quiet(d)
      BY <2>1, <3>1 DEF OkTells
    <3>. QED BY <2>1, <2>2, <3>1, <3>2, <3>3, <3>4 DEF call, Quiet, NoRow
  <2>3. CASE UNCHANGED log /\ (d \in unwritten' \/ kind[d] \notin Logged)
    <3>1. \A e \in Threads : Shown(e)' = Shown(e) BY <2>3 DEF Shown
    <3>. QED BY <2>1, <2>3, <3>1 DEF call, Quiet, NoRow
  <2>. QED BY <1>4, <2>2, <2>3 DEF Finish
<1>5. CASE Die
  <2>1. \A e \in Threads : Shown(e)' = Shown(e) BY <1>5 DEF Die, Shown
  <2>2. \A e \in Threads : dpc'[e] = dpc[e] \/ (dpc'[e] = "killed" /\ dpc[e] \notin {"idle", "responded"})
    BY <1>5 DEF Die
  <2>3. /\ UNCHANGED <<pc, call, hit, kind, unwritten>>
        /\ \A e \in Threads : dpc[e] = "responded" => ok'[e] = ok[e]
    BY <1>5 DEF Die
  <2>. QED BY <2>1, <2>2, <2>3 DEF call, Quiet
<1>6. CASE C2Alone
  <2>1. \A e \in Threads : Shown(e)' = Shown(e) BY <1>6 DEF C2Alone, taskVars, Shown
  <2>2. UNCHANGED <<dpc, kind, ok, unwritten>> BY <1>6 DEF C2Alone, taskVars
  <2>. QED BY <1>6, <2>1, <2>2, C2Moves DEF C2Alone
<1>7. CASE UNCHANGED vars
  <2>1. \A e \in Threads : Shown(e)' = Shown(e) BY <1>7 DEF vars, taskVars, Shown
  <2>. QED BY <1>7, <2>1 DEF vars, clientVars, taskVars, call, Quiet
<1>. HIDE DEF TypeOK, RowInv, TaskSettles, Outcome
<1>. QED BY <1>1, <1>2, <1>3, <1>4, <1>5, <1>6, <1>7, ConsoleSteps, Zenon DEF DashStep

LEMMA ConsoleInitInductive == Init => ConsoleInv
<1>. SUFFICES ASSUME Init PROVE ConsoleInv OBVIOUS
<1>1. ClientInv BY ClientInitInductive DEF Init
<1>2. TypeOK BY <1>1 DEF Init, TypeOK, ClientInv, DPlaces, Kinds, Logged, Fixes
<1>3. \A d \in Threads : dpc[d] = "idle" /\ pc[d] = "none" BY DEF Init, ClientInit
<1>4. \A d \in Threads : Shown(d) = NoRow
  <2>1. DOMAIN log = {} BY DEF Init
  <2>2. \A d : Rows(log, d) = {} BY <2>1 DEF Rows
  <2>. QED BY <2>2, Zenon DEF Shown, LoadTask
<1>5. OneCall /\ OkTells BY <1>3 DEF OneCall, OkTells
<1>6. RowInv /\ TaskSettles BY <1>3, <1>4 DEF RowInv, TaskSettles, NoRow
<1>. QED BY <1>1, <1>2, <1>5, <1>6 DEF ConsoleInv

LEMMA ConsoleInductive == Spec => []ConsoleInv
<1>1. ConsoleInv /\ [Next]_vars => ConsoleInv'
  <2>. SUFFICES ASSUME ConsoleInv, [Next]_vars PROVE ConsoleInv' OBVIOUS
  <2>. USE DEF ConsoleInv
  <2>1. ClientStep BY ConsoleCalls
  <2>2. ClientInv' BY <2>1, ClientTypeOKKept, CallInvKept DEF ClientInv
  <2>3. TypeOK' BY <2>2, TypeOKKept DEF ClientInv
  <2>4. OneCall' /\ OkTells' BY OneCallKept, OkTellsKept
  <2>5. RowInv' /\ TaskSettles' BY RowInvKept
  <2>. QED BY <2>2, <2>3, <2>4, <2>5
<1>. QED BY ConsoleInitInductive, <1>1, PTL DEF Spec

-----------------------------------------------------------------------------
\* Every state of the dashboard and of C2 is well-typed.
THEOREM TypeCorrect == Spec => []TypeOK
<1>1. ConsoleInv => TypeOK BY DEF ConsoleInv
<1>. QED BY ConsoleInductive, <1>1, PTL

\* The manager takes the order of a call once at most, however often the call
\* is tried again.
THEOREM OrdersOnce == Spec => []OncePerCall
<1>1. ConsoleInv => OncePerCall BY CallInvTells DEF ConsoleInv, ClientInv
<1>. QED BY ConsoleInductive, <1>1, PTL

\* 200 says that the manager took the order, 4xx that it did not; 500 and 502
\* leave it open only where the manager or the network failed the call.
THEOREM AnswersTrue == Spec => []AnswerTells
<1>1. ConsoleInv => AnswerTells BY CallInvTells DEF ConsoleInv, ClientInv
<1>. QED BY ConsoleInductive, <1>1, PTL

\* The task pane shows of a scan what happened to its order.
THEOREM RowsTrue == Spec => []RowTells
<1>1. ConsoleInv => RowTells BY DEF ConsoleInv, RowInv, RowTells, Scans, Quiet
<1>. QED BY ConsoleInductive, <1>1, PTL

\* An answered task is shown as what its tool came to, whatever failed under way,
\* unless its last row could not be written.
THEOREM TasksSettle == Spec => []TaskSettles
<1>1. ConsoleInv => TaskSettles BY DEF ConsoleInv
<1>. QED BY ConsoleInductive, <1>1, PTL

\* C2 keeps what it promises for any clients, the dashboard or others.
THEOREM ClientsServed == ClientSpec => [](ClientTypeOK /\ OncePerCall /\ AnswerTells)
<1>1. ClientInv /\ [ClientNext]_clientVars => ClientInv'
  BY ClientTypeOKKept, CallInvKept DEF ClientInv, ClientStep
<1>2. ClientInv => ClientTypeOK /\ OncePerCall /\ AnswerTells BY CallInvTells DEF ClientInv
<1>. QED BY ClientInitInductive, <1>1, <1>2, PTL DEF ClientSpec
=============================================================================
