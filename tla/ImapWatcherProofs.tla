-------------------------- MODULE ImapWatcherProofs --------------------------
(***************************************************************************)
(* What the watcher keeps for any number of messages, senders, threads and *)
(* faults.  Everything rests on one fact about the \Seen flag: a message   *)
(* without it has not been touched, and nothing but the fetch of a message *)
(* without it leads to an answer or a copy.                                *)
(***************************************************************************)
EXTENDS ImapWatcher, FiniteSetTheorems, TLAPS

Handling == {"check", "fetch", "decided", "drafted", "record"}

\* UIDs are given out in ascending order.
Ascending == \E k \in 0..MessageCount : arrived = 1..k

\* The message in hand has no row and is not listed again; before its fetch it
\* is unseen, after it seen.
InHand ==
  /\ pc \in {"idle", "scan", "exited"} => cur = None
  /\ pc \in Handling =>
       /\ cur \in arrived /\ cur \notin todo /\ cur \notin DOMAIN store
       /\ pc \in {"check", "fetch"} => cur \notin seen
       /\ pc \in {"decided", "drafted", "record"} => cur \in seen

\* What the cycle has listed is still unseen, and only what is seen has a row,
\* an answer or a copy.
Untouched ==
  /\ todo \subseteq arrived \ seen
  /\ DOMAIN store \subseteq seen
  /\ \A u \in Messages \ seen : sent[u] = 0 /\ review[u] = 0

\* The plan for the message in hand, and what was done about it so far.
Planned ==
  /\ pc \in {"decided", "drafted"} =>
       /\ sent[cur] = 0 /\ review[cur] = 0
       /\ plan \in {"review_later", "respond_thread", "respond"}
       /\ plan = "review_later" <=> cur \in Outsiders
  /\ pc = "drafted" => plan # "review_later"
  /\ pc = "record" =>
       /\ plan \in Action
       /\ plan \in {"respond", "respond_thread"} <=> sent[cur] = 1

IInv ==
  /\ TypeOK /\ Ascending /\ InHand /\ Untouched /\ Planned
  /\ NeverReprocessed /\ OutsidersUnanswered /\ StoreTellsReplies /\ NoSilentLoss

USE MessagesAssumption, BoundsAssumption

\* Appending to a full list of tags drops one: the list stays within its cap.
LEMMA RememberBounded ==
  ASSUME NEW u \in Messages, outbound \in Seq(Messages), Len(outbound) <= OutboundMax,
         Remember(u)
  PROVE  outbound' \in Seq(Messages) /\ Len(outbound') <= OutboundMax
<1>1. CASE Len(outbound) >= OutboundMax
  <2>1. outbound # <<>> BY <1>1
  <2>2. Tail(outbound) \in Seq(Messages) /\ Len(Tail(outbound)) = Len(outbound) - 1
    BY <2>1
  <2>3. outbound' = Append(Tail(outbound), u) BY <1>1 DEF Remember
  <2>. QED BY <2>2, <2>3
<1>2. CASE ~(Len(outbound) >= OutboundMax)
  <2>1. outbound' = Append(outbound, u) BY <1>2 DEF Remember
  <2>. QED BY <1>2, <2>1
<1>. QED BY <1>1, <1>2

\* The next UID is within the bound and extends the interval.
LEMMA NextArrival ==
  ASSUME Ascending, arrived # Messages
  PROVE  /\ Cardinality(arrived) + 1 \in Messages
         /\ \E k \in 0..MessageCount : arrived \cup {Cardinality(arrived) + 1} = 1..k
<1>1. PICK k \in 0..MessageCount : arrived = 1..k BY DEF Ascending
<1>2. Cardinality(arrived) = k BY <1>1, FS_Interval
<1>3. k < MessageCount BY <1>1 DEF Messages
<1>4. arrived \cup {k + 1} = 1..(k + 1) BY <1>1
<1>. QED BY <1>2, <1>3, <1>4 DEF Messages

LEMMA InitInductive == Init => IInv
<1>. SUFFICES ASSUME Init PROVE IInv OBVIOUS
<1>. USE DEF Init
<1>1. TypeOK
  <2>1. outbound \in Seq(Messages) /\ Len(outbound) = 0 OBVIOUS
  <2>2. DOMAIN store = {} BY DEF NoRows
  <2>3. Len(outbound) <= OutboundMax /\ faults \in 0..MaxFaults BY <2>1
  <2>. QED BY <2>1, <2>2, <2>3 DEF TypeOK
<1>2. Ascending
  <2>1. 0 \in 0..MessageCount /\ arrived = 1..0 OBVIOUS
  <2>. QED BY <2>1 DEF Ascending
<1>3. InHand BY DEF InHand, Handling
<1>4. Untouched BY DEF Untouched, NoRows
<1>5. Planned BY DEF Planned
<1>6. NeverReprocessed /\ OutsidersUnanswered
  BY DEF NeverReprocessed, OutsidersUnanswered
<1>7. StoreTellsReplies /\ NoSilentLoss BY DEF StoreTellsReplies, NoSilentLoss, NoRows
<1>. QED BY <1>1, <1>2, <1>3, <1>4, <1>5, <1>6, <1>7 DEF IInv

\* Every step keeps the types; only a reply lengthens the list of tags.
LEMMA TypeOKKept == IInv /\ [Next]_vars => TypeOK'
<1>. SUFFICES ASSUME IInv, [Next]_vars PROVE TypeOK' OBVIOUS
<1>. USE DEF IInv, TypeOK, InHand, Untouched, Handling, Planned, Action,
             Triage, mailbox, thread, history, Fault, NextInScan, CycleError,
             Unseen
<1>1. CASE Deliver
  <2>1. arrived' \subseteq Messages BY <1>1, NextArrival DEF Deliver
  <2>. QED BY <1>1, <2>1 DEF Deliver
<1>2. CASE Connect BY <1>2 DEF Connect
<1>3. CASE Poll BY <1>3 DEF Poll
<1>4. CASE NextMessage BY <1>4 DEF NextMessage
<1>5. CASE EndCycle BY <1>5 DEF EndCycle
<1>6. CASE Exit BY <1>6 DEF Exit
<1>7. CASE Check BY <1>7 DEF Check
<1>8. CASE CheckClosed BY <1>8 DEF CheckClosed
<1>9. CASE Fetch BY <1>9 DEF Fetch
<1>10. CASE FetchNone BY <1>10 DEF FetchNone
<1>11. CASE FetchBroken
  <2>1. cur \in arrived BY <1>11 DEF FetchBroken
  <2>2. seen' \subseteq arrived' BY <1>11, <2>1 DEF FetchBroken
  <2>3. faults' \in 0..MaxFaults BY <1>11 DEF FetchBroken
  <2>. QED BY <1>11, <2>1, <2>2, <2>3 DEF FetchBroken
<1>12. CASE CopyToReview BY <1>12 DEF CopyToReview
<1>13. CASE CopyFails
  <2>1. cur \in Messages BY <1>13 DEF CopyFails
  <2>2. review' \in {review, [review EXCEPT ![cur] = review[cur] + 1]}
    BY <1>13 DEF CopyFails
  <2>3. review' \in [Messages -> Nat] BY <2>1, <2>2
  <2>4. faults' \in 0..MaxFaults BY <1>13 DEF CopyFails
  <2>. QED BY <1>13, <2>3, <2>4 DEF CopyFails
<1>14. CASE Draft BY <1>14 DEF Draft
<1>15. CASE DraftNone BY <1>15 DEF DraftNone
<1>16. CASE DraftRaises BY <1>16 DEF DraftRaises
<1>17. CASE Send
  <2>1. cur \in Messages BY <1>17 DEF Send
  <2>2. outbound' \in Seq(Messages) /\ Len(outbound') <= OutboundMax
    BY <1>17, <2>1, RememberBounded DEF Send
  <2>3. sent' \in [Messages -> Nat] /\ seen' \subseteq arrived' BY <1>17 DEF Send
  <2>. QED BY <1>17, <2>2, <2>3 DEF Send
<1>18. CASE SendFails BY <1>18 DEF SendFails
<1>19. CASE Record BY <1>19 DEF Record
<1>20. CASE RecordFails BY <1>20 DEF RecordFails
<1>21. CASE Terminate
  <2>1. faults' \in 0..MaxFaults BY <1>21 DEF Terminate
  <2>2. pc' \in {pc, "hung"} BY <1>21 DEF Terminate
  <2>. QED BY <1>21, <2>1, <2>2 DEF Terminate
<1>22. CASE Restart
  <2>1. outbound' \in Seq(Messages) /\ Len(outbound') <= OutboundMax
    BY <1>22 DEF Restart
  <2>2. faults' \in 0..MaxFaults BY <1>22 DEF Restart
  <2>3. lost' \subseteq Messages BY <1>22 DEF Restart
  <2>. QED BY <1>22, <2>1, <2>2, <2>3 DEF Restart
<1>23. CASE UNCHANGED vars BY <1>23 DEF vars
<1>. QED BY <1>1, <1>2, <1>3, <1>4, <1>5, <1>6, <1>7, <1>8, <1>9, <1>10, <1>11,
           <1>12, <1>13, <1>14, <1>15, <1>16, <1>17, <1>18, <1>19, <1>20,
           <1>21, <1>22, <1>23 DEF Next, Watch, Process

\* Only a delivery changes what has arrived.
LEMMA AscendingKept == IInv /\ [Next]_vars => Ascending'
<1>. SUFFICES ASSUME IInv, [Next]_vars PROVE Ascending' OBVIOUS
<1>. USE DEF IInv, Ascending, mailbox, thread, history, Fault, NextInScan,
             CycleError, Unseen
<1>1. CASE Deliver
  <2>1. PICK k \in 0..MessageCount : arrived \cup {Cardinality(arrived) + 1} = 1..k
    BY <1>1, NextArrival DEF Deliver
  <2>2. arrived' = 1..k BY <1>1, <2>1 DEF Deliver
  <2>. QED BY <2>2
<1>2. CASE UNCHANGED vars BY <1>2 DEF vars
<1>3. CASE Connect \/ Poll \/ NextMessage \/ EndCycle \/ Exit \/ Check \/
          CheckClosed \/ Fetch \/ FetchNone \/ FetchBroken \/ CopyToReview \/
          CopyFails \/ Draft \/ DraftNone \/ DraftRaises \/ Send \/ SendFails
          \/ Record \/ RecordFails \/ Terminate \/ Restart
  BY <1>3 DEF Connect, Poll, NextMessage, EndCycle, Exit, Check, CheckClosed,
         Fetch, FetchNone, FetchBroken, CopyToReview, CopyFails, Draft,
         DraftNone, DraftRaises, Send, SendFails, Record, RecordFails,
         Terminate, Restart
<1>. QED BY <1>1, <1>2, <1>3 DEF Next, Watch, Process

\* The message in hand keeps its place: listed no more, without a row, and
\* seen from its fetch on.
LEMMA InHandKept == IInv /\ [Next]_vars => InHand'
<1>. SUFFICES ASSUME IInv, [Next]_vars PROVE InHand' OBVIOUS
<1>. USE DEF IInv, InHand, TypeOK, Untouched, Handling, mailbox, thread,
             history, Fault, NextInScan, CycleError, Unseen
<1>1. CASE Deliver BY <1>1 DEF Deliver
<1>2. CASE Connect BY <1>2 DEF Connect
<1>3. CASE Poll BY <1>3 DEF Poll
<1>4. CASE NextMessage BY <1>4 DEF NextMessage
<1>5. CASE EndCycle BY <1>5 DEF EndCycle
<1>6. CASE Exit BY <1>6 DEF Exit
<1>7. CASE Check BY <1>7 DEF Check
<1>8. CASE CheckClosed BY <1>8 DEF CheckClosed
<1>9. CASE Fetch BY <1>9 DEF Fetch
<1>10. CASE FetchNone BY <1>10 DEF FetchNone
<1>11. CASE FetchBroken BY <1>11 DEF FetchBroken
<1>12. CASE CopyToReview BY <1>12 DEF CopyToReview
<1>13. CASE CopyFails BY <1>13 DEF CopyFails
<1>14. CASE Draft BY <1>14 DEF Draft
<1>15. CASE DraftNone BY <1>15 DEF DraftNone
<1>16. CASE DraftRaises BY <1>16 DEF DraftRaises
<1>17. CASE Send BY <1>17 DEF Send
<1>18. CASE SendFails BY <1>18 DEF SendFails
<1>19. CASE Record BY <1>19 DEF Record
<1>20. CASE RecordFails BY <1>20 DEF RecordFails
<1>21. CASE Terminate BY <1>21 DEF Terminate
<1>22. CASE Restart BY <1>22 DEF Restart
<1>23. CASE UNCHANGED vars BY <1>23 DEF vars
<1>. QED BY <1>1, <1>2, <1>3, <1>4, <1>5, <1>6, <1>7, <1>8, <1>9, <1>10, <1>11,
           <1>12, <1>13, <1>14, <1>15, <1>16, <1>17, <1>18, <1>19, <1>20,
           <1>21, <1>22, <1>23 DEF Next, Watch, Process

\* A message is answered or copied only after its fetch has marked it.
LEMMA UntouchedKept == IInv /\ [Next]_vars => Untouched'
<1>. SUFFICES ASSUME IInv, [Next]_vars PROVE Untouched' OBVIOUS
<1>. USE DEF IInv, Untouched, TypeOK, InHand, Handling, mailbox, thread,
             history, Fault, NextInScan, CycleError, Unseen
<1>1. CASE Deliver BY <1>1 DEF Deliver
<1>2. CASE Connect BY <1>2 DEF Connect
<1>3. CASE Poll BY <1>3 DEF Poll
<1>4. CASE NextMessage BY <1>4 DEF NextMessage
<1>5. CASE EndCycle BY <1>5 DEF EndCycle
<1>6. CASE Exit BY <1>6 DEF Exit
<1>7. CASE Check BY <1>7 DEF Check
<1>8. CASE CheckClosed BY <1>8 DEF CheckClosed
<1>9. CASE Fetch BY <1>9 DEF Fetch
<1>10. CASE FetchNone BY <1>10 DEF FetchNone
<1>11. CASE FetchBroken BY <1>11 DEF FetchBroken
<1>12. CASE CopyToReview BY <1>12 DEF CopyToReview
<1>13. CASE CopyFails BY <1>13 DEF CopyFails
<1>14. CASE Draft BY <1>14 DEF Draft
<1>15. CASE DraftNone BY <1>15 DEF DraftNone
<1>16. CASE DraftRaises BY <1>16 DEF DraftRaises
<1>17. CASE Send BY <1>17 DEF Send
<1>18. CASE SendFails BY <1>18 DEF SendFails
<1>19. CASE Record BY <1>19 DEF Record
<1>20. CASE RecordFails BY <1>20 DEF RecordFails
<1>21. CASE Terminate BY <1>21 DEF Terminate
<1>22. CASE Restart BY <1>22 DEF Restart
<1>23. CASE UNCHANGED vars BY <1>23 DEF vars
<1>. QED BY <1>1, <1>2, <1>3, <1>4, <1>5, <1>6, <1>7, <1>8, <1>9, <1>10, <1>11,
           <1>12, <1>13, <1>14, <1>15, <1>16, <1>17, <1>18, <1>19, <1>20,
           <1>21, <1>22, <1>23 DEF Next, Watch, Process

\* From its fetch to its row the plan says what is being done.
LEMMA PlannedKept == IInv /\ [Next]_vars => Planned'
<1>. SUFFICES ASSUME IInv, [Next]_vars PROVE Planned' OBVIOUS
<1>. USE DEF IInv, Planned, TypeOK, InHand, Untouched, Handling, Action,
             Triage, OutsidersUnanswered, mailbox, thread, history, Fault,
             NextInScan, CycleError, Unseen
<1>1. CASE Deliver BY <1>1 DEF Deliver
<1>2. CASE Connect BY <1>2 DEF Connect
<1>3. CASE Poll BY <1>3 DEF Poll
<1>4. CASE NextMessage BY <1>4 DEF NextMessage
<1>5. CASE EndCycle BY <1>5 DEF EndCycle
<1>6. CASE Exit BY <1>6 DEF Exit
<1>7. CASE Check BY <1>7 DEF Check
<1>8. CASE CheckClosed BY <1>8 DEF CheckClosed
<1>9. CASE Fetch BY <1>9 DEF Fetch
<1>10. CASE FetchNone BY <1>10 DEF FetchNone
<1>11. CASE FetchBroken BY <1>11 DEF FetchBroken
<1>12. CASE CopyToReview BY <1>12 DEF CopyToReview
<1>13. CASE CopyFails BY <1>13 DEF CopyFails
<1>14. CASE Draft BY <1>14 DEF Draft
<1>15. CASE DraftNone BY <1>15 DEF DraftNone
<1>16. CASE DraftRaises BY <1>16 DEF DraftRaises
<1>17. CASE Send BY <1>17 DEF Send
<1>18. CASE SendFails BY <1>18 DEF SendFails
<1>19. CASE Record BY <1>19 DEF Record
<1>20. CASE RecordFails BY <1>20 DEF RecordFails
<1>21. CASE Terminate BY <1>21 DEF Terminate
<1>22. CASE Restart BY <1>22 DEF Restart
<1>23. CASE UNCHANGED vars BY <1>23 DEF vars
<1>. QED BY <1>1, <1>2, <1>3, <1>4, <1>5, <1>6, <1>7, <1>8, <1>9, <1>10, <1>11,
           <1>12, <1>13, <1>14, <1>15, <1>16, <1>17, <1>18, <1>19, <1>20,
           <1>21, <1>22, <1>23 DEF Next, Watch, Process

\* The four steps that answer or copy do it to a message nothing was done to.
LEMMA NeverReprocessedKept == IInv /\ [Next]_vars => NeverReprocessed'
<1>. SUFFICES ASSUME IInv, [Next]_vars PROVE NeverReprocessed' OBVIOUS
<1>. USE DEF IInv, NeverReprocessed, TypeOK, Planned, mailbox, thread, history,
             Fault, NextInScan, CycleError, Unseen
<1>1. CASE CopyToReview BY <1>1 DEF CopyToReview
<1>2. CASE CopyFails
  <2>1. cur \in Messages /\ review[cur] = 0 BY <1>2 DEF CopyFails, InHand, Handling
  <2>2. review' \in {review, [review EXCEPT ![cur] = review[cur] + 1]} /\ sent' = sent
    BY <1>2 DEF CopyFails
  <2>. QED BY <2>1, <2>2
<1>3. CASE Send BY <1>3 DEF Send
<1>4. CASE SendFails BY <1>4 DEF SendFails
<1>5. CASE UNCHANGED vars BY <1>5 DEF vars
<1>6. CASE Deliver \/ Connect \/ Poll \/ NextMessage \/ EndCycle \/ Exit \/
          Check \/ CheckClosed \/ Fetch \/ FetchNone \/ FetchBroken \/ Draft \/
          DraftNone \/ DraftRaises \/ Record \/ RecordFails \/ Terminate \/
          Restart
  BY <1>6 DEF Deliver, Connect, Poll, NextMessage, EndCycle, Exit, Check,
         CheckClosed, Fetch, FetchNone, FetchBroken, Draft, DraftNone,
         DraftRaises, Record, RecordFails, Terminate, Restart
<1>. QED BY <1>1, <1>2, <1>3, <1>4, <1>5, <1>6 DEF Next, Watch, Process

\* They follow the plan, which the allowlist decided.
LEMMA OutsidersUnansweredKept == IInv /\ [Next]_vars => OutsidersUnanswered'
<1>. SUFFICES ASSUME IInv, [Next]_vars PROVE OutsidersUnanswered' OBVIOUS
<1>. USE DEF IInv, OutsidersUnanswered, TypeOK, Planned, InHand, Handling,
             mailbox, thread, history, Fault, NextInScan, CycleError, Unseen
<1>1. CASE CopyToReview BY <1>1 DEF CopyToReview
<1>2. CASE CopyFails BY <1>2 DEF CopyFails
<1>3. CASE Send BY <1>3 DEF Send
<1>4. CASE SendFails BY <1>4 DEF SendFails
<1>5. CASE UNCHANGED vars BY <1>5 DEF vars
<1>6. CASE Deliver \/ Connect \/ Poll \/ NextMessage \/ EndCycle \/ Exit \/
          Check \/ CheckClosed \/ Fetch \/ FetchNone \/ FetchBroken \/ Draft \/
          DraftNone \/ DraftRaises \/ Record \/ RecordFails \/ Terminate \/
          Restart
  BY <1>6 DEF Deliver, Connect, Poll, NextMessage, EndCycle, Exit, Check,
         CheckClosed, Fetch, FetchNone, FetchBroken, Draft, DraftNone,
         DraftRaises, Record, RecordFails, Terminate, Restart
<1>. QED BY <1>1, <1>2, <1>3, <1>4, <1>5, <1>6 DEF Next, Watch, Process

\* A message that is answered has no row yet, and its row tells the truth.
LEMMA StoreTellsRepliesKept == IInv /\ [Next]_vars => StoreTellsReplies'
<1>. SUFFICES ASSUME IInv, [Next]_vars PROVE StoreTellsReplies' OBVIOUS
<1>. USE DEF IInv, StoreTellsReplies, TypeOK, InHand, Planned, Handling,
             mailbox, thread, history, Fault, NextInScan, CycleError, Unseen
<1>1. CASE Send BY <1>1 DEF Send
<1>2. CASE SendFails BY <1>2 DEF SendFails
<1>3. CASE Record BY <1>3 DEF Record
<1>4. CASE UNCHANGED vars BY <1>4 DEF vars
<1>5. CASE Deliver \/ Connect \/ Poll \/ NextMessage \/ EndCycle \/ Exit \/
          Check \/ CheckClosed \/ Fetch \/ FetchNone \/ FetchBroken \/
          CopyToReview \/ CopyFails \/ Draft \/ DraftNone \/ DraftRaises \/
          RecordFails \/ Terminate \/ Restart
  BY <1>5 DEF Deliver, Connect, Poll, NextMessage, EndCycle, Exit, Check,
         CheckClosed, Fetch, FetchNone, FetchBroken, CopyToReview, CopyFails,
         Draft, DraftNone, DraftRaises, RecordFails, Terminate, Restart
<1>. QED BY <1>1, <1>2, <1>3, <1>4, <1>5 DEF Next, Watch, Process

\* A message leaves the hand with a row, unseen, or after a fault.
LEMMA NoSilentLossKept == IInv /\ [Next]_vars => NoSilentLoss'
<1>. SUFFICES ASSUME IInv, [Next]_vars PROVE NoSilentLoss' OBVIOUS
<1>. USE DEF IInv, NoSilentLoss, TypeOK, InHand, Handling, mailbox, thread,
             history, Fault, NextInScan, CycleError, Unseen
<1>1. CASE Deliver BY <1>1 DEF Deliver
<1>2. CASE Connect BY <1>2 DEF Connect
<1>3. CASE Poll BY <1>3 DEF Poll
<1>4. CASE NextMessage BY <1>4 DEF NextMessage
<1>5. CASE EndCycle BY <1>5 DEF EndCycle
<1>6. CASE Exit BY <1>6 DEF Exit
<1>7. CASE Check BY <1>7 DEF Check
<1>8. CASE CheckClosed BY <1>8 DEF CheckClosed
<1>9. CASE Fetch BY <1>9 DEF Fetch
<1>10. CASE FetchNone BY <1>10 DEF FetchNone
<1>11. CASE FetchBroken BY <1>11 DEF FetchBroken
<1>12. CASE CopyToReview BY <1>12 DEF CopyToReview
<1>13. CASE CopyFails BY <1>13 DEF CopyFails
<1>14. CASE Draft BY <1>14 DEF Draft
<1>15. CASE DraftNone BY <1>15 DEF DraftNone
<1>16. CASE DraftRaises BY <1>16 DEF DraftRaises
<1>17. CASE Send BY <1>17 DEF Send
<1>18. CASE SendFails BY <1>18 DEF SendFails
<1>19. CASE Record BY <1>19 DEF Record
<1>20. CASE RecordFails BY <1>20 DEF RecordFails
<1>21. CASE Terminate BY <1>21 DEF Terminate
<1>22. CASE Restart BY <1>22 DEF Restart
<1>23. CASE UNCHANGED vars BY <1>23 DEF vars
<1>. QED BY <1>1, <1>2, <1>3, <1>4, <1>5, <1>6, <1>7, <1>8, <1>9, <1>10, <1>11,
           <1>12, <1>13, <1>14, <1>15, <1>16, <1>17, <1>18, <1>19, <1>20,
           <1>21, <1>22, <1>23 DEF Next, Watch, Process

\* All of it is kept by every step.
LEMMA Inductive == Spec => []IInv
<1>1. IInv /\ [Next]_vars => IInv'
  BY TypeOKKept, AscendingKept, InHandKept, UntouchedKept, PlannedKept,
     NeverReprocessedKept, OutsidersUnansweredKept, StoreTellsRepliesKept,
     NoSilentLossKept DEF IInv
<1>. QED BY InitInductive, <1>1, PTL DEF Spec

\* Every state is well-typed: the list of reply tags never exceeds its cap.
THEOREM TypeCorrect == Spec => []TypeOK
<1>1. IInv => TypeOK BY DEF IInv
<1>. QED BY Inductive, <1>1, PTL

\* No message is answered twice or filed twice, whatever fails after it took
\* effect and however often the watcher is killed.
THEOREM AnsweredOnce == Spec => []NeverReprocessed
<1>1. IInv => NeverReprocessed BY DEF IInv
<1>. QED BY Inductive, <1>1, PTL

\* Only senders on the allowlist are answered.
THEOREM AllowlistHolds == Spec => []OutsidersUnanswered
<1>1. IInv => OutsidersUnanswered BY DEF IInv
<1>. QED BY Inductive, <1>1, PTL

\* The rows of the store say of every message whether a reply went out.
THEOREM RowsTruthful == Spec => []StoreTellsReplies
<1>1. IInv => StoreTellsReplies BY DEF IInv
<1>. QED BY Inductive, <1>1, PTL

\* A message marked as seen has a row, is in hand, or was hit by a fault.
THEOREM LossesAreFaults == Spec => []NoSilentLoss
<1>1. IInv => NoSilentLoss BY DEF IInv
<1>. QED BY Inductive, <1>1, PTL
=============================================================================
