-------------------------- MODULE AlertPipelineProofs --------------------------
(***************************************************************************)
(* First the ingest service on its own, for any levels, batches and days:  *)
(* the inductive invariant says that _PERSISTED_INCIDENT_IDS is exactly    *)
(* the set of incident ids in the log, after a restart as before it, and,  *)
(* for a service that is not restarted on a day it has logged on, that no  *)
(* number in use is still ahead of the counter.  Then the script and the   *)
(* server together: the composition implements the service, so that its    *)
(* theorems carry over; the rest is what the script adds: each process is  *)
(* posted once, and nothing is told about an alert after its POST that was *)
(* not told before.                                                        *)
(***************************************************************************)
EXTENDS AlertPipeline, FiniteSetTheorems, SequenceTheorems, TLAPS

USE LevelsAssumption, BoundsAssumption

\* The ids marked as persisted are those of the log's incident lines.
Marked == persisted = LoggedIds("incident")

\* What the next answer will acknowledge is logged.
ResultsLogged ==
  \A p \in results : \E i \in Logged("alert") : log[i].id = p[1] /\ log[i].uid = p[2]

\* No incident, in memory or in the log, has a number that will be given out.
Numbered ==
  \A id \in DOMAIN incidents \cup LoggedIds("incident") :
    id[1] < today \/ (id[1] = today /\ id[2] <= n)

IInv ==
  /\ TypeOK /\ Marked /\ LoggedOnce /\ ResultsLogged /\ AckedIsLogged

-----------------------------------------------------------------------------
\* What one more line does to the log.
LEMMA LogGrows ==
  ASSUME log \in Seq(Entry), NEW e \in Entry, log' = Append(log, e)
  PROVE  /\ log' \in Seq(Entry)
         /\ Len(log) + 1 \notin DOMAIN log
         /\ DOMAIN log' = DOMAIN log \cup {Len(log) + 1}
         /\ \A i \in DOMAIN log : log'[i] = log[i]
         /\ log'[Len(log) + 1] = e
OBVIOUS

\* Of the lines of one type, it adds its own number or nothing.
LEMMA LoggedGrows ==
  ASSUME log \in Seq(Entry), NEW e \in Entry, log' = Append(log, e), NEW t
  PROVE  /\ Logged(t)' = IF e.type = t THEN Logged(t) \cup {Len(log) + 1} ELSE Logged(t)
         /\ LoggedIds(t)' = IF e.type = t THEN LoggedIds(t) \cup {e.id} ELSE LoggedIds(t)
         /\ Cardinality(Logged(t)') =
              IF e.type = t THEN Cardinality(Logged(t)) + 1 ELSE Cardinality(Logged(t))
<1>0. /\ DOMAIN log' = DOMAIN log \cup {Len(log) + 1} /\ Len(log) + 1 \notin DOMAIN log
      /\ \A i \in DOMAIN log : log'[i] = log[i]
      /\ log'[Len(log) + 1] = e
  BY LogGrows
<1>1. Logged(t)' = IF e.type = t THEN Logged(t) \cup {Len(log) + 1} ELSE Logged(t)
  BY <1>0 DEF Logged
<1>2. LoggedIds(t)' = IF e.type = t THEN LoggedIds(t) \cup {e.id} ELSE LoggedIds(t)
  <2>1. \A i \in Logged(t) : log'[i].id = log[i].id BY <1>0 DEF Logged
  <2>2. log'[Len(log) + 1].id = e.id BY <1>0
  <2>3. LoggedIds(t) = {log'[i].id : i \in Logged(t)}
    BY <2>1, Zenon DEF LoggedIds
  <2>4. LoggedIds(t)' = {log'[i].id : i \in Logged(t)'} BY Zenon DEF LoggedIds
  <2>5. CASE e.type = t
    <3>1. Logged(t)' = Logged(t) \cup {Len(log) + 1} BY <1>1, <2>5
    <3>2. LoggedIds(t)' = {log'[i].id : i \in Logged(t) \cup {Len(log) + 1}}
      BY <2>4, <3>1, Zenon
    <3>3. LoggedIds(t)' = {log'[i].id : i \in Logged(t)} \cup {e.id}
      BY <2>2, <3>2, Zenon
    <3>. QED BY <2>3, <2>5, <3>3
  <2>6. CASE e.type # t
    <3>1. Logged(t)' = Logged(t) BY <1>1, <2>6
    <3>2. LoggedIds(t)' = LoggedIds(t) BY <2>3, <2>4, <3>1, Zenon
    <3>. QED BY <2>6, <3>2
  <2>. QED BY <2>5, <2>6
<1>3. Len(log) \in Nat /\ DOMAIN log = 1..Len(log) OBVIOUS
<1>4. IsFiniteSet(DOMAIN log)
  <2>1. 1 \in Int /\ Len(log) \in Int BY <1>3
  <2>2. IsFiniteSet(1..Len(log)) BY <2>1, FS_Interval
  <2>. QED BY <1>3, <2>2
<1>5. Logged(t) \subseteq DOMAIN log BY DEF Logged
<1>6. IsFiniteSet(Logged(t)) BY <1>4, <1>5, FS_Subset
<1>7. Len(log) + 1 \notin Logged(t) BY <1>5
<1>8. Cardinality(Logged(t) \cup {Len(log) + 1}) = Cardinality(Logged(t)) + 1
  BY <1>6, <1>7, FS_AddElement
<1>. QED BY <1>1, <1>2, <1>8

LEMMA LineTyped ==
  ASSUME NEW t \in {"alert", "incident"}, NEW id \in Id, NEW uid \in Uid
  PROVE  /\ Line(t, id, uid) \in Entry
         /\ Line(t, id, uid).type = t /\ Line(t, id, uid).id = id
         /\ Line(t, id, uid).uid = uid
BY DEF Line, Entry

LEMMA InitInductive == Init => IInv
<1>. SUFFICES ASSUME Init PROVE IInv OBVIOUS
<1>. USE DEF Init
<1>1. \A t : Logged(t) = {} BY DEF Logged
<1>2. LoggedIds("incident") = {} BY <1>1 DEF LoggedIds
<1>3. Cardinality({}) = 0 BY FS_EmptySet
<1>4. TypeOK
  <2>1. DOMAIN incidents = {} BY DEF NoIncidents
  <2>2. stats \in [alerts: Nat, incidents: Nat] BY DEF ZeroStats
  <2>. QED BY <2>1, <2>2 DEF TypeOK, Day
<1>5. Marked BY <1>2 DEF Marked
<1>6. LoggedOnce /\ ResultsLogged BY <1>1 DEF LoggedOnce, ResultsLogged
<1>7. AckedIsLogged BY <1>1, <1>3 DEF AckedIsLogged, ZeroStats
<1>. QED BY <1>4, <1>5, <1>6, <1>7 DEF IInv

-----------------------------------------------------------------------------
\* All of it but the numbering is kept by every step.
LEMMA TypeOKKept == IInv /\ [Next]_vars => TypeOK'
<1>. SUFFICES ASSUME IInv, [Next]_vars PROVE TypeOK' OBVIOUS
<1>. USE DEF IInv, TypeOK
<1>1. ASSUME NEW k \in 1..MaxBatch, NEW levels \in [1..k -> Levels \cup {Malformed}],
             Post(levels)
      PROVE  TypeOK'
  <2>1. levels \in Seq(Levels \cup {Malformed}) /\ Len(levels) = k /\ DOMAIN levels = 1..k
    OBVIOUS
  <2>2. \A i \in 1..k : received + i \in Uid BY <1>1, <2>1 DEF Post, Uid
  <2>3. batch' = [i \in 1..k |-> [uid |-> received + i, level |-> levels[i]]]
    BY <1>1, <2>1 DEF Post
  <2>4. \A i \in 1..k : [uid |-> received + i, level |-> levels[i]] \in Raw
    BY <2>2 DEF Raw
  <2>5. batch' \in [1..k -> Raw] BY <2>3, <2>4
  <2>6. batch' \in Seq(Raw)
    <3>1. k \in Nat BY BoundsAssumption
    <3>2. batch' \in UNION {[1..m -> Raw] : m \in Nat} BY <2>5, <3>1, Zenon
    <3>. QED BY <3>2, SeqDef, Zenon
  <2>7. received' \in 0..MaxAlerts BY <1>1, <2>1 DEF Post
  <2>. QED BY <1>1, <2>6, <2>7 DEF Post
<1>2. ASSUME batch # <<>>
      PROVE  /\ Head(batch).uid \in Uid /\ Tail(batch) \in Seq(Raw)
             /\ <<today, n + 1>> \in Id
  <2>1. Head(batch) \in Raw /\ Tail(batch) \in Seq(Raw) BY <1>2
  <2>. QED BY <2>1 DEF Raw, Id
<1>3. ASSUME batch # <<>>, Triage(Head(batch), <<today, n + 1>>)
      PROVE  /\ n' \in Nat /\ DOMAIN incidents' \subseteq Id
             /\ \A i \in DOMAIN incidents' : incidents'[i] \in Uid
  <2>1. CASE Escalates(Head(batch).level)
    <3>1. incidents' = [i \in DOMAIN incidents \cup {<<today, n + 1>>} |->
                         IF i = <<today, n + 1>> THEN Head(batch).uid ELSE incidents[i]]
      BY <1>3, <2>1 DEF Triage
    <3>2. DOMAIN incidents' = DOMAIN incidents \cup {<<today, n + 1>>} BY <3>1
    <3>3. <<today, n + 1>> \in Id /\ Head(batch).uid \in Uid BY <1>2, <1>3
    <3>4. DOMAIN incidents' \subseteq Id BY <3>2, <3>3
    <3>5. ASSUME NEW i \in DOMAIN incidents' PROVE incidents'[i] \in Uid
      <4>1. CASE i = <<today, n + 1>> BY <3>1, <3>2, <3>3, <4>1
      <4>2. CASE i # <<today, n + 1>> BY <3>1, <3>2, <4>2
      <4>. QED BY <4>1, <4>2
    <3>6. n' \in Nat BY <1>3 DEF Triage
    <3>. QED BY <3>4, <3>5, <3>6
  <2>2. CASE ~Escalates(Head(batch).level) BY <1>3, <2>2 DEF Triage
  <2>. QED BY <2>1, <2>2
<1>4. CASE IngestOne
  <2>1. /\ Line("alert", <<today, n + 1>>, Head(batch).uid) \in Entry
        /\ log' = Append(log, Line("alert", <<today, n + 1>>, Head(batch).uid))
    BY <1>2, <1>4, LineTyped DEF IngestOne
  <2>2. log' \in Seq(Entry) BY <2>1, LogGrows
  <2>3. stats' = [stats EXCEPT !.alerts = stats.alerts + 1] BY <1>4 DEF IngestOne
  <2>4. stats' \in [alerts: Nat, incidents: Nat] BY <2>3
  <2>5. /\ batch # <<>> /\ batch' = Tail(batch)
        /\ results' = results \cup {<< <<today, n + 1>>, Head(batch).uid >>}
        /\ Triage(Head(batch), <<today, n + 1>>)
        /\ UNCHANGED <<today, persisted, phase, answered, received>>
    BY <1>4 DEF IngestOne
  <2>6. results' \subseteq Id \X Uid
    <3>1. <<today, n + 1>> \in Id /\ Head(batch).uid \in Uid BY <1>2, <2>5
    <3>2. << <<today, n + 1>>, Head(batch).uid >> \in Id \X Uid BY <3>1
    <3>. QED BY <2>5, <3>2
  <2>. QED BY <1>2, <1>3, <2>2, <2>4, <2>5, <2>6
<1>5. CASE IngestMalformed BY <1>2, <1>5 DEF IngestMalformed
<1>6. CASE IngestFails BY <1>3, <1>6 DEF IngestFails, Abort
<1>7. CASE EndIngest BY <1>7 DEF EndIngest
<1>8. ASSUME NEW id \in DOMAIN incidents, PersistOne(id) PROVE TypeOK'
  <2>1. /\ Line("incident", id, incidents[id]) \in Entry
        /\ log' = Append(log, Line("incident", id, incidents[id]))
    BY <1>8, LineTyped DEF PersistOne
  <2>2. log' \in Seq(Entry) BY <2>1, LogGrows
  <2>3. stats' \in [alerts: Nat, incidents: Nat] BY <1>8 DEF PersistOne
  <2>. QED BY <1>8, <2>2, <2>3 DEF PersistOne
<1>9. CASE PersistFails BY <1>9 DEF PersistFails, Abort
<1>10. CASE Answer BY <1>10 DEF Answer
<1>11. CASE Midnight BY <1>11 DEF Midnight, Day
<1>12. CASE Restart
  <2>1. ASSUME NEW t PROVE Cardinality(Logged(t)) \in Nat
    <3>1. IsFiniteSet(DOMAIN log) /\ Logged(t) \subseteq DOMAIN log
      <4>1. DOMAIN log = 1..Len(log) /\ Len(log) \in Nat OBVIOUS
      <4>2. 1 \in Int /\ Len(log) \in Int BY <4>1
      <4>3. IsFiniteSet(1..Len(log)) BY <4>2, FS_Interval
      <4>4. Logged(t) \subseteq DOMAIN log BY DEF Logged
      <4>. QED BY <4>1, <4>3, <4>4
    <3>. QED BY <3>1, FS_Subset, FS_CardinalityType
  <2>2. stats' \in [alerts: Nat, incidents: Nat] BY <1>12, <2>1 DEF Restart, Rehydrate
  <2>3. persisted' \subseteq Id
    <3>1. \A i \in DOMAIN log : log[i] \in Entry OBVIOUS
    <3>2. LoggedIds("incident") \subseteq Id BY <3>1 DEF LoggedIds, Logged, Entry
    <3>. QED BY <1>12, <3>2 DEF Restart, Rehydrate
  <2>. QED BY <1>12, <2>2, <2>3 DEF Restart, NoIncidents
<1>13. CASE UNCHANGED vars BY <1>13 DEF vars
<1>. QED BY <1>1, <1>4, <1>5, <1>6, <1>7, <1>8, <1>9, <1>10, <1>11, <1>12, <1>13 DEF Next

\* The two steps that write a line, and what they write.
LEMMA AlertWritten ==
  ASSUME TypeOK, IngestOne
  PROVE  /\ Line("alert", <<today, n + 1>>, Head(batch).uid) \in Entry
         /\ log' = Append(log, Line("alert", <<today, n + 1>>, Head(batch).uid))
<1>1. Head(batch) \in Raw BY DEF IngestOne, TypeOK
<1>2. Head(batch).uid \in Uid /\ <<today, n + 1>> \in Id BY <1>1 DEF Raw, Id, TypeOK
<1>. QED BY <1>2, LineTyped DEF IngestOne

LEMMA IncidentWritten ==
  ASSUME TypeOK, NEW id \in DOMAIN incidents, PersistOne(id)
  PROVE  /\ Line("incident", id, incidents[id]) \in Entry
         /\ log' = Append(log, Line("incident", id, incidents[id]))
BY LineTyped DEF PersistOne, TypeOK

\* After a restart too, what is marked is what the log holds.
LEMMA MarkedKept == IInv /\ [Next]_vars => Marked'
<1>. SUFFICES ASSUME IInv, [Next]_vars PROVE Marked' OBVIOUS
<1>. USE DEF IInv, Marked
<1>0. TypeOK /\ log \in Seq(Entry) BY DEF TypeOK
<1>1. CASE IngestOne
  <2>1. PICK e \in Entry : e.type = "alert" /\ log' = Append(log, e)
    BY <1>0, <1>1, AlertWritten DEF Line
  <2>2. LoggedIds("incident")' = LoggedIds("incident") BY <1>0, <2>1, LoggedGrows
  <2>. QED BY <1>1, <2>2 DEF IngestOne
<1>2. ASSUME NEW id \in DOMAIN incidents, PersistOne(id) PROVE Marked'
  <2>1. Line("incident", id, incidents[id]) \in Entry BY <1>0, <1>2, IncidentWritten
  <2>2. LoggedIds("incident")' = LoggedIds("incident") \cup {id}
    BY <1>0, <1>2, <2>1, LoggedGrows DEF PersistOne, Line
  <2>. QED BY <1>2, <2>2 DEF PersistOne
<1>3. CASE UNCHANGED <<log, persisted>> BY <1>3 DEF LoggedIds, Logged
<1>4. CASE Restart BY <1>4 DEF Restart, Rehydrate, LoggedIds, Logged
<1>. QED BY <1>1, <1>2, <1>3, <1>4 DEF Next, vars, Post, IngestMalformed, IngestFails,
            Abort, EndIngest, PersistFails, Answer, Midnight

\* A new incident line is about an id no line of the log carries yet.
LEMMA LoggedOnceKept == IInv /\ [Next]_vars => LoggedOnce'
<1>. SUFFICES ASSUME IInv, [Next]_vars PROVE LoggedOnce' OBVIOUS
<1>. USE DEF IInv, LoggedOnce
<1>0. TypeOK /\ log \in Seq(Entry) BY DEF TypeOK
<1>1. CASE UNCHANGED log BY <1>1 DEF Logged
<1>2. ASSUME NEW e \in Entry, log' = Append(log, e), e.type = "alert"
      PROVE  LoggedOnce'
  <2>1. Logged("incident")' = Logged("incident") BY <1>0, <1>2, LoggedGrows
  <2>2. \A i \in Logged("incident") : log'[i] = log[i] BY <1>0, <1>2, LogGrows DEF Logged
  <2>. QED BY <2>1, <2>2
<1>3. ASSUME NEW id \in Unlogged, NEW e \in Entry, log' = Append(log, e),
             e.type = "incident", e.id = id
      PROVE  LoggedOnce'
  <2>1. Logged("incident")' = Logged("incident") \cup {Len(log) + 1}
    BY <1>0, <1>3, LoggedGrows
  <2>2. /\ \A i \in Logged("incident") : log'[i] = log[i]
        /\ log'[Len(log) + 1].id = id
    BY <1>0, <1>3, LogGrows DEF Logged
  <2>3. \A i \in Logged("incident") : log[i].id # id
    BY <1>3 DEF Unlogged, Marked, LoggedIds
  <2>. QED BY <2>1, <2>2, <2>3
<1>4. CASE IngestOne
  BY <1>0, <1>2, <1>4, AlertWritten DEF Line
<1>5. ASSUME NEW id \in DOMAIN incidents, PersistOne(id) PROVE LoggedOnce'
  <2>1. Line("incident", id, incidents[id]) \in Entry
    BY <1>0, <1>5, IncidentWritten
  <2>. QED BY <1>3, <1>5, <2>1 DEF PersistOne, Line
<1>. QED BY <1>1, <1>4, <1>5 DEF Next, vars, Post, IngestMalformed, IngestFails, Abort,
            EndIngest, PersistFails, Answer, Midnight, Restart

\* Lines are never taken back, and an answer takes what the batch has logged.
LEMMA AcknowledgedKept == IInv /\ [Next]_vars => ResultsLogged' /\ AckedIsLogged'
<1>. SUFFICES ASSUME IInv, [Next]_vars PROVE ResultsLogged' /\ AckedIsLogged' OBVIOUS
<1>. USE DEF IInv
<1>0. TypeOK /\ log \in Seq(Entry) BY DEF TypeOK
<1>1. ASSUME NEW e \in Entry, log' = Append(log, e), NEW p,
             \E i \in Logged("alert") : log[i].id = p[1] /\ log[i].uid = p[2]
      PROVE  \E i \in Logged("alert")' : log'[i].id = p[1] /\ log'[i].uid = p[2]
  <2>1. Logged("alert") \subseteq Logged("alert")' BY <1>0, <1>1, LoggedGrows
  <2>2. \A i \in Logged("alert") : log'[i] = log[i] BY <1>0, <1>1, LogGrows DEF Logged
  <2>. QED BY <1>1, <2>1, <2>2
<1>2. CASE IngestOne
  <2>. DEFINE e == Line("alert", <<today, n + 1>>, Head(batch).uid)
              p0 == << <<today, n + 1>>, Head(batch).uid >>
  <2>1. e \in Entry /\ log' = Append(log, e) /\ e.type = "alert"
        /\ e.id = p0[1] /\ e.uid = p0[2]
    BY <1>0, <1>2, AlertWritten DEF Line
  <2>2. results' = results \cup {p0} /\ UNCHANGED answered BY <1>2 DEF IngestOne
  <2>3. stats' = [stats EXCEPT !.alerts = stats.alerts + 1] BY <1>2 DEF IngestOne
  <2>. HIDE DEF e, p0
  <2>4. \E i \in Logged("alert")' : log'[i].id = p0[1] /\ log'[i].uid = p0[2]
    BY <1>0, <2>1, LogGrows DEF Logged
  <2>5. ResultsLogged' BY <1>1, <2>1, <2>2, <2>4 DEF ResultsLogged
  <2>6. /\ Cardinality(Logged("alert")') = Cardinality(Logged("alert")) + 1
        /\ Logged("incident")' = Logged("incident")
    BY <1>0, <2>1, LoggedGrows
  <2>7. stats'.alerts = stats.alerts + 1 /\ stats'.incidents = stats.incidents
    BY <2>3 DEF TypeOK
  <2>8. \A p \in answered' :
          \E i \in Logged("alert")' : log'[i].id = p[1] /\ log'[i].uid = p[2]
    BY <1>1, <2>1, <2>2 DEF AckedIsLogged
  <2>. QED BY <2>5, <2>6, <2>7, <2>8 DEF AckedIsLogged
<1>3. ASSUME NEW id \in DOMAIN incidents, PersistOne(id)
      PROVE  ResultsLogged' /\ AckedIsLogged'
  <2>. DEFINE e == Line("incident", id, incidents[id])
  <2>1. e \in Entry /\ log' = Append(log, e) /\ e.type = "incident"
    BY <1>0, <1>3, IncidentWritten DEF Line
  <2>2. stats' = [stats EXCEPT !.incidents = stats.incidents + 1]
        /\ UNCHANGED <<results, answered>>
    BY <1>3 DEF PersistOne
  <2>. HIDE DEF e
  <2>3. /\ Cardinality(Logged("incident")') = Cardinality(Logged("incident")) + 1
        /\ Logged("alert")' = Logged("alert")
    BY <1>0, <2>1, LoggedGrows
  <2>4. stats'.alerts = stats.alerts /\ stats'.incidents = stats.incidents + 1
    BY <2>2 DEF TypeOK
  <2>5. ResultsLogged' BY <1>1, <2>1, <2>2 DEF ResultsLogged
  <2>6. \A p \in answered' :
          \E i \in Logged("alert")' : log'[i].id = p[1] /\ log'[i].uid = p[2]
    BY <1>1, <2>1, <2>2 DEF AckedIsLogged
  <2>. QED BY <2>3, <2>4, <2>5, <2>6 DEF AckedIsLogged
<1>4. CASE UNCHANGED <<log, stats, answered>> /\ results' \in {results, {}}
  BY <1>4 DEF ResultsLogged, AckedIsLogged, Logged
<1>5. CASE Answer BY <1>5 DEF Answer, ResultsLogged, AckedIsLogged, Logged
<1>6. CASE Restart
  BY <1>6 DEF Restart, Rehydrate, ResultsLogged, AckedIsLogged, Logged
<1>. QED BY <1>2, <1>3, <1>4, <1>5, <1>6 DEF Next, vars, Post, IngestMalformed,
            IngestFails, Abort, EndIngest, PersistFails, Midnight

LEMMA Inductive == Spec => []IInv
<1>1. IInv /\ [Next]_vars => IInv'
  BY TypeOKKept, MarkedKept, LoggedOnceKept, AcknowledgedKept DEF IInv
<1>. QED BY InitInductive, <1>1, PTL DEF Spec

-----------------------------------------------------------------------------
\* Every state is well-typed.
THEOREM TypeCorrect == Spec => []TypeOK
<1>1. IInv => TypeOK BY DEF IInv
<1>. QED BY Inductive, <1>1, PTL

\* No incident is logged twice, whatever fails and however often the service
\* is restarted.
THEOREM IncidentsLoggedOnce == Spec => []LoggedOnce
<1>1. IInv => LoggedOnce BY DEF IInv
<1>. QED BY Inductive, <1>1, PTL

\* What an answer acknowledges is in the log, and the counters of /healthz are
\* those of the log, after a restart as before it.
THEOREM AcknowledgedIsLogged == Spec => []AckedIsLogged
<1>1. IInv => AckedIsLogged BY DEF IInv
<1>. QED BY Inductive, <1>1, PTL

\* A batch is answered only when the log holds every incident in memory.
THEOREM AnswerLeavesNothing == Spec => NothingLeftBehind
<1>1. IInv /\ [Next]_vars =>
        [answered' # answered =>
           \A id \in DOMAIN incidents : id \in LoggedIds("incident")]_vars
  <2>1. ASSUME IInv, Answer
        PROVE  \A id \in DOMAIN incidents : id \in LoggedIds("incident")
    BY <2>1 DEF IInv, Marked, Answer, Unlogged
  <2>2. ASSUME Next, ~Answer PROVE UNCHANGED answered
    BY <2>2 DEF Next, Post, IngestOne, IngestMalformed, IngestFails, Abort, EndIngest,
                PersistOne, PersistFails, Midnight, Restart
  <2>. QED BY <2>1, <2>2
<1>. QED BY Inductive, <1>1, PTL DEF Spec, NothingLeftBehind

\* What a restarted service needs for its incidents to be durable: that it has
\* a day of its own.
DInv == IInv /\ Numbered /\ IncidentDurable

LEMMA DurableInit == Init => DInv
<1>. SUFFICES ASSUME Init PROVE DInv OBVIOUS
<1>1. DOMAIN incidents = {} /\ \A t : Logged(t) = {} BY DEF Init, NoIncidents, Logged
<1>2. LoggedIds("incident") = {} BY <1>1 DEF LoggedIds
<1>. QED BY <1>1, <1>2, InitInductive DEF DInv, Numbered, IncidentDurable

\* The next number is used by no incident of the log, nor by one in memory.
LEMMA NumberedKept == ~SameDayRestart /\ DInv /\ [Next]_vars => Numbered'
<1>. SUFFICES ASSUME ~SameDayRestart, DInv, [Next]_vars PROVE Numbered' OBVIOUS
<1>. USE DEF DInv, IInv, Numbered
<1>0. /\ TypeOK /\ log \in Seq(Entry) /\ today \in Nat /\ n \in Nat
      /\ DOMAIN incidents \cup LoggedIds("incident") \subseteq Day \X Nat
  <2>1. LoggedIds("incident") \subseteq Id
    <3>1. log \in Seq(Entry) BY DEF TypeOK
    <3>2. \A i \in DOMAIN log : log[i] \in Entry BY <3>1
    <3>. QED BY <3>2 DEF LoggedIds, Logged, Entry
  <2>. QED BY <2>1 DEF TypeOK, Day, Id
<1>1. ASSUME NEW a, Triage(a, <<today, n + 1>>), today' = today,
             LoggedIds("incident")' = LoggedIds("incident")
      PROVE  Numbered'
  <2>1. DOMAIN incidents' \subseteq DOMAIN incidents \cup {<<today, n + 1>>}
    BY <1>1 DEF Triage
  <2>2. n' = n + 1 BY <1>1 DEF Triage
  <2>. QED BY <1>0, <1>1, <2>1, <2>2 DEF Day
<1>2. CASE IngestOne
  <2>1. LoggedIds("incident")' = LoggedIds("incident")
    BY <1>0, <1>2, AlertWritten, LoggedGrows DEF Line
  <2>. QED BY <1>1, <1>2, <2>1 DEF IngestOne
<1>3. CASE IngestFails
  <2>1. LoggedIds("incident")' = LoggedIds("incident")
    BY <1>3 DEF IngestFails, LoggedIds, Logged
  <2>. QED BY <1>1, <1>3, <2>1 DEF IngestFails, Abort
<1>4. ASSUME NEW id \in DOMAIN incidents, PersistOne(id) PROVE Numbered'
  <2>1. LoggedIds("incident")' = LoggedIds("incident") \cup {id}
    BY <1>0, <1>4, IncidentWritten, LoggedGrows DEF Line
  <2>. QED BY <1>4, <2>1 DEF PersistOne
<1>5. CASE Midnight
  <2>1. LoggedIds("incident")' = LoggedIds("incident")
    BY <1>5 DEF Midnight, LoggedIds, Logged
  <2>. QED BY <1>0, <1>5, <2>1 DEF Midnight, Day
<1>6. CASE Restart
  <2>1. LoggedIds("incident")' = LoggedIds("incident")
    BY <1>6 DEF Restart, LoggedIds, Logged
  <2>2. \A id \in LoggedIds("incident") : id[1] < today
    BY <1>6 DEF Restart, LoggedIds, Logged
  <2>. QED BY <1>6, <2>1, <2>2 DEF Restart, NoIncidents
<1>7. CASE IngestMalformed
  <2>1. LoggedIds("incident")' = LoggedIds("incident")
    BY <1>7 DEF IngestMalformed, LoggedIds, Logged
  <2>. QED BY <1>0, <1>7, <2>1 DEF IngestMalformed, Day
<1>8. CASE UNCHANGED <<today, n, incidents, log>>
  <2>1. LoggedIds("incident")' = LoggedIds("incident") BY <1>8 DEF LoggedIds, Logged
  <2>. QED BY <1>8, <2>1
<1>. QED BY <1>2, <1>3, <1>4, <1>5, <1>6, <1>7, <1>8 DEF Next, vars, Post, EndIngest,
            PersistFails, Abort, Answer

\* An incident takes a number nobody has, and its line is written once.
LEMMA DurableKept == DInv /\ [Next]_vars => IncidentDurable'
<1>. SUFFICES ASSUME DInv, [Next]_vars PROVE IncidentDurable' OBVIOUS
<1>. USE DEF DInv, IInv, IncidentDurable
<1>0. TypeOK /\ log \in Seq(Entry) /\ today \in Nat /\ n \in Nat BY DEF TypeOK, Day
<1>1. ASSUME NEW a, Triage(a, <<today, n + 1>>)
      PROVE  /\ <<today, n + 1>> \notin persisted
             /\ \A id \in DOMAIN incidents' \cap persisted :
                  id \in DOMAIN incidents /\ incidents'[id] = incidents[id]
  <2>1. <<today, n + 1>> \notin LoggedIds("incident") BY <1>0 DEF Numbered
  <2>2. <<today, n + 1>> \notin persisted BY <2>1 DEF Marked
  <2>. QED BY <1>1, <2>2 DEF Triage
<1>2. ASSUME NEW e \in Entry, log' = Append(log, e), NEW id, NEW uid,
             \E i \in Logged("incident") : log[i].id = id /\ log[i].uid = uid
      PROVE  \E i \in Logged("incident")' : log'[i].id = id /\ log'[i].uid = uid
  <2>1. Logged("incident") \subseteq Logged("incident")'
    BY <1>0, <1>2, LoggedGrows
  <2>2. \A i \in Logged("incident") : log'[i] = log[i]
    BY <1>0, <1>2, LogGrows DEF Logged
  <2>3. PICK i \in Logged("incident") : log[i].id = id /\ log[i].uid = uid BY <1>2
  <2>4. log'[i].id = id /\ log'[i].uid = uid BY <2>2, <2>3
  <2>5. i \in Logged("incident")' BY <2>1, Zenon
  <2>6. i \in Logged("incident")' /\ log'[i].id = id /\ log'[i].uid = uid
    BY <2>4, <2>5
  <2>. QED BY <2>6
<1>3. CASE IngestOne
  <2>1. Triage(Head(batch), <<today, n + 1>>) /\ UNCHANGED persisted
    BY <1>3 DEF IngestOne
  <2>. QED BY <1>0, <1>1, <1>2, <1>3, <2>1, AlertWritten
<1>4. CASE IngestFails
  <2>1. /\ Triage(Head(batch), <<today, n + 1>>)
        /\ UNCHANGED <<persisted, log>>
    BY <1>4 DEF IngestFails, Abort
  <2>. QED BY <1>1, <2>1 DEF Logged
<1>5. ASSUME NEW id \in DOMAIN incidents, PersistOne(id) PROVE IncidentDurable'
  <2>. DEFINE e == Line("incident", id, incidents[id])
  <2>1. /\ e \in Entry /\ log' = Append(log, e)
        /\ e.type = "incident" /\ e.id = id /\ e.uid = incidents[id]
    BY <1>0, <1>5, IncidentWritten DEF Line
  <2>2. persisted' = persisted \cup {id} /\ UNCHANGED incidents BY <1>5 DEF PersistOne
  <2>. HIDE DEF e
  <2>3. \E i \in Logged("incident")' : log'[i].id = id /\ log'[i].uid = incidents[id]
    BY <1>0, <2>1, LogGrows DEF Logged
  <2>4. ASSUME NEW i \in DOMAIN incidents \cap persisted
        PROVE  \E j \in Logged("incident")' : log'[j].id = i /\ log'[j].uid = incidents[i]
    <3>1. \E j \in Logged("incident") : log[j].id = i /\ log[j].uid = incidents[i]
      OBVIOUS
    <3>2. log' = Append(log, e) /\ e \in Entry BY <2>1
    <3>. QED BY <1>2, <3>1, <3>2
  <2>5. \A i \in DOMAIN incidents' \cap persisted' :
          i = id \/ i \in DOMAIN incidents \cap persisted
    BY <2>2
  <2>. QED BY <2>2, <2>3, <2>4, <2>5
<1>6. CASE Restart BY <1>6 DEF Restart, NoIncidents
<1>7. CASE UNCHANGED <<incidents, persisted, log>> BY <1>7 DEF Logged
<1>. QED BY <1>3, <1>4, <1>5, <1>6, <1>7 DEF Next, vars, Post, IngestMalformed,
            EndIngest, PersistFails, Abort, Answer, Midnight

\* Provided that the service is not restarted on a day it has logged on, an
\* incident that is marked as persisted has a line about the very alert that
\* opened it.
THEOREM IncidentsDurable == ~SameDayRestart /\ Spec => []IncidentDurable
<1>1. IInv /\ [Next]_vars => IInv'
  BY TypeOKKept, MarkedKept, LoggedOnceKept, AcknowledgedKept DEF IInv
<1>2. ASSUME ~SameDayRestart PROVE DInv /\ [Next]_vars => DInv'
  BY <1>1, <1>2, NumberedKept, DurableKept DEF DInv
<1>3. DInv => IncidentDurable BY DEF DInv
<1>4. ASSUME ~SameDayRestart PROVE Spec => []IncidentDurable
  BY <1>2, <1>3, <1>4, DurableInit, PTL DEF Spec
<1>. QED BY <1>4

-----------------------------------------------------------------------------
(* The script and the service.                                            *)

\* The places of a process that has gone past the server.
Past == {"waiting", "mailing", "sent", "failed"}

\* Only a process past its POST has a request at the server or an alert in it,
\* only one that has come to its end has mailed, and what is no object is odd.
Placed == /\ \A p \in Process : stage[p] # "none" =>
               level[p] \in Levels \cup {Malformed} /\ (level[p] = Malformed => odd[p])
          /\ \A p \in request : stage[p] \in Past
          /\ \A c \in carried : stage[c[2]] \in Past
          /\ \A m \in mails : stage[m[1]] \in {"sent", "failed"}

\* What the server took and what was mailed is the story as it is.
Told == /\ \A c \in carried : c[3] = story[c[2]]
        /\ \A m \in mails : m[2] = story[m[1]]

\* The server takes one request of each process.
TakenOnce == /\ \A p \in request, c \in carried : c[2] # p
             /\ \A c, d \in carried : c[2] = d[2] => c = d

\* A row is written when the model is asked, and says what the story says.
Audited == \A r \in rows :
  stage[r[1]] \notin {"none", "dropped", "enriching"} /\ story[r[1]].narrative = r[2]

\* An alert that was received is in one line of the log at most, and in none
\* while it is still in the batch.
UidsOnce ==
  /\ \A i \in Logged("alert") : log[i].uid <= received
  /\ \A k \in DOMAIN batch : batch[k].uid <= received
  /\ \A i, j \in Logged("alert") : log[i].uid = log[j].uid => i = j
  /\ \A i \in Logged("alert"), k \in DOMAIN batch : log[i].uid # batch[k].uid
  /\ \A k, l \in DOMAIN batch : batch[k].uid = batch[l].uid => k = l

PInv ==
  /\ PipelineTypeOK /\ Placed /\ Told /\ TakenOnce /\ Audited /\ EndTells

-----------------------------------------------------------------------------
\* A start of p.
Launches(p) == \E s \in Setups, l \in Levels \cup {Malformed}, o \in BOOLEAN : Launch(p, s, l, o)

\* A step of the composition is a step of the service, or none of its business.
LEMMA StepMaps ==
  ASSUME PipelineTypeOK, Placed, [PipelineNext]_allVars
  PROVE  [Next]_vars
<1>1. ASSUME NEW p \in Process, TakeRequest(p) PROVE Next
  <2>1. stage[p] \in Past BY <1>1 DEF TakeRequest, Placed
  <2>2. level[p] \in Levels \cup {Malformed} BY <1>1, <2>1 DEF TakeRequest, Placed, Past,
                                                             PipelineTypeOK
  <2>3. <<level[p]>> \in [1..1 -> Levels \cup {Malformed}] BY <2>2
  <2>4. 1 \in 1..MaxBatch BY BoundsAssumption
  <2>. QED BY <1>1, <2>3, <2>4, Zenon DEF TakeRequest, Next
<1>2. ASSUME NEW p \in Process, ScriptStep(p) \/ Launches(p)
      PROVE  UNCHANGED vars
  BY <1>2 DEF ScriptStep, Launches, Launch, EnrichSkipped, Enrich, EnrichRaises, AnswerRaises,
              Decide, Submit, NoServer, StopWaiting, Unmailable, Mail, MailFails
<1>3. CASE (ServerStep \/ OtherPost) /\ UNCHANGED scriptVars
  BY <1>3, Zenon DEF ServerStep, OtherPost, Next
<1>4. CASE RestartServer BY <1>4 DEF RestartServer, Next
<1>5. CASE UNCHANGED allVars BY <1>5 DEF allVars
<1>. QED BY <1>1, <1>2, <1>3, <1>4, <1>5, Zenon DEF PipelineNext, Launches

\* The steps of the script's variables: what the service does leaves them alone.
LEMMA ScriptMoves ==
  ASSUME [PipelineNext]_allVars
  PROVE  \/ \E p \in Process : ScriptStep(p) \/ TakeRequest(p)
                               \/ Launches(p)
         \/ request' = {} /\ UNCHANGED <<given, stage, story, rows, carried, mails, broken>>
         \/ UNCHANGED scriptVars
BY DEF PipelineNext, RestartServer, Launches, given, allVars, scriptVars

LEMMA PipelineInitInductive == PipelineInit => PInv
<1>. SUFFICES ASSUME PipelineInit PROVE PInv OBVIOUS
<1>. USE DEF PipelineInit
<1>1. TypeOK BY InitInductive DEF IInv
<1>2. Bare \in Stories BY DEF Bare, Stories
<1>3. PipelineTypeOK BY <1>1, <1>2 DEF PipelineTypeOK, Stages, Setups, Complete
<1>4. Placed /\ Told /\ TakenOnce BY DEF Placed, Told, TakenOnce
<1>5. Audited /\ EndTells BY DEF Audited, EndTells
<1>. QED BY <1>3, <1>4, <1>5 DEF PInv

-----------------------------------------------------------------------------
\* What a process does to its own story.
LEMMA StoryTyped ==
  ASSUME NEW p \in Process, PipelineTypeOK,
         \/ UNCHANGED story
         \/ \E what \in {"answer", "error", "missing"} : Tell(p, "narrative", what)
         \/ Tell(p, "decision", "given")
  PROVE  story' \in [Process -> Stories]
<1>0. story \in [Process -> Stories] BY DEF PipelineTypeOK
<1>1. ASSUME NEW what \in {"answer", "error", "missing"}, Tell(p, "narrative", what)
      PROVE  story' \in [Process -> Stories]
  <2>1. [story[p] EXCEPT !["narrative"] = what] \in Stories BY <1>0 DEF Stories
  <2>. QED BY <1>0, <1>1, <2>1 DEF Tell
<1>2. CASE Tell(p, "decision", "given")
  <2>1. [story[p] EXCEPT !["decision"] = "given"] \in Stories BY <1>0 DEF Stories
  <2>. QED BY <1>0, <1>2, <2>1 DEF Tell
<1>. QED BY <1>0, <1>1, <1>2

LEMMA PipelineTypeOKKept ==
  ASSUME PipelineTypeOK, Placed, TypeOK', [PipelineNext]_allVars
  PROVE  PipelineTypeOK'
<1>. USE DEF PipelineTypeOK, given
<1>1. ASSUME NEW p \in Process, NEW s \in Setups, NEW l \in Levels \cup {Malformed},
             NEW o \in BOOLEAN, Launch(p, s, l, o)
      PROVE  PipelineTypeOK'
  <2>1. stage' \in [Process -> Stages]
    BY <1>1 DEF Launch, Goto, Stages, Verdicts
  <2>. QED BY <1>1, <2>1 DEF Launch
<1>2. ASSUME NEW p \in Process, EnrichSkipped(p) \/ Enrich(p) \/ Decide(p)
      PROVE  PipelineTypeOK'
  <2>1. stage' \in [Process -> Stages]
    BY <1>2 DEF EnrichSkipped, Enrich, Decide, Goto, Stages
  <2>2. story' \in [Process -> Stories]
    BY <1>2, StoryTyped DEF EnrichSkipped, Enrich, Decide, CallOpenclaw, CallOllama
  <2>3. rows' \subseteq Process \X {"answer", "error"}
    BY <1>2 DEF EnrichSkipped, Enrich, Decide, CallOpenclaw, CallOllama
  <2>. QED BY <1>2, <2>1, <2>2, <2>3 DEF EnrichSkipped, Enrich, Decide
<1>3. ASSUME NEW p \in Process,
             \/ EnrichRaises(p) \/ AnswerRaises(p) \/ Submit(p) \/ NoServer(p)
             \/ StopWaiting(p) \/ Unmailable(p)
      PROVE  PipelineTypeOK'
  BY <1>3 DEF EnrichRaises, AnswerRaises, Submit, NoServer, StopWaiting, Unmailable, Goto, Stages
<1>4. ASSUME NEW p \in Process, Mail(p) \/ MailFails(p) PROVE PipelineTypeOK'
  <2>1. <<p, story[p]>> \in Process \X Stories OBVIOUS
  <2>2. stage' \in [Process -> Stages] BY <1>4 DEF Mail, MailFails, Goto, Stages
  <2>3. mails' \subseteq Process \X Stories /\ broken' \subseteq Process
    BY <1>4, <2>1 DEF Mail, MailFails
  <2>. QED BY <1>4, <2>2, <2>3 DEF Mail, MailFails
<1>5. ASSUME NEW p \in Process, TakeRequest(p) PROVE PipelineTypeOK'
  <2>1. received + 1 \in Uid
    <3>1. received \in Nat /\ received + Len(<<level[p]>>) <= MaxAlerts
      BY <1>5 DEF TakeRequest, Post, TypeOK
    <3>. QED BY <3>1 DEF Uid
  <2>2. <<received + 1, p, story[p]>> \in Uid \X Process \X Stories BY <2>1
  <2>. QED BY <1>5, <2>2 DEF TakeRequest
<1>6. CASE request' = {} /\ UNCHANGED <<given, stage, story, rows, carried, mails, broken>>
  BY <1>6
<1>7. CASE UNCHANGED scriptVars BY <1>7 DEF scriptVars
<1>. HIDE DEF PipelineTypeOK, given
<1>. QED BY <1>1, <1>2, <1>3, <1>4, <1>5, <1>6, <1>7, ScriptMoves, Zenon DEF ScriptStep, Launches

-----------------------------------------------------------------------------
\* A process that is posting has nothing at the server yet, and takes nothing
\* back later.
LEMMA PlacedKept ==
  ASSUME PipelineTypeOK, Placed, [PipelineNext]_allVars
  PROVE  Placed'
<1>. USE DEF PipelineTypeOK, Placed, Past, given
<1>1. ASSUME NEW p \in Process, NEW s \in Setups, NEW l \in Levels \cup {Malformed},
             NEW o \in BOOLEAN, Launch(p, s, l, o)
      PROVE  Placed'
  <2>1. /\ \A q \in Process : q # p =>
             stage'[q] = stage[q] /\ level'[q] = level[q] /\ odd'[q] = odd[q]
        /\ stage[p] = "none" /\ level'[p] = l /\ odd'[p] = o /\ (l = Malformed => o)
        /\ UNCHANGED <<request, carried, mails>>
    BY <1>1 DEF Launch, Goto
  <2>. QED BY <2>1
<1>2. ASSUME NEW p \in Process,
             EnrichSkipped(p) \/ Enrich(p) \/ EnrichRaises(p) \/ AnswerRaises(p) \/ Decide(p)
      PROVE  Placed'
  <2>1. /\ \A q \in Process : q # p => stage'[q] = stage[q]
        /\ stage[p] \in {"enriching", "deciding"} /\ stage'[p] # "none"
        /\ UNCHANGED <<level, odd, request, carried, mails>>
    BY <1>2 DEF EnrichSkipped, Enrich, EnrichRaises, AnswerRaises, Decide, Goto
  <2>. QED BY <2>1
<1>3. ASSUME NEW p \in Process, Submit(p) \/ NoServer(p) \/ StopWaiting(p) \/ Unmailable(p)
      PROVE  Placed'
  BY <1>3 DEF Submit, NoServer, StopWaiting, Unmailable, Goto
<1>4. ASSUME NEW p \in Process, Mail(p) \/ MailFails(p) PROVE Placed'
  BY <1>4 DEF Mail, MailFails, Goto
<1>5. ASSUME NEW p \in Process, TakeRequest(p) PROVE Placed'
  BY <1>5 DEF TakeRequest
<1>6. CASE request' = {} /\ UNCHANGED <<given, stage, story, rows, carried, mails, broken>>
  BY <1>6
<1>7. CASE UNCHANGED scriptVars BY <1>7 DEF scriptVars
<1>. HIDE DEF PipelineTypeOK, Placed, Past, given
<1>. QED BY <1>1, <1>2, <1>3, <1>4, <1>5, <1>6, <1>7, ScriptMoves, Zenon DEF ScriptStep, Launches

\* A story ends before the POST: what is told later is what was told then.
LEMMA ToldKept ==
  ASSUME PipelineTypeOK, Placed, Told, [PipelineNext]_allVars
  PROVE  Told'
<1>. USE DEF PipelineTypeOK, Placed, Told, Past
<1>1. ASSUME NEW p \in Process, EnrichSkipped(p) \/ Enrich(p) \/ Decide(p)
      PROVE  Told'
  <2>1. \A q \in Process : q # p => story'[q] = story[q]
    BY <1>1 DEF EnrichSkipped, Enrich, Decide, Tell
  <2>2. stage[p] \in {"enriching", "deciding"} /\ UNCHANGED <<carried, mails>>
    BY <1>1 DEF EnrichSkipped, Enrich, Decide
  <2>. QED BY <2>1, <2>2
<1>2. ASSUME NEW p \in Process, Mail(p) \/ MailFails(p) PROVE Told'
  BY <1>2 DEF Mail, MailFails
<1>3. ASSUME NEW p \in Process, TakeRequest(p) PROVE Told'
  BY <1>3 DEF TakeRequest
<1>4. CASE UNCHANGED <<story, carried, mails>> BY <1>4
<1>. QED BY <1>1, <1>2, <1>3, <1>4, ScriptMoves, Zenon DEF ScriptStep, scriptVars, Launches,
            Launch, EnrichRaises, AnswerRaises, Submit, NoServer, StopWaiting, Unmailable

\* A process posts once, and its request leaves the server's queue when it is
\* taken.
LEMMA TakenOnceKept ==
  ASSUME PipelineTypeOK, Placed, TakenOnce, [PipelineNext]_allVars
  PROVE  TakenOnce'
<1>. USE DEF PipelineTypeOK, Placed, TakenOnce, Past
<1>1. ASSUME NEW p \in Process, Submit(p) PROVE TakenOnce'
  <2>1. \A c \in carried : c[2] # p BY <1>1 DEF Submit
  <2>. QED BY <1>1, <2>1 DEF Submit
<1>2. ASSUME NEW p \in Process, TakeRequest(p) PROVE TakenOnce'
  <2>1. /\ p \in request /\ request' = request \ {p}
        /\ carried' = carried \cup {<<received + 1, p, story[p]>>}
    BY <1>2 DEF TakeRequest
  <2>2. \A c \in carried : c[2] # p BY <2>1
  <2>. DEFINE new == <<received + 1, p, story[p]>>
  <2>3. new[2] = p /\ \A c \in carried' : c \in carried \/ c = new BY <2>1
  <2>. HIDE DEF new
  <2>4. \A q \in request', c \in carried' : c[2] # q BY <2>1, <2>3
  <2>5. \A c, d \in carried' : c[2] = d[2] => c = d BY <2>2, <2>3
  <2>. QED BY <2>4, <2>5
<1>3. CASE UNCHANGED carried /\ request' \in {request, {}} BY <1>3
<1>. QED BY <1>1, <1>2, <1>3, ScriptMoves, Zenon DEF ScriptStep, scriptVars, Launches, Launch,
            EnrichSkipped, Enrich, EnrichRaises, AnswerRaises, Decide, NoServer, StopWaiting,
            Unmailable, Mail, MailFails

\* After its row a narrative stays what the row says.
LEMMA AuditedKept ==
  ASSUME PipelineTypeOK, Audited, [PipelineNext]_allVars
  PROVE  Audited'
<1>. USE DEF PipelineTypeOK, Audited
<1>0. \A r \in rows : r[1] \in Process OBVIOUS
<1>1. ASSUME NEW p \in Process, NEW s \in Setups, NEW l \in Levels \cup {Malformed},
             NEW o \in BOOLEAN, Launch(p, s, l, o)
      PROVE  Audited'
  <2>1. /\ \A q \in Process : q # p => stage'[q] = stage[q]
        /\ stage[p] = "none" /\ UNCHANGED <<rows, story>>
    BY <1>1 DEF Launch, Goto
  <2>. QED BY <1>0, <2>1
<1>2. ASSUME NEW p \in Process, EnrichSkipped(p) PROVE Audited'
  <2>1. /\ \A q \in Process : q # p => stage'[q] = stage[q] /\ story'[q] = story[q]
        /\ stage[p] = "enriching" /\ UNCHANGED rows
    BY <1>2 DEF EnrichSkipped, Goto, Tell
  <2>. QED BY <1>0, <2>1
<1>3. ASSUME NEW p \in Process, Enrich(p) PROVE Audited'
  <2>1. PICK said \in {"answer", "error"} :
          Tell(p, "narrative", said) /\ rows' \in {rows, rows \cup {<<p, said>>}}
    BY <1>3 DEF Enrich, CallOpenclaw, CallOllama
  <2>2. /\ \A q \in Process : q # p => stage'[q] = stage[q] /\ story'[q] = story[q]
        /\ stage[p] = "enriching" /\ stage'[p] = "deciding" /\ story'[p].narrative = said
    BY <1>3, <2>1 DEF Enrich, Goto, Tell, Stories
  <2>. QED BY <1>0, <2>1, <2>2
<1>4. ASSUME NEW p \in Process, Decide(p) PROVE Audited'
  <2>1. /\ \A q \in Process : q # p => stage'[q] = stage[q]
        /\ stage'[p] \in {"ingesting", "failed"} /\ UNCHANGED rows
    BY <1>4 DEF Decide, Goto
  <2>2. \A q \in Process : story'[q].narrative = story[q].narrative
    BY <1>4 DEF Decide, Tell, Stories
  <2>. QED BY <1>0, <2>1, <2>2
<1>5. ASSUME NEW p \in Process,
             \/ EnrichRaises(p) \/ AnswerRaises(p) \/ Submit(p) \/ NoServer(p)
             \/ StopWaiting(p) \/ Unmailable(p)
      PROVE  Audited'
  BY <1>0, <1>5 DEF EnrichRaises, AnswerRaises, Submit, NoServer, StopWaiting, Unmailable, Goto
<1>6. ASSUME NEW p \in Process, Mail(p) \/ MailFails(p) PROVE Audited'
  BY <1>0, <1>6 DEF Mail, MailFails, Goto
<1>7. CASE UNCHANGED <<stage, story, rows>> BY <1>7
<1>. HIDE DEF PipelineTypeOK, Audited
<1>. QED BY <1>1, <1>2, <1>3, <1>4, <1>5, <1>6, <1>7, ScriptMoves, Zenon
         DEF ScriptStep, Launches, scriptVars, TakeRequest

\* Whatever ends a process badly is in its setup, its alert or a broken exchange,
\* and one that mails is at its end.
LEMMA EndTellsKept ==
  ASSUME PipelineTypeOK, Placed, Placed', EndTells, [PipelineNext]_allVars
  PROVE  EndTells'
<1>. USE DEF PipelineTypeOK, EndTells, given
<1>0. \A p \in Process : stage'[p] = "dropped" => \A c \in carried' : c[2] # p
  BY DEF Placed, Past
<1>1. ASSUME NEW p \in Process, NEW s \in Setups, NEW l \in Levels \cup {Malformed},
             NEW o \in BOOLEAN, Launch(p, s, l, o)
      PROVE  EndTells'
  <2>1. /\ \A q \in Process : q # p =>
             stage'[q] = stage[q] /\ setup'[q] = setup[q] /\ odd'[q] = odd[q]
        /\ setup'[p] = s /\ odd'[p] = o /\ UNCHANGED <<mails, broken>>
    BY <1>1 DEF Launch, Goto
  <2>2. stage'[p] # "sent" /\ (stage'[p] = "failed" => o \/ ~s.env)
    BY <1>1 DEF Launch, Goto, Verdicts
  <2>3. stage'[p] = "failed" => o \/ s # Complete BY <2>2 DEF Complete
  <2>. QED BY <1>0, <2>1, <2>2, <2>3
<1>2. ASSUME NEW p \in Process, EnrichSkipped(p) \/ Enrich(p) \/ EnrichRaises(p) \/ AnswerRaises(p)
      PROVE  EndTells'
  <2>1. /\ \A q \in Process : q # p => stage'[q] = stage[q]
        /\ stage'[p] \in {"deciding", "failed"} /\ mails' = mails /\ broken \subseteq broken'
        /\ UNCHANGED <<setup, odd>>
    BY <1>2 DEF EnrichSkipped, Enrich, EnrichRaises, AnswerRaises, Goto
  <2>2. stage'[p] = "failed" => p \in broken' \/ odd[p] \/ ~setup[p].openclaw
    BY <1>2 DEF EnrichSkipped, Enrich, EnrichRaises, AnswerRaises, Goto
  <2>3. stage'[p] = "failed" => p \in broken' \/ odd[p] \/ setup[p] # Complete
    BY <2>2 DEF Complete
  <2>. QED BY <1>0, <2>1, <2>3
<1>3. ASSUME NEW p \in Process, Decide(p) PROVE EndTells'
  <2>1. /\ \A q \in Process : q # p => stage'[q] = stage[q]
        /\ stage'[p] \in {"ingesting", "failed"} /\ UNCHANGED <<mails, broken, setup, odd>>
        /\ stage[p] = "deciding" /\ (stage'[p] = "failed" => level[p] = Malformed)
    BY <1>3 DEF Decide, Goto
  <2>2. stage'[p] = "failed" => odd[p] BY <2>1 DEF Placed
  <2>. QED BY <1>0, <2>1, <2>2
<1>4. ASSUME NEW p \in Process, Submit(p) \/ NoServer(p) \/ StopWaiting(p) PROVE EndTells'
  BY <1>0, <1>4 DEF Submit, NoServer, StopWaiting, Goto
<1>5. ASSUME NEW p \in Process, Unmailable(p) PROVE EndTells'
  <2>1. /\ \A q \in Process : q # p => stage'[q] = stage[q]
        /\ stage'[p] = "failed" /\ UNCHANGED <<mails, broken, setup, odd>>
        /\ ~setup[p].smtp \/ odd[p]
    BY <1>5 DEF Unmailable, Mailable, Goto
  <2>2. odd[p] \/ setup[p] # Complete BY <2>1 DEF Complete
  <2>. QED BY <1>0, <2>1, <2>2
<1>6. ASSUME NEW p \in Process, Mail(p) \/ MailFails(p) PROVE EndTells'
  <2>1. /\ \A q \in Process : q # p => stage'[q] = stage[q]
        /\ mails \subseteq mails' /\ broken \subseteq broken' /\ UNCHANGED <<setup, odd>>
    BY <1>6 DEF Mail, MailFails, Goto
  <2>2. CASE Mail(p)
    <3>1. <<p, story[p]>> \in mails' /\ <<p, story[p]>>[1] = p /\ stage'[p] = "sent"
      BY <2>2 DEF Mail, Goto
    <3>. QED BY <1>0, <2>1, <3>1
  <2>3. CASE MailFails(p)
    <3>1. p \in broken' /\ stage'[p] = "failed" BY <2>3 DEF MailFails, Goto
    <3>. QED BY <1>0, <2>1, <3>1
  <2>. QED BY <1>6, <2>2, <2>3
<1>7. CASE UNCHANGED <<setup, odd, stage, mails, broken>> BY <1>0, <1>7
<1>8. ASSUME NEW p \in Process, TakeRequest(p) PROVE EndTells'
  BY <1>7, <1>8 DEF TakeRequest
<1>9. CASE UNCHANGED scriptVars BY <1>7, <1>9 DEF scriptVars
<1>10. CASE request' = {} /\ UNCHANGED <<given, stage, story, rows, carried, mails, broken>>
  BY <1>7, <1>10
<1>. HIDE DEF PipelineTypeOK, EndTells
<1>. QED BY <1>1, <1>2, <1>3, <1>4, <1>5, <1>6, <1>8, <1>9, <1>10, ScriptMoves, Zenon
         DEF ScriptStep, Launches

\* The two halves are inductive together: the service needs the script only for
\* the levels of its alerts.
LEMMA PipelineInductive == PipelineSpec => [](IInv /\ PInv)
<1>1. IInv /\ PInv /\ [PipelineNext]_allVars => IInv' /\ PInv'
  <2>. SUFFICES ASSUME IInv, PInv, [PipelineNext]_allVars PROVE IInv' /\ PInv' OBVIOUS
  <2>. USE DEF PInv
  <2>1. [Next]_vars BY StepMaps
  <2>2. IInv'
    BY <2>1, TypeOKKept, MarkedKept, LoggedOnceKept, AcknowledgedKept, Zenon DEF IInv
  <2>3. PipelineTypeOK' BY <2>2, PipelineTypeOKKept DEF IInv
  <2>4. Placed' /\ Told' /\ TakenOnce' BY PlacedKept, ToldKept, TakenOnceKept
  <2>5. Audited' /\ EndTells' BY <2>4, AuditedKept, EndTellsKept
  <2>. QED BY <2>2, <2>3, <2>4, <2>5
<1>2. PipelineInit => IInv /\ PInv
  BY PipelineInitInductive, InitInductive DEF PipelineInit
<1>. QED BY <1>1, <1>2, PTL DEF PipelineSpec

-----------------------------------------------------------------------------
\* Every state of the composition is well-typed.
THEOREM PipelineTypeCorrect == PipelineSpec => []PipelineTypeOK
<1>1. PInv => PipelineTypeOK BY DEF PInv
<1>. QED BY PipelineInductive, <1>1, PTL

\* Seen from its log, the service that the scripts post to is the service on
\* its own: whatever scripts do is something its clients may do.
THEOREM ImplementsIngest == PipelineSpec => Spec
<1>1. PipelineInit => Init BY DEF PipelineInit
<1>2. PInv /\ [PipelineNext]_allVars => [Next]_vars BY StepMaps DEF PInv
<1>. QED BY PipelineInductive, <1>1, <1>2, PTL DEF PipelineSpec, Spec

\* What is proved of the service holds in the composition: incidents are logged
\* once, acknowledged alerts are in the log, no answer leaves one out.
THEOREM LogCarriesOver == PipelineSpec => []LoggedOnce /\ []AckedIsLogged /\ NothingLeftBehind
BY ImplementsIngest, IncidentsLoggedOnce, AcknowledgedIsLogged, AnswerLeavesNothing, PTL

\* A process that ends well has sent its mail, one that drops its alert has told
\* the server nothing, and one that fails has met a broken exchange with the relay
\* or the model, an odd alert, or lacks its settings.
THEOREM EndsAreTrue == PipelineSpec => []EndTells
<1>1. PInv => EndTells BY DEF PInv
<1>. QED BY PipelineInductive, <1>1, PTL

\* The mail, the log and the audit row tell the same story of an alert, however
\* late the server takes it.
THEOREM OneStory == PipelineSpec => []SameStory
<1>1. PInv => SameStory
  <2>. SUFFICES ASSUME PInv PROVE SameStory OBVIOUS
  <2>1. \A c \in carried, m \in mails : c[2] = m[1] => c[3] = m[2] BY DEF PInv, Told
  <2>2. \A r \in rows, c \in carried : c[2] = r[1] => c[3].narrative = r[2]
    BY DEF PInv, Told, Audited
  <2>3. \A r \in rows, m \in mails : m[1] = r[1] => m[2].narrative = r[2]
    BY DEF PInv, Told, Audited
  <2>. QED BY <2>1, <2>2, <2>3 DEF SameStory
<1>. QED BY PipelineInductive, <1>1, PTL

-----------------------------------------------------------------------------
\* No number of a received alert is used for two lines.
LEMMA UidsOnceKept ==
  ASSUME TypeOK, UidsOnce, [Next]_vars
  PROVE  UidsOnce'
<1>. USE DEF TypeOK
<1>0. /\ log \in Seq(Entry) /\ batch \in Seq(Raw) /\ received \in Nat
      /\ \A i \in DOMAIN log : log[i].uid \in Nat
      /\ \A k \in DOMAIN batch : batch[k].uid \in Nat
  <2>1. \A i \in DOMAIN log : log[i] \in Entry OBVIOUS
  <2>2. \A k \in DOMAIN batch : batch[k] \in Raw OBVIOUS
  <2>. QED BY <2>1, <2>2 DEF Entry, Raw, Uid
<1>1. ASSUME NEW k \in 1..MaxBatch, NEW levels \in [1..k -> Levels \cup {Malformed}],
             Post(levels)
      PROVE  UidsOnce'
  <2>1. /\ DOMAIN batch' = 1..k /\ \A i \in 1..k : batch'[i].uid = received + i
        /\ received' = received + k
    <3>1. DOMAIN levels = 1..k /\ Len(levels) = k OBVIOUS
    <3>. QED BY <1>1, <3>1 DEF Post
  <2>2. UNCHANGED log BY <1>1 DEF Post
  <2>3. Logged("alert")' = Logged("alert") BY <2>2 DEF Logged
  <2>4. \A i \in Logged("alert") : log[i].uid \in Nat /\ log[i].uid <= received
    BY <1>0 DEF Logged, UidsOnce
  <2>5. \A i, j \in Logged("alert") : log[i].uid = log[j].uid => i = j BY DEF UidsOnce
  <2>6. \A i \in Logged("alert") : log'[i].uid \in Nat /\ log'[i].uid <= received
                                   /\ received <= received'
    BY <1>0, <2>1, <2>2, <2>4
  <2>7. \A i \in 1..k : batch'[i].uid \in Nat /\ received < batch'[i].uid /\ batch'[i].uid <= received'
    BY <1>0, <2>1
  <2>8. \A i, j \in 1..k : batch'[i].uid = batch'[j].uid => i = j BY <1>0, <2>1
  <2>9. \A i \in Logged("alert"), j \in 1..k : log'[i].uid # batch'[j].uid
    BY <1>0, <2>6, <2>7
  <2>10. \A i \in Logged("alert") : log'[i].uid <= received' BY <1>0, <2>1, <2>6
  <2>. QED BY <2>1, <2>2, <2>3, <2>5, <2>7, <2>8, <2>9, <2>10 DEF UidsOnce
<1>2. ASSUME batch # <<>>
      PROVE  /\ 1 \in DOMAIN batch /\ Head(batch) = batch[1]
             /\ \A k \in DOMAIN Tail(batch) : k + 1 \in DOMAIN batch /\ Tail(batch)[k] = batch[k + 1]
             /\ DOMAIN Tail(batch) \subseteq Nat \ {0}
  BY <1>0, <1>2
<1>3. CASE IngestOne
  <2>. DEFINE e == Line("alert", <<today, n + 1>>, Head(batch).uid)
              N == Len(log) + 1
  <2>1. /\ e \in Entry /\ log' = Append(log, e) /\ e.type = "alert" /\ e.uid = Head(batch).uid
    BY <1>3, AlertWritten DEF Line
  <2>2. batch # <<>> /\ batch' = Tail(batch) /\ UNCHANGED received BY <1>3 DEF IngestOne
  <2>. HIDE DEF e
  <2>3. /\ Logged("alert")' = Logged("alert") \cup {N}
    BY <1>0, <2>1, LoggedGrows
  <2>4. /\ \A i \in Logged("alert") : log'[i] = log[i]
        /\ log'[N].uid = batch[1].uid
    BY <1>0, <1>2, <2>1, <2>2, LogGrows DEF Logged
  <2>. HIDE DEF N
  <2>5. \A i \in Logged("alert") : log[i].uid # batch[1].uid BY <1>2, <2>2 DEF UidsOnce
  <2>6. batch[1].uid <= received BY <1>2, <2>2 DEF UidsOnce
  <2>7. \A k \in DOMAIN batch' : k + 1 \in DOMAIN batch /\ k + 1 # 1 /\ batch'[k] = batch[k + 1]
    BY <1>2, <2>2
  <2>8. \A i \in Logged("alert")' : log'[i].uid <= received'
    BY <2>2, <2>3, <2>4, <2>6 DEF UidsOnce
  <2>9. \A k \in DOMAIN batch' : batch'[k].uid <= received'
    BY <2>2, <2>7 DEF UidsOnce
  <2>10. \A i, j \in Logged("alert")' : log'[i].uid = log'[j].uid => i = j
    BY <2>3, <2>4, <2>5 DEF UidsOnce
  <2>11. \A i \in Logged("alert")', k \in DOMAIN batch' : log'[i].uid # batch'[k].uid
    <3>. SUFFICES ASSUME NEW i \in Logged("alert")', NEW k \in DOMAIN batch'
                  PROVE  log'[i].uid # batch'[k].uid
      OBVIOUS
    <3>1. CASE i = N BY <1>2, <2>2, <2>4, <2>7, <3>1 DEF UidsOnce
    <3>2. CASE i # N BY <2>3, <2>4, <2>7, <3>2 DEF UidsOnce
    <3>. QED BY <3>1, <3>2
  <2>12. \A k, l \in DOMAIN batch' : batch'[k].uid = batch'[l].uid => k = l
    <3>. SUFFICES ASSUME NEW k \in DOMAIN batch', NEW l \in DOMAIN batch',
                         batch'[k].uid = batch'[l].uid
                  PROVE  k = l
      OBVIOUS
    <3>1. k + 1 = l + 1 BY <2>7 DEF UidsOnce
    <3>2. k \in Nat /\ l \in Nat BY <1>2, <2>2
    <3>. QED BY <3>1, <3>2
  <2>. QED BY <2>8, <2>9, <2>10, <2>11, <2>12 DEF UidsOnce
<1>4. CASE IngestMalformed
  <2>1. batch # <<>> /\ batch' = Tail(batch) /\ UNCHANGED <<received, log>>
    BY <1>4 DEF IngestMalformed
  <2>2. \A k \in DOMAIN batch' : k + 1 \in DOMAIN batch /\ batch'[k] = batch[k + 1] /\ k \in Nat
    BY <1>2, <2>1
  <2>3. Logged("alert")' = Logged("alert") BY <2>1 DEF Logged
  <2>4. \A k, l \in DOMAIN batch' : batch'[k].uid = batch'[l].uid => k = l
    <3>. SUFFICES ASSUME NEW k \in DOMAIN batch', NEW l \in DOMAIN batch',
                         batch'[k].uid = batch'[l].uid
                  PROVE  k = l
      OBVIOUS
    <3>1. k + 1 = l + 1 BY <2>2 DEF UidsOnce
    <3>. QED BY <2>2, <3>1
  <2>. QED BY <2>1, <2>2, <2>3, <2>4 DEF UidsOnce
<1>5. ASSUME NEW id \in DOMAIN incidents, PersistOne(id) PROVE UidsOnce'
  <2>1. PICK e \in Entry : e.type = "incident" /\ log' = Append(log, e)
    BY <1>5, IncidentWritten DEF Line
  <2>2. Logged("alert")' = Logged("alert") BY <1>0, <2>1, LoggedGrows
  <2>3. \A i \in Logged("alert") : log'[i] = log[i] BY <1>0, <2>1, LogGrows DEF Logged
  <2>4. UNCHANGED <<batch, received>> BY <1>5 DEF PersistOne
  <2>. QED BY <2>2, <2>3, <2>4 DEF UidsOnce
<1>6. CASE UNCHANGED <<log, received>> /\ batch' \in {batch, <<>>}
  BY <1>6 DEF UidsOnce, Logged
<1>. QED BY <1>1, <1>3, <1>4, <1>5, <1>6 DEF Next, vars, IngestFails, Abort, EndIngest,
            PersistFails, Answer, Midnight, Restart

\* An alert of the script has one line in the log at most.
THEOREM NumbersSpentOnce == PipelineSpec => []LoggedAtMostOnce
<1>1. PInv /\ IInv /\ UidsOnce /\ [PipelineNext]_allVars => UidsOnce'
  BY StepMaps, UidsOnceKept DEF PInv, IInv
<1>2. PipelineInit => UidsOnce
  BY DEF PipelineInit, Init, UidsOnce, Logged
<1>3. PInv /\ UidsOnce => LoggedAtMostOnce
  <2>. SUFFICES ASSUME PInv, UidsOnce, NEW i \in Logged("alert"), NEW j \in Logged("alert"),
                       NEW c \in carried, NEW d \in carried,
                       log[i].uid = c[1], log[j].uid = d[1], c[2] = d[2]
                PROVE  i = j
    BY DEF LoggedAtMostOnce
  <2>1. c = d BY DEF PInv, TakenOnce
  <2>. QED BY <2>1 DEF UidsOnce
<1>. QED BY PipelineInductive, <1>1, <1>2, <1>3, PTL DEF PipelineSpec
=============================================================================
