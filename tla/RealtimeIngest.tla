--------------------------- MODULE RealtimeIngest ---------------------------
(***************************************************************************)
(* services/realtime-ingest/realtime_ingest.py with its LiteTriageAgent.   *)
(* One POST /ingest runs under _LOCK from its first alert to its answer,   *)
(* so at most one batch is in progress; but any append to the log may      *)
(* raise, and the process may die and be restarted between any two steps.  *)
(* Log lines are written with one write each and are atomic here.          *)
(***************************************************************************)
EXTENDS Integers, Sequences, FiniteSets

CONSTANTS
  Levels,           \* Wazuh rule levels that arrive
  Malformed,        \* the "level" of an element that is not an alert object
  MaxBatch,         \* bound: alerts in one POST
  MaxAlerts,        \* bound: alerts received in all
  MaxDay,           \* bound: days
  SameDayRestart    \* may the process be restarted on a day it has logged on?

ASSUME LevelsAssumption == Levels \subseteq Nat /\ Malformed \notin Levels
ASSUME BoundsAssumption ==
  /\ MaxBatch \in Nat \ {0} /\ MaxAlerts \in Nat /\ MaxDay \in Nat \ {0}
  /\ SameDayRestart \in BOOLEAN

Day == 1..MaxDay
Id == Day \X Nat                  \* ALERT-yyyymmdd-nnnnnn, INC-yyyymmdd-nnnnnn
Uid == 1..MaxAlerts               \* identity of a received alert (history)
Raw == [uid: Uid, level: Levels \cup {Malformed}]
Entry == [type: {"alert", "incident"}, id: Id, uid: Uid]

VARIABLES
  today,      \* UTC date
  n,          \* AGENT._n: alerts this process has numbered
  incidents,  \* AGENT.incidents: incident id -> uid of the alert behind it
  log,        \* the JSONL file
  persisted,  \* _PERSISTED_INCIDENT_IDS
  stats,      \* _STATS
  phase,      \* of the batch holding _LOCK: none, ingesting, persisting
  batch,      \* its alerts still to be ingested
  results,    \* the alert ids it has collected for its answer
  answered,   \* history: <<alert id, uid>> pairs that answers acknowledged
  received    \* history: alerts received so far

vars == <<today, n, incidents, log, persisted, stats, phase, batch, results,
          answered, received>>

-----------------------------------------------------------------------------
\* The severity table of ingest_wazuh_alert.
Severity(level) ==
  IF level >= 14 THEN "critical"
  ELSE IF level >= 12 THEN "high"
  ELSE IF level >= 8 THEN "medium"
  ELSE IF level >= 3 THEN "low"
  ELSE "informational"

Escalates(level) == Severity(level) \in {"critical", "high"}

Logged(type) == {i \in DOMAIN log : log[i].type = type}
LoggedIds(type) == {log[i].id : i \in Logged(type)}

Unlogged == DOMAIN incidents \ persisted

\* One line of the log, as _append_log writes it.
Line(t, id, uid) == [type |-> t, id |-> id, uid |-> uid]

NoIncidents == [i \in {} |-> 0]
ZeroStats == [alerts |-> 0, incidents |-> 0]

-----------------------------------------------------------------------------
Init ==
  /\ today = 1 /\ n = 0
  /\ incidents = NoIncidents /\ log = <<>> /\ persisted = {}
  /\ stats = ZeroStats
  /\ phase = "none" /\ batch = <<>> /\ results = {}
  /\ answered = {} /\ received = 0

\* do_POST takes the lock with a non-empty list of alerts.
Post(levels) ==
  /\ phase = "none"
  /\ levels # <<>> /\ received + Len(levels) <= MaxAlerts
  /\ phase' = "ingesting"
  /\ batch' = [i \in DOMAIN levels |-> [uid |-> received + i, level |-> levels[i]]]
  /\ received' = received + Len(levels)
  /\ results' = {}
  /\ UNCHANGED <<today, n, incidents, log, persisted, stats, answered>>

\* What ingest_wazuh_alert does to the agent's memory.
Triage(a, id) ==
  /\ n' = n + 1
  /\ incidents' = IF Escalates(a.level)
                    THEN [i \in DOMAIN incidents \cup {id} |->
                            IF i = id THEN a.uid ELSE incidents[i]]
                    ELSE incidents

\* One alert of the batch is triaged and its line appended.
IngestOne ==
  LET a == Head(batch)
      id == <<today, n + 1>>
  IN  /\ phase = "ingesting" /\ batch # <<>> /\ a.level # Malformed
      /\ Triage(a, id)
      /\ log' = Append(log, Line("alert", id, a.uid))
      /\ stats' = [stats EXCEPT !.alerts = @ + 1]
      /\ results' = results \cup {<<id, a.uid>>}
      /\ batch' = Tail(batch)
      /\ UNCHANGED <<today, persisted, phase, answered, received>>

\* ingest_wazuh_alert raises on something that is not an object, after it has
\* taken a number: the element is reported as failed and the loop goes on.
IngestMalformed ==
  /\ phase = "ingesting" /\ batch # <<>> /\ Head(batch).level = Malformed
  /\ n' = n + 1
  /\ batch' = Tail(batch)
  /\ UNCHANGED <<today, incidents, log, persisted, stats, phase, results,
                 answered, received>>

\* An exception leaves do_POST: the lock is released, nobody is answered and
\* the rest of the batch is gone; what is in memory stays.
Abort ==
  /\ phase' = "none" /\ batch' = <<>> /\ results' = {}
  /\ UNCHANGED <<today, persisted, stats, answered, received>>

\* Seeded fault: a failed append is swallowed and the alert acknowledged.
IngestFailsSwallowed ==
  /\ phase = "ingesting" /\ batch # <<>> /\ Head(batch).level # Malformed
  /\ Triage(Head(batch), <<today, n + 1>>)
  /\ results' = results \cup {<< <<today, n + 1>>, Head(batch).uid >>}
  /\ batch' = Tail(batch)
  /\ UNCHANGED <<today, log, persisted, stats, phase, answered, received>>

\* Appending the alert's line raises; the agent already holds the alert.
IngestFails ==
  /\ phase = "ingesting" /\ batch # <<>> /\ Head(batch).level # Malformed
  /\ Triage(Head(batch), <<today, n + 1>>)
  /\ Abort
  /\ UNCHANGED log

\* The batch is ingested; the incidents are looked through next.
EndIngest ==
  /\ phase = "ingesting" /\ batch = <<>>
  /\ phase' = "persisting"
  /\ UNCHANGED <<today, n, incidents, log, persisted, stats, batch, results,
                 answered, received>>

\* Seeded fault: the incident is logged but not remembered as logged.
PersistForgetful(id) ==
  /\ phase = "persisting"
  /\ id \in Unlogged
  /\ log' = Append(log, Line("incident", id, incidents[id]))
  /\ stats' = [stats EXCEPT !.incidents = @ + 1]
  /\ persisted' \in {persisted, persisted \cup {id}}
  /\ UNCHANGED <<today, n, incidents, phase, batch, results, answered, received>>

\* The oldest incident not in _PERSISTED_INCIDENT_IDS is logged, whichever
\* batch it came from.
PersistOne(id) ==
  /\ phase = "persisting"
  /\ id \in Unlogged /\ \A i \in Unlogged : id[2] <= i[2]
  /\ log' = Append(log, Line("incident", id, incidents[id]))
  /\ persisted' = persisted \cup {id}
  /\ stats' = [stats EXCEPT !.incidents = @ + 1]
  /\ UNCHANGED <<today, n, incidents, phase, batch, results, answered, received>>

\* Seeded fault: the incident is marked before its append, which then raises.
PersistFailsMarked ==
  /\ phase = "persisting" /\ Unlogged # {}
  /\ persisted' = persisted \cup Unlogged
  /\ phase' = "none" /\ results' = {}
  /\ UNCHANGED <<today, n, incidents, log, stats, batch, answered, received>>

\* Appending an incident's line raises; those logged so far stay marked.
PersistFails ==
  /\ phase = "persisting" /\ Unlogged # {}
  /\ Abort
  /\ UNCHANGED <<n, incidents, log>>

\* Seeded fault: the answer goes out before the incidents are logged.
AnswerEarly ==
  /\ phase = "persisting"
  /\ phase' = "none" /\ answered' = answered \cup results /\ results' = {}
  /\ UNCHANGED <<today, n, incidents, log, persisted, stats, batch, received>>

\* 200 with the alert ids of the batch; the lock is released.
Answer ==
  /\ phase = "persisting" /\ Unlogged = {}
  /\ phase' = "none"
  /\ answered' = answered \cup results
  /\ results' = {}
  /\ UNCHANGED <<today, n, incidents, log, persisted, stats, batch, received>>

Midnight ==
  /\ today < MaxDay
  /\ today' = today + 1
  /\ UNCHANGED <<n, incidents, log, persisted, stats, phase, batch, results,
                 answered, received>>

\* rehydrate_counts: what a new process learns from the log.
Rehydrate ==
  /\ persisted' = LoggedIds("incident")
  /\ stats' = [alerts |-> Cardinality(Logged("alert")),
               incidents |-> Cardinality(Logged("incident"))]

\* The process dies, with a batch in progress or not, and is started again.
Restart ==
  /\ SameDayRestart \/ \A i \in DOMAIN log : log[i].id[1] < today
  /\ n' = 0 /\ incidents' = NoIncidents
  /\ Rehydrate
  /\ phase' = "none" /\ batch' = <<>> /\ results' = {}
  /\ UNCHANGED <<today, log, answered, received>>

Next ==
  \/ \E k \in 1..MaxBatch : \E levels \in [1..k -> Levels \cup {Malformed}] :
       Post(levels)
  \/ IngestOne \/ IngestMalformed \/ IngestFails \/ EndIngest
  \/ \E id \in DOMAIN incidents : PersistOne(id)
  \/ PersistFails \/ Answer
  \/ Midnight \/ Restart

Spec == Init /\ [][Next]_vars

-----------------------------------------------------------------------------
TypeOK ==
  /\ today \in Day /\ n \in Nat
  /\ DOMAIN incidents \subseteq Id
  /\ \A i \in DOMAIN incidents : incidents[i] \in Uid
  /\ log \in Seq(Entry)
  /\ persisted \subseteq Id
  /\ stats \in [alerts: Nat, incidents: Nat]
  /\ phase \in {"none", "ingesting", "persisting"}
  /\ batch \in Seq(Raw)
  /\ results \subseteq Id \X Uid
  /\ answered \subseteq Id \X Uid
  /\ received \in 0..MaxAlerts

\* No incident has two lines in the log, wherever the process died and however
\* often an append failed and was made good by a later batch.
LoggedOnce ==
  \A i, j \in Logged("incident") : log[i].id = log[j].id => i = j

\* An alert id that an answer acknowledged names that very alert in the log,
\* and /healthz counts what the log holds.
AckedIsLogged ==
  /\ \A p \in answered : \E i \in Logged("alert") :
       log[i].id = p[1] /\ log[i].uid = p[2]
  /\ stats.alerts = Cardinality(Logged("alert"))
  /\ stats.incidents = Cardinality(Logged("incident"))

\* An incident held in memory and marked as persisted has its line in the log,
\* and the line is about the very alert that opened the incident.  ("escalates
\* high/critical alerts into incidents, and appends everything to a JSONL log":
\* the log is the durable record.)
IncidentDurable ==
  \A id \in DOMAIN incidents \cap persisted :
    \E i \in Logged("incident") : log[i].id = id /\ log[i].uid = incidents[id]

\* An incident whose append failed is not forgotten: when a batch is answered
\* the log holds every incident in memory, those of failed batches included.
NothingLeftBehind ==
  [][answered' # answered =>
       \A id \in DOMAIN incidents : id \in LoggedIds("incident")]_vars
=============================================================================
