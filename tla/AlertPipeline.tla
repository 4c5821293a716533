----------------------------- MODULE AlertPipeline -----------------------------
(***************************************************************************)
(* wazuh/integrations/agentic-soc-send.py with lib/llm_runtime.py, composed *)
(* with the realtime server it posts to (RealtimeIngest).  Wazuh starts one *)
(* process of the script per alert; it asks the model for a narrative and   *)
(* for a decision, posts the alert to the server, which it gives 200 ms,    *)
(* and sends the mail.  Nothing keeps two processes from overlapping, and   *)
(* the server also takes batches from other clients.                        *)
(***************************************************************************)
EXTENDS RealtimeIngest

CONSTANTS Process   \* processes of the script, one alert each

VARIABLES
  setup,      \* what each process finds: env file, openclaw, SMTP settings
  stage,      \* where each process is
  level,      \* the level of its alert; Malformed: the JSON is no object
  odd,        \* it is no object, or its rule or agent is none
  story,      \* what the model has added to the alert
  rows,       \* <<process, narrative>> of the audit rows of the calls
  request,    \* its POST is at the server, and has not got the lock
  carried,    \* history: <<uid, process, story>> of the alerts the server took
  mails,      \* history: <<process, story>> of the mails delivered
  broken      \* history: processes whose SMTP exchange or model answer was broken

\* The narrative, the error of the call that stands in for it, or "missing" where
\* no llm_runtime was found; the decision or its error.  "none": switched off, or
\* not asked yet.
Bare == [narrative |-> "none", decision |-> "none"]
Stories == [narrative : {"none", "answer", "error", "missing"}, decision : {"none", "given"}]

Setups == [env : BOOLEAN, openclaw : BOOLEAN, smtp : BOOLEAN]
Complete == [env |-> TRUE, openclaw |-> TRUE, smtp |-> TRUE]

scriptVars == <<setup, stage, level, odd, story, rows, request, carried, mails, broken>>
allVars == <<vars, scriptVars>>

PipelineInit ==
  /\ Init
  /\ setup = [p \in Process |-> Complete] /\ odd = [p \in Process |-> FALSE]
  /\ stage = [p \in Process |-> "none"] /\ level = [p \in Process |-> 0]
  /\ story = [p \in Process |-> Bare]
  /\ rows = {} /\ request = {} /\ carried = {} /\ mails = {} /\ broken = {}

\* What is settled at the start of a process stays.
given == <<setup, level, odd>>

Goto(p, s) == stage' = [stage EXCEPT ![p] = s]
Tell(p, field, what) == story' = [story EXCEPT ![p][field] = what]

-----------------------------------------------------------------------------
(* main before the ingest.  What raises there ends the script with 1.      *)

\* Where is_noisy can send an alert: it drops operational noise before anything
\* is done about it, and raises on a rule that is no object; one that is no
\* object itself gets past it only where the denylist is switched off.
Verdicts(l, o) ==
  {"enriching"} \cup (IF l = Malformed THEN {} ELSE {"dropped"})
                \cup (IF o THEN {"failed"} ELSE {})

\* load_env_file ends the script where there is no env file.
Launch(p, s, l, o) ==
  /\ stage[p] = "none" /\ (l = Malformed => o)
  /\ setup' = [setup EXCEPT ![p] = s]
  /\ level' = [level EXCEPT ![p] = l] /\ odd' = [odd EXCEPT ![p] = o]
  /\ IF s.env THEN \E v \in Verdicts(l, o) : Goto(p, v) ELSE Goto(p, "failed")
  /\ UNCHANGED <<vars, story, rows, request, carried, mails, broken>>

\* maybe_enrich adds nothing: switched off; or only an error: no llm_runtime.
EnrichSkipped(p) ==
  /\ stage[p] = "enriching"
  /\ \/ UNCHANGED story
     \/ level[p] # Malformed /\ Tell(p, "narrative", "missing")
  /\ Goto(p, "deciding")
  /\ UNCHANGED <<vars, given, rows, request, carried, mails, broken>>

\* call_openclaw: the model answers, or the call times out, exits with an error
\* or says nothing; without the program it does not return.
CallOpenclaw(p) == IF setup[p].openclaw THEN {"answer", "error"} ELSE {}

\* call_ollama needs no program: an answer, or what went wrong.
CallOllama == {"answer", "error"}

\* call_llm takes the runtime of its environment.  A row about what came of it
\* follows, but for auditing that is disabled or not installed, and a row that
\* cannot be written.
Enrich(p) ==
  /\ stage[p] = "enriching" /\ ~odd[p]
  /\ \E said \in CallOpenclaw(p) \cup CallOllama :
       Tell(p, "narrative", said) /\ rows' \in {rows, rows \cup {<<p, said>>}}
  /\ Goto(p, "deciding")
  /\ UNCHANGED <<vars, given, request, carried, mails, broken>>

\* Nothing catches these before the end of the script: the summary made for the
\* audit row, and the note that llm_runtime is missing, of an odd alert; and
\* _resolve_openclaw_path, which is called before the try of call_openclaw.
EnrichRaises(p) ==
  /\ stage[p] = "enriching" /\ (odd[p] \/ ~setup[p].openclaw)
  /\ Goto(p, "failed")
  /\ UNCHANGED <<vars, given, story, rows, request, carried, mails, broken>>

\* The model answers JSON that is no object, which both runtimes take apart
\* outside their handlers: there is no row of the call, and no mail.
AnswerRaises(p) ==
  /\ stage[p] = "enriching" /\ ~odd[p]
  /\ broken' = broken \cup {p}
  /\ Goto(p, "failed")
  /\ UNCHANGED <<vars, given, story, rows, request, carried, mails>>

\* maybe_decide: whatever happens is a decision, or an error in its place; on
\* what is no object both raise.
Decide(p) ==
  /\ stage[p] = "deciding"
  /\ \/ UNCHANGED story /\ Goto(p, "ingesting")
     \/ level[p] # Malformed /\ Tell(p, "decision", "given") /\ Goto(p, "ingesting")
     \/ level[p] = Malformed /\ UNCHANGED story /\ Goto(p, "failed")
  /\ UNCHANGED <<vars, given, rows, request, carried, mails, broken>>

-----------------------------------------------------------------------------
(* realtime_ingest, and the server.                                        *)

\* The POST reaches the server.
Submit(p) ==
  /\ stage[p] = "ingesting"
  /\ request' = request \cup {p}
  /\ Goto(p, "waiting")
  /\ UNCHANGED <<vars, given, story, rows, carried, mails, broken>>

\* REALTIME_SOC_DISABLED, or no server: no error leaves realtime_ingest.
NoServer(p) ==
  /\ stage[p] = "ingesting"
  /\ Goto(p, "mailing")
  /\ UNCHANGED <<vars, given, story, rows, request, carried, mails, broken>>

\* The thread that has p's request gets the lock, p still waiting or not.
TakeRequest(p) ==
  /\ p \in request /\ Post(<<level[p]>>)
  /\ request' = request \ {p}
  /\ carried' = carried \cup {<<received + 1, p, story[p]>>}
  /\ UNCHANGED <<stage, given, story, rows, mails, broken>>

\* Seeded fault: a request that is not answered in time is posted again.
StopWaitingReposts(p) ==
  /\ stage[p] = "waiting"
  /\ Goto(p, "mailing")
  /\ request' \in {request, request \cup {p}}
  /\ UNCHANGED <<vars, given, story, rows, carried, mails, broken>>

\* Seeded fault: the decision is made after the ingest.
StopWaitingDecides(p) ==
  /\ stage[p] = "waiting"
  /\ Goto(p, "mailing")
  /\ UNCHANGED story \/ Tell(p, "decision", "given")
  /\ UNCHANGED <<vars, given, rows, request, carried, mails, broken>>

\* Seeded fault: only an answer, or a refused connection, ends the wait.
StopWaitingUntimed(p) ==
  /\ stage[p] = "waiting" /\ p \notin request
  /\ Goto(p, "mailing")
  /\ UNCHANGED <<vars, given, story, rows, request, carried, mails, broken>>

\* The answer, the end of the 200 ms or a broken connection: main goes on alike
\* whatever became of the request.
StopWaiting(p) ==
  /\ stage[p] = "waiting"
  /\ Goto(p, "mailing")
  /\ UNCHANGED <<vars, given, story, rows, request, carried, mails, broken>>

-----------------------------------------------------------------------------
(* main after the ingest.                                                  *)

\* build_email takes the alert's rule and agent apart, and SMTP_HOST, SMTP_PORT
\* and the mailbox have to be in the environment: else there is no mail.
Mailable(p) == setup[p].smtp /\ ~odd[p]

Unmailable(p) ==
  /\ stage[p] = "mailing" /\ ~Mailable(p)
  /\ Goto(p, "failed")
  /\ UNCHANGED <<vars, given, story, rows, request, carried, mails, broken>>

Mail(p) ==
  /\ stage[p] = "mailing" /\ Mailable(p)
  /\ mails' = mails \cup {<<p, story[p]>>}
  /\ Goto(p, "sent")
  /\ UNCHANGED <<vars, given, story, rows, request, carried, broken>>

\* Seeded fault: an SMTP error is logged and the script ends well.
MailFailsQuietly(p) ==
  /\ stage[p] = "mailing" /\ Mailable(p)
  /\ broken' = broken \cup {p}
  /\ Goto(p, "sent")
  /\ UNCHANGED <<vars, given, story, rows, request, carried, mails>>

\* connect, starttls, login or send_message raises, or the QUIT that follows
\* the message: exit status 1.
MailFails(p) ==
  /\ stage[p] = "mailing" /\ Mailable(p)
  /\ mails' \in {mails, mails \cup {<<p, story[p]>>}}
  /\ broken' = broken \cup {p}
  /\ Goto(p, "failed")
  /\ UNCHANGED <<vars, given, story, rows, request, carried>>

-----------------------------------------------------------------------------
ScriptStep(p) ==
  \/ EnrichSkipped(p) \/ Enrich(p) \/ EnrichRaises(p) \/ AnswerRaises(p) \/ Decide(p)
  \/ Submit(p) \/ NoServer(p) \/ StopWaiting(p)
  \/ Unmailable(p) \/ Mail(p) \/ MailFails(p)

ServerStep ==
  \/ IngestOne \/ IngestMalformed \/ IngestFails \/ EndIngest
  \/ \E id \in DOMAIN incidents : PersistOne(id)
  \/ PersistFails \/ Answer \/ Midnight

\* A batch of another client.
OtherPost ==
  \E k \in 1..MaxBatch : \E levels \in [1..k -> Levels \cup {Malformed}] : Post(levels)

\* The requests that wait for the lock die with the server.
RestartServer ==
  /\ Restart
  /\ request' = {}
  /\ UNCHANGED <<stage, given, story, rows, carried, mails, broken>>

PipelineNext ==
  \/ \E p \in Process :
       \/ ScriptStep(p) \/ TakeRequest(p)
       \/ \E s \in Setups, l \in Levels \cup {Malformed}, o \in BOOLEAN : Launch(p, s, l, o)
  \/ (ServerStep \/ OtherPost) /\ UNCHANGED scriptVars
  \/ RestartServer

\* Every wait of the script has a timeout.
PipelineSpec ==
  /\ PipelineInit /\ [][PipelineNext]_allVars
  /\ \A p \in Process : WF_allVars(ScriptStep(p))

-----------------------------------------------------------------------------
(* Properties.                                                             *)

Stages == {"none", "dropped", "enriching", "deciding", "ingesting", "waiting", "mailing",
           "sent", "failed"}

\* The script's variables have their types.
PipelineTypeOK ==
  /\ TypeOK
  /\ setup \in [Process -> Setups] /\ odd \in [Process -> BOOLEAN]
  /\ stage \in [Process -> Stages] /\ level \in [Process -> Levels \cup {Malformed, 0}]
  /\ story \in [Process -> Stories] /\ rows \subseteq Process \X {"answer", "error"}
  /\ request \subseteq Process /\ broken \subseteq Process
  /\ carried \subseteq Uid \X Process \X Stories /\ mails \subseteq Process \X Stories

\* "an unavailable server does NOT block email delivery", and neither does a
\* slow, restarted or failing one, nor a model that fails in any way that
\* call_llm reports: a process that ends well has sent its mail, one that drops
\* its alert has told nobody, and one that fails has met a broken SMTP exchange,
\* an answer of the model or an alert that is no object, or lacks its settings.
EndTells == \A p \in Process :
  /\ stage[p] = "sent" => \E m \in mails : m[1] = p
  /\ stage[p] = "dropped" => \A c \in carried : c[2] # p
  /\ stage[p] = "failed" => p \in broken \/ odd[p] \/ setup[p] # Complete

\* The mail, the server's record of an alert ("the JSONL record carries the
\* agentic_narrative fields") and the audit row of its model call tell the same
\* story about it.
SameStory ==
  /\ \A c \in carried, m \in mails : c[2] = m[1] => c[3] = m[2]
  /\ \A r \in rows : /\ \A c \in carried : c[2] = r[1] => c[3].narrative = r[2]
                     /\ \A m \in mails : m[1] = r[1] => m[2].narrative = r[2]

\* Each alert of the script has one line in the log at most, whether its answer
\* came, was too late, or died with the server: numbers are never spent twice.
LoggedAtMostOnce == \A i, j \in Logged("alert") :
  \A c, d \in carried :
    log[i].uid = c[1] /\ log[j].uid = d[1] /\ c[2] = d[2] => i = j

\* Every alert comes to an end, whatever the server does with the lock.
AlertHandled == \A p \in Process :
  stage[p] = "enriching" ~> stage[p] \in {"sent", "failed"}
=============================================================================
