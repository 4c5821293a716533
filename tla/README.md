# Verification of soc-openclaw

TLA+ models of the parts of this repository that keep state, share it between
threads, processes or machines, and promise something about it across failures:
the path of an alert from the Wazuh manager to log and mail, the ticket store
and its clients, the IMAP watcher, the memory index, the audit log and the tools
that read it, STIG remediation with its routing gate and the evidence it leaves,
the scanner, the nightly compliance job, and the dashboard's triggers with the
C2 server behind them. TLC checks each model on a small instance (the `.cfg`
files); TLAPS proves most of the safety properties for every value of the
constants (the `*Proofs` modules). `PROJECT.json` maps every definition that
models code to the lines it translates, and lists components, runs, seeded
faults, hazards, findings and theorems.

## 1. The system

All components are Python processes on one SOC host, started by systemd, cron
or the Wazuh manager (docs/architecture.md), that meet in files under
`~/.openclaw` and in HTTP calls on localhost.

| component | state it keeps | operations | meets |
|---|---|---|---|
| ticket server `services/soc-tickets-mcp/server.py` | one JSONL file | create, get, list, update, close; threads of a ThreadingHTTPServer | the pipeline through `lib/soc_tickets_helper.py` |
| ticket helper `lib/soc_tickets_helper.py` | none | create, update, close with two attempts of 200 ms | ticket server |
| integration script `wazuh/integrations/agentic-soc-send.py`, `lib/llm_runtime.py` | none; one process per alert | filter, enrich, decide, post, mail | model, audit log, ingest server, SMTP |
| realtime ingest `services/realtime-ingest/realtime_ingest.py` | counter, incident table, ids that count as logged, JSONL log | POST /ingest, restart | integration script; the log is shipped on |
| IMAP watcher `services/imap-watcher/imap_idle_watcher.py`, `lib/lite_soc_agent.py` | SQLite rows, recent reply tags, connection | poll, triage, draft, send, file, stop, restart | mailbox, SMTP, model, ingest log (bootstrap) |
| memory server `services/soc-memory-mcp/server.py` | capped index per tenant, JSONL file | memory_add, memory_search, load | agents |
| audit `lib/soc_audit.py`, `services/soc-audit-mcp/server.py` | the audit log | record; annotate_run; five read tools | every stage; dashboard pages |
| remediation `services/soc_stig_remediate.py`, routing `services/soc_routing.py` | snapshots, remediation log, rows of the audit log, the hosts, the cached config | remediate, check, rollback, list, get | dashboard, night run, ssh, an operator who edits the routing file |
| evidence `services/soc_evidence.py` | evidence files | collect and grade | audit log, snapshots, scanner |
| scanner `services/scanner/soc_scanner.py` | results files, manifest, evidence files | scan a host or the fleet, collect a day | hosts over ssh, C2's list of agents, ignore list |
| night run `services/soc_compliance_daily.py`, `services/soc_score.py` | evidence, posture | scan, collect, fleet pass, auto-remediation, score | scanner, remediation, evidence |
| C2 `services/soc-manager-mcp/server.py` | the cached token | tools as requests to the manager, with refresh and retry | Wazuh manager, dashboard |
| dashboard `services/soc-dashboard/server.py`, task log `services/soc_tasklog.py` | task rows | triggers, pages | C2, remediation, evidence, audit server |

The hard behaviours, and what makes each component correct:

* **Alert pipeline.** The script gives the server 200 ms and goes on to the mail
  whatever happened; the request may be served later, or die with the server;
  other clients post meanwhile. Alerts may be malformed, settings or programs
  missing. Correct: an alert is logged once at most; log, mail and audit row
  tell the same story; a script that ends well has sent its mail, and one that
  fails has a reason; the script ends.
* **Ingest.** An append can raise in mid batch, the process can die anywhere,
  and only the log survives. Correct: what was acknowledged is in the log, each
  incident has one line about its own alert, failed batches are made good.
* **Ticket store and client.** Requests overlap and nothing is locked between
  the load and the `os.replace`; a timed-out attempt may be carried out later.
  Correct: ids unique, records sound, the write gate respected, failed writes
  without trace, an answer that agrees with what was written and with what was
  asked, and, when requests do not overlap, a faithful register.
* **IMAP watcher.** Fetching changes the mailbox, a command may work and its
  answer be lost, a signal handler runs inside the thread it interrupts.
  Correct: nobody is answered twice, outsiders never, rows tell the truth,
  a message is lost only to a fault and is handled in the end.
* **Memory index.** Index and file are written one after the other; torn lines
  swallow the next one. Correct: a search shows the last word on an incident
  once, the most recent incidents are kept, also after a reload.
* **Audit log.** Writers lock the inode, the annotator replaces the path, and
  records are stamped before they wait for the lock. Correct: a record that was
  returned is shown by every tool and page with its annotations, and a client
  that pages through the log misses nothing that was there when it began.
* **Remediation and routing.** A change of a remote host and four writes about
  it, with kills, lost connections and rollbacks between them, under a config
  that is cached while its file is edited or broken. Correct: no change without
  snapshot and permission, answer and logs agree, failures are graded as such.
* **Scanner.** Threads per host that may fail at any step, result files that are
  emptied before they are fetched, a second process that collects the same day.
  Correct: one host that violates a control is enough, what the ignore list
  excludes is neither graded nor fixed.
* **Night run.** Log-derived and scan-derived evidence replace each other file by
  file, two passes repair between collections, every step may fail without
  stopping the job, and the dashboard collects at the same time. Correct: scans
  merge to the worst host, applied fixes are graded and stay graded, an ok
  report is about evidence of this run.
* **Dashboard and C2.** Handler threads share a token that any of them may drop;
  requests are retried; the dashboard gives up on C2 while C2 goes on, and may
  be killed. Correct: one order per call that the manager takes, no answer that
  contradicts it, rows of answered tasks that say how the tool ended.

## 2. Modules

| module | models | composed with |
|---|---|---|
| `TicketStore` | the ticket server: `Begin*` is a handler up to its write, `Commit`/`CommitFails` the write, `Finish` the response | implements `TicketRegister` |
| `TicketRegister` | abstract: what the ticket tools promise, one atomic step each | |
| `TicketClient` | the helper's calls on top of the server | EXTENDS `TicketStore` |
| `RealtimeIngest` | do_POST under `_LOCK` alert by alert, rehydrate_counts | |
| `AlertPipeline` | main of the integration script with call_llm, around the server it posts to | EXTENDS `RealtimeIngest`, implements its `Spec` |
| `ImapWatcher` | run, _process_one, stop, the store, triage | |
| `MemoryIndex` | add, load, search and the file | |
| `AuditLog` | record, _audit_record and annotate_run as processes on inodes | |
| `AuditQueries` | the records' fields, the read tools and the dashboard pages, a client that pages | EXTENDS `AuditLog` |
| `Routing` | load_config: merge, validation, policies; can_auto_remediate | |
| `Remediation` | the five tools step by step, the config cache, grading of evidence | EXTENDS `Routing` |
| `FleetScan` | scan_host step by step in a thread per host, merging and writing of evidence, collect_day beside it | |
| `ComplianceNight` | main of the nightly job, the collectors and merges it calls, the dashboard's collecting tools | |
| `ManagerClient` | C2: `_ManagerClient.request` attribute by attribute in each handler thread, and the manager as its environment | |
| `TaskLog` | record_task and the readers of the task log | |
| `TaskConsole` | the dashboard's logged triggers from do_POST to the answer | EXTENDS `ManagerClient`, `TaskLog` |
| `MC*` | instances for TLC: argument sets, symmetry | |
| `*Proofs` | theorems: `TicketProofs` about server, register and client, `AlertPipelineProofs` about ingest server and pipeline, `JournalProofs` about `AuditLog`, `AuditQueries` and `MemoryIndex`, the others about the module they are named for | EXTEND them and TLAPS |

How state and actions correspond to the code:

* `TicketStore`: `file` is the JSONL file as a sequence of records, `copy[h]`
  the list a handler holds between `_load_all` and `_atomic_write`; `LoadFails`
  and `CommitFails` answer what the code does, 403 for a PermissionError of the
  write and 500 for the rest; an id is the pair of day and number; text fields are dropped, labels are bags over `Label`
  (a JSON list may repeat one). The order of checks inside a handler is the order
  of the disjuncts. `close_ticket` is an update with `CloseEdit`, as in the code.
* `TicketClient`: `Connect` is the moment a thread takes the request, `Timeout`
  leaves the handler running, `Receive` is the treatment of each status.
  `Payload` is what the helper really sends of an edit, and `Obeys` whether a
  ticket is what the caller asked for; `wrote[c]` has the tickets that the
  attempts of a call have written. They differ for an assignee, which the helper
  drops (a finding): `CarriedOut` says so of every other part of the edit.
* `RealtimeIngest`: `n` and `incidents` are the agent's memory, `persisted` and
  `stats` the module's globals; a failing `_append_log` ends the request
  (`IngestFails`, `PersistFails`). Each alert carries a history number `uid`
  that tells it from another alert with the same id.
* `AlertPipeline`: `stage[p]` walks main; `story[p]` is what enrichment and
  decision have added to the alert, which both the post and the mail carry.
  `Submit` and `TakeRequest` are apart because the handler waits for `_LOCK`;
  `StopWaiting` is the answer, the timeout and the broken connection alike, as
  main goes on alike. `setup[p]` is what the process finds (env file, openclaw
  program, SMTP settings), `odd[p]` an alert that is no object or whose rule or
  agent is none (`Malformed`: the whole JSON). Every way to the end that leaves
  main by an exception is a branch: `Launch` without env file or with an alert
  that is_noisy cannot take, `EnrichRaises` (odd alert, missing program),
  `AnswerRaises` (the model's JSON is no object), `Decide` on a malformed alert,
  `Unmailable`, `MailFails`. An audit row of a call may be missing, as the code
  permits; no property asks for it. `OtherPost` is the server's own batch action.
* `ImapWatcher`: `seen` changes in `Fetch`, because FETCH (RFC822) sets \Seen;
  `pc = "check"` and `pc = "record"` are the places where the thread takes the
  store's lock; `Terminate` is the signal handler, which there may hang.
* `MemoryIndex`: `partial` says that the file ends in an unterminated line;
  `LoadLine` ingests the next line that parses, and no call is served (`Serving`)
  before the last; `Search` is the score, its two sorts and the cut at top_k. A
  sort is written as the place of each element, one more than how many come
  before it. A timestamp is the caller's string: its number is its place
  among strings, `Form` whether it has an offset ("aware"), has none ("naive") or
  does not parse ("garbled"), and `Instant` the time of an aware one. A naive one
  that matches makes the search raise (`Raises`, a finding), a garbled one scores
  nothing. `Freshness` is the decay as any function that favours the newer.
* `AuditLog`, `AuditQueries`: a handle is an inode, `log` and `tmp` are what the
  two paths name. `Meta` gives each writer the fields that its helper writes.
  The tools are operators over the log as it is, because each call reads it anew;
  an answer is the set of the places it is about, and a page is cut by `Rank`,
  how many places come before in the sort. `pager` is a client that asks for page
  after page.
* `Routing`, `Remediation`: a YAML mapping is the function of its leaves. `pc`
  walks probe, apply, audit, amend, amending, log; `Apply` decides apart whether the host
  executed the fix, whether it took effect and what ssh returned; `config[p]` is
  `_CFG` of a process; `copy[r]` is the run's own snapshot record, which it
  completes and writes back whatever has become of the file. Amendment and
  rollback write through one temporary file, opened in `Reprobe`/`RollbackOpen`
  and moved in `Amend`/`RollbackWrite`: `tmp[r]` says whether one or both have it
  open or one has moved it away, after which the other's replace raises and the
  snapshot may be `Garbled`. `basis[r]` remembers what the routing file has contained
  since the process of run r started.
* `FleetScan`: `w[h]` is the place of the thread in scan_host; `OpenResults` is
  the truncation, `FetchResults`/`FetchFails` what follows; `remote` are the rows
  in the host's tmp; `Merge`, `Rollup` and `Writes` are what write_evidence makes
  of the files it read; `Collect*` is collect_day in a process of its own.
* `ComplianceNight`: `phase` walks main; `Load`, `ReadSnapshots` and `Write` are
  tool_collect_evidence, with the logs read once per tenant, the snapshots per
  control, and the file replaced in a step of its own, for the nightly job and
  the dashboard alike: a fix, another collection or a scan may come between any
  two. `Lands` is what is in place when processes that share the `.tmp` of a file
  have written it at once, `WriteFails` the replace that finds it gone. The history
  `crossed` of a file says that a fix landed between its grading and its writing,
  or that it was written at once with another. `Refs` is a host's own datastream,
  `MergedRefs` the union that merging uses. `HostScan` and `RecordScan` are
  scan_and_record; `CollectDay` is
  collect_day with the manifest it rewrites; `attempts` are the remediations of a
  pass, whose rows `Leaves` adds at once (`Remediation` models the order of the
  writes). Controls in rows are those that `_cid_match` gives.
* `ManagerClient`: every read and write of the shared `_token` and
  `_token_fetched_at` is a step of its own (`Refresh`, `StoreToken`,
  `StampToken`, `AssertToken`, `ReadToken`, `DropToken`). Tokens are numbers; the
  manager accepts those after `dead`. `Accept` is the manager taking an order;
  what it then does with it is written in a body that the code does not read, and
  no property speaks of it. `Reply`/`ReplyLost` is what the caller learns, and
  `ManagerError` a 5xx before the manager took the order or after, both of which
  become 502. `Refusal` is what C2 answers without the manager.
* `TaskConsole`: `dpc[d]` walks do_POST and the tool; `GiveUp` is the timeout
  after which C2 goes on; a dry run passes the gate whatever healthz says; `Die`
  ends all threads of the dashboard and leaves C2's; `unwritten` are the tasks whose
  last row the file system refused.

## 3. Runs

| run | what it asks | bounds |
|---|---|---|
| `ticket_client` | ids, records, gate and answers under overlap, retries, timeouts and restarts; calls return | 2 calls, 2 threads, 2 days, label cap 2, comment cap 1, 3 numbers |
| `ticket_serial` | without overlap the file implements the register | 2 threads, 2 tickets, 1 label |
| `alert_pipeline` | log, incidents, story and exit code of an alert; the script ends | 1 process, 2 alerts in all, levels 11 and 12 or malformed, every setup, batches of 2, 2 days |
| `realtime_restart` | violation: an incident after a restart on the same day | 4 alerts, batches of 2, 2 days |
| `imap_watcher` | answers, rows, losses; every message is handled | 3 messages, 3 faults, 1 remembered reply |
| `memory_index` | last word, most recent kept, order of a search | 1 tenant, 3 incidents, cap 2, 4 timestamps (aware, naive, garbled), 4 adds; load line by line |
| `audit_apart` | every tool and page shows what landed, with its notes; paging misses nothing | 2 locking writers, 1 bare, 2 annotations, pages of 1, load cap 3 |
| `remediation` | snapshot, gate, trail, grades | 1 process, 2 runs, 2 hosts, 3 controls, 2 tenants, 2 file contents, 1 edit, 1 rollback |
| `compliance_night` | merge, grading of fixes, freshness of the report | 2 tenants, 2 hosts, 2 rules, 2 controls, 2 archives, 2 runs, 1 fault, 1 request of the dashboard or scan of one host |
| `fleet_scan` | one failing host is enough; exclusions hold | 2 hosts, 2 rules, 1 control, 2 runs or collections, 1 fault |
| `console` | orders, answers, task rows through dashboard and C2 | 2 triggers, 1 retry, 1 revocation or expiry, 2 faults |
| `c2_token_race` | violation: the shared token | 2 threads, 2 retries, 1 expiry, 1 fault |

Why the bounds are enough: every conflict in this code is between two parties
(two threads, two runs, a client and a restart), so two of each bring it about,
and the third message, incident or writer gives the conflict a bystander. Caps
(labels, comments, records, remembered replies, lines loaded) are set so low that
they are reached. The levels 11 and 12 are the two sides of the escalation
threshold. Two days show ids of different days beside each other. In
`alert_pipeline` the second party is another client's batch, since two whole
processes of the script are more than TLC explores in reasonable time; the
theorems of `AlertPipelineProofs` hold for any number. The load cap of
`audit_apart` is exactly the number of records: at one more the newest one
disappears from every tool, as the code says, and `ReadBack` and `NotesShown` say
nothing of a log beyond the cap. The timestamps of `memory_index` are two
aware ones, whose order as strings is not that of their times, and one of each
other form; a second tenant
would only double what is found in one, and the theorems hold for any number.
Records from the future, of which `LastWordFound` speaks too, are left to its
theorem. One fault per run of `fleet_scan` and `compliance_night`, and two of
`console`, are placed anywhere; their theorems hold for any number.

Two specifications are conditional, because the code keeps the promise only
there. `AuditLog` is explored while an annotation overlaps no other call
(`AnnotatesAlone`); what happens otherwise is a finding. `alert_pipeline` has
`SameDayRestart = FALSE`, and `realtime_restart` shows what happens otherwise.

**Fairness** is assumed in three places only. `TicketClient`: the helper's socket
timeout and connection refusal happen whatever the server does
(`urlopen(..., timeout=0.2)`), so `Timeout` and `Refused` are weakly fair; the
server gets no fairness at all. `AlertPipeline`: every wait of the script, on the
model, the server and the relay, has a timeout, so the steps of each process are
weakly fair; the server, which holds the lock, is not. `ImapWatcher`: the
watcher's thread never waits for anything without a timeout except the IMAP server
itself, which is taken to answer or to break the connection; `Watch` is weakly
fair as a whole, and mail, faults and signals are not.

CHECK_DEADLOCK is off where the bounds (number of alerts, adds, calls, runs)
let the model come to rest.

## 4. Findings

Two findings have a run that violates a property: `realtime_restart` (alert
numbers begin again after a restart on the same day, so a new incident reuses an
id that counts as persisted and is never logged) and `c2_token_race` (one
thread's 401 clears the shared token between another's refresh and its
assertion). The others follow from one sequence of calls or from one line, and
are listed in `PROJECT.json` with the lines that disagree. Among them:

* tickets and mail: an assignee that the helper drops while the call is answered
  ok; a reply that is marked seen and never retried; the signal handler that waits
  for a lock of its own thread; a model's answer that is no JSON object, or a
  missing program, which ends the script before its mail;
* memory and audit: a timestamp without offset, after which every search that
  matches it raises; a record lost to an overlapping annotation;
* remediation and evidence: a dry run graded as a pass; the temporary snapshot
  file shared by amendment and rollback; a collection that undoes a fix it has
  not seen, and the evidence file that two processes write through one `.tmp`;
* scans: rules mapped by the datastreams of other hosts; the scan of one host
  that becomes the evidence of the fleet; evidence that moves between tenants when
  the nightly job is run twice; pre-remediation results merged as one more host;
* C2 and dashboard: answers that rest on the status alone, whatever the manager's
  body says; a fleet-wide restart that C2 does not offer; task rows that call a
  refused fix done; tasks of a killed dashboard that run for ever.

## 5. Proofs

The proofs rest on the named ASSUMEs of the modules, which TLC evaluates in the
runs, and on nothing else. Each follows the same plan: an inductive invariant, a
lemma per action or group of actions, and the theorems from it.

* `TicketProofs`. For any number of handlers, labels and bounds: types,
  unique ids, sound records, the gate. `UniqueIds` is not inductive, because a
  handler's copy replaces the file; `IInv` says of every held copy what it says
  of the file (types, distinct ids, sound records) and that copies are held only
  with the gate open. `NextIdFresh` (the maximum of the day's numbers plus one
  is new) and `EditKeepsSound` carry the steps. For `SerialSpec`, where at most
  one request holds a copy, `SerialInv` adds that the copy is the file with one
  line appended or edited; from it follow `AppendOnly` and, mapping the file to
  a function from ids to records, `ImplementsRegister`. For `ClientSpec`,
  `CallsCarriedOut` (a call answered ok on its first attempt wrote one ticket,
  and that ticket is what was asked, an assignee excepted; one refused wrote none)
  rests on a count: the tickets a call has written and the handlers
  that still serve it are together no more than the attempts it has made
  (`CallOK`), so a call on its first attempt that got its answer has no handler
  left that could write behind its back, and what a handler holds obeys the edit it
  was sent; `NoCallWritesWhenShut` and `StoreHolds`
  carry the server's own theorems over to the composition.
* `AlertPipelineProofs`, the server. `IInv` is the types, `persisted` = the incident ids of
  the log, the results of the batch in progress are logged, and the properties.
  `IncidentsDurable` assumes `~SameDayRestart` and needs `Numbered`: ids in the
  log of this day were numbered by this process. Without the assumption the run
  `realtime_restart` is the counterexample.
* `AlertPipelineProofs`, the pipeline. `ImplementsIngest`: every step of the pipeline is a step
  of `RealtimeIngest` or leaves its variables alone (`StepMaps`), so its theorems
  carry over (`LogCarriesOver`). `PInv` adds to the types that a request at the
  server was submitted, that what the server took and what was mailed is the
  story of the process as it is now, that an audit row is about its narrative, and
  that a story is only told before it is
  submitted: this order is why `SameStory` holds however late the server is.
  `EndsAreTrue` is part of the invariant: each way to fail leaves its cause on
  record (`broken`, `odd` or `setup`).
  `NumbersSpentOnce` combines it with the server's invariant: a `uid` is given
  out once, and once per process.
* `ImapWatcherProofs`. `IInv` says what may be true of the message in hand at
  each place of the thread (`InHand`, `Planned`), that messages not yet fetched
  are untouched (`Untouched`) and that UIDs arrive in order (`Ascending`).
* `RemediationProofs`. `Inv` is, per run, `Allowed` (whoever works or has executed
  a fix has passed the gate of a content its process can have seen), `Counted`
  (one execution per attempt), `Untold` (nothing but the snapshot before the fix
  has returned), `Saved`, `Traced` (rows, snapshot and the copy that a rollback
  is about to put back all say what the fix returned), `Held` (where the run's own
  copy is, and who has the temporary file: both only while both are about to move
  it, and a snapshot is garbled only where both have had it) and `Answered`; and, per
  process, `Cached` (the config is what some content since its start loads to).
  `GatePermits` relates the code's gate over merged policies to the leaves of
  the file. The copy of the rollback in `Traced` is what makes it inductive: a
  rollback may write back a snapshot that it read before the amendment.
* `FleetScanProofs`. `ScanInv`: a thread holds an evaluation exactly from where it
  was made (`Held`), evaluations and files leave out what is excluded
  (`RemoteClean`, `FileClean`), and while evidence is written a violated control is
  failing or still to be written (`Merged`). `OneFails` (a rule that fails in one
  file fails in the merge and in the roll-up, and gets a row) carries the step of
  the merge. `RemediationSpares` is an action property: oscap fixes what failed
  in the evaluation, and there the excluded rules are notselected.
* `ComplianceNightProofs`. `WorstAcrossHosts` relates the two computations the
  code makes of the same scans: the rollup of the merged rules by the references of all
  datastreams (`write_evidence`) and the rollup of each host by its own
  (`host_control_status`): where a host fails, the merge fails, and where the merge
  fails, a host has failed a rule that some datastream of the day maps to the
  control (not always that host's own, which is a finding). `WorstResult` follows because no step changes the archive.
  `FixesStand` is an action property and needs `Overtaken`: as soon as
  a control has an ok row among the snapshots, a status of it on its way to a file
  is a pass or marked late. So what undoes a pass is a scan or a file that is
  `crossed`: the code's own race, which a finding states, is all that is excepted. `RunsRenewAll` needs `Renewed`: in the first
  collection each control is fresh, ahead of the collector (`Ahead`) or its tenant
  counted as missed, and after it fresh or its tenant among the errors.
  `AppliedPass` needs `Followed`: which hosts the attempts and the applied fixes of
  each phase are on, that every applied fix has its snapshot, and that a
  re-collection in progress has graded it or is still to come to it.
* `JournalProofs`, the audit log. `QInv` says, of any number of writers and
  annotations that overlap no other call, that a call has exactly one line from its
  write on and none before (`OneLine`), that a call at work has the inode open
  that the path names (`AtLog`), that what an annotation has read is what the
  log is (`Working`) and that an answered note is on its line (`Noted`). What a tool
  shows follows from it: every rank is on one page (`PageOf`), and ranks are below
  the number of matches (`RankBounds`). `PagerMissesNothing` needs `StillAhead`: what
  the client is still to see has a rank not below its offset. It is inductive because no
  step lowers a rank: a new line only pushes others back (`PushedBack`), an
  annotation keeps records and stamps (`AnnotatedLines`); `LinesAreKept` states that
  of every step: nothing that calls and replacements of the file do removes, moves
  or re-addresses a line, or drops a note.
* `JournalProofs`, the memory. `MemoryInv` relates a bucket to the lines that the
  process has ingested, so that one step, "ingest the next line", covers load and
  memory_add alike (`Ingesting`): a bucket holds last versions only and, if the
  timestamps go up, all of them or as many as fit with nothing newer left out
  (`Kept`). `PlacesNumber` (counting predecessors in a strict total order numbers
  a finite set) gives both sorts: `Sorted` the cut to the cap, `Ranked` the order of a
  search. `BoundedKeeps` and `IngestKeeps` say what a cut and an ingestion leave
  out. `ReloadAgrees` draws the conclusion: where a tenant's timestamps go up and
  differ, what a restart loads is what the calls had made of the index, namely the
  newest of the last versions. The only assumption on the decay is that it grows strictly with the
  timestamp up to the time of the search.
* `TaskConsoleProofs`. About both servers together, for any number of threads,
  retries, expiries and faults. `ClientInv` says how many orders a call can have
  given at each place of its loop: none before the manager takes it, one once it is in
  "reply", after which no path leads back into the loop; statuses follow. A 200
  says that the manager took the order and no more.
  `ConsoleInv` adds that a dashboard thread has made its call or has not
  (`OneCall`), that "ok" was a 200 (`OkTells`) and what the last row of a task is
  at each place (`RowInv`), unless the row of its end could not be written. `ClientsServed` is the part without the dashboard.

Only model-checked: liveness (`CallsReturn`, `AlertHandled`,
`EveryMessageHandled`), which is beyond the prover. Every safety property that a
passing run checks is a theorem.

## 6. Not modelled

`PROJECT.json` lists every component with its status. Left out, and why:

* `soc_stig.py`, `soc_stig_classifier.py`: parsing of XCCDF and heuristics over
  the text of rules, without state; rules, controls and what a rule refers to are
  constants of the models.
* `soc_scan_diff.py`, daily decisions, the dashboard's rendering and front end, the
  Wazuh MCP server: they read, compare and format.
* Percentages, trends and breakdowns of the score: views of the set of controls
  that count as passed, which `ComplianceNight` has.
* The Laya shadow and the stdio bridges: no shared state. The reference realtime
  server: no unit starts it. Deployment: shell scripts and units.

Limits of what is modelled: lines of the logs are written whole except where a
torn line matters (`MemoryIndex`, `FleetScan`), and a torn line is one that does
not parse (one cut just before its newline does, until the next append runs
into it); two records of one run and agent
in the same millisecond, which share an address, are excluded by an assumption
of `AuditQueries`; the mailbox of `ImapWatcher` keeps its UIDVALIDITY; the
threshold of the routing gate and confidences are taken from a small range, as
only their order matters; one tenant and one day in `FleetScan`, several tenants
in `ComplianceNight`. `MemoryIndex` orders timestamps as numbers, where the code
compares strings: a number is the place of a string among them, which need not
be its place in time (`Instant`). A search reads the clock once (the code
does for each record, so a unit of the model's time is longer than a search), and
the decay never rounds two ages to one score.
The arguments of the dashboard's triggers are JSON objects. The run of
`Remediation` has one call of rollback_control, its theorems any number. What the
manager makes of an order after it took it is outside; so are the tasks of a killed
dashboard, whose last row no property constrains (a finding).

## 7. Next

1. The refinement of `AlertPipeline` is proved; the same for `TicketClient` over an
   abstract register of calls, and for `TaskConsole` over one order per trigger.
2. The ticket and vulnerability proxies of the dashboard, and the tools of the
   Wazuh MCP server, once they keep state.
