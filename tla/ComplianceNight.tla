--------------------------- MODULE ComplianceNight ---------------------------
(***************************************************************************)
(* services/soc_compliance_daily.py with the collectors of soc_evidence.py *)
(* and scanner/soc_scanner.py that it drives, beside a dashboard that      *)
(* remediates and re-collects at the same time.  One evidence day; a run   *)
(* may be killed and repeated; hosts are scanned anew meanwhile.  A fix    *)
(* leaves its rows at once: Remediation models how it writes them.         *)
(***************************************************************************)
EXTENDS Integers, FiniteSets

CONSTANTS
  TenantCount,   \* known_tenants() is sorted: tenant 1 is the default one
  Host,
  Rule,          \* rules of the OpenSCAP benchmarks
  Control,
  None,
  Refs,          \* host -> rule -> the controls that the references of the host's
                 \* datastream and their aliases give
  Applicable,    \* tenant -> the controls its routing config selects
  Fixable,       \* controls with automated = true and a shell fix
  Willing,       \* tenants with auto_remediate among their allowed_actions
  Permits,       \* <<tenant, control>> pairs that can_auto_remediate accepts
  LocalPass,     \* SOC_AUTO_REMEDIATE
  FleetPass,     \* SOC_AUTO_REMEDIATE_FLEET
  Allowlist,     \* SOC_AUTO_REMEDIATE_FLEET_HOSTS
  Days,          \* what the archive and the manifest may be before the first run
  Findings,      \* controls that STIG findings may be reported of
  MaxRuns,       \* bound: starts of the nightly job
  MaxFaults,     \* bound: collections that raise and kills of the nightly job
  MaxRequests    \* bound: requests of the dashboard and scans of one host

Tenant == 1..TenantCount
Process == {"night", "dashboard"}

\* "fixed" is a pass; every other result (notchecked, error, ...) is "other".
Result == {"pass", "fail", "other", "absent"}
Row == Control \X {"ok", "fail"}
Status == {"pass", "fail", "manual_review"}
\* An evidence file.  History: crossed if a fix landed between its grading and its
\* writing, or another process was writing it at the same time.
File == [status: Status, by: {"logs", "scan", "host"}, crossed: BOOLEAN]
\* A status on its way to the file.  History: whether a fix has overtaken it, and
\* whether another process has replaced the file meanwhile.
Grading == [control: Control, status: Status, late: BOOLEAN, clash: BOOLEAN]
Attempt == [tenant: Tenant, control: Control, host: Host \cup {None}]

ASSUME ConstantsAssumption ==
  /\ TenantCount \in Nat \ {0} /\ {MaxRuns, MaxFaults, MaxRequests} \subseteq Nat
  /\ Refs \in [Host -> [Rule -> SUBSET Control]] /\ Applicable \in [Tenant -> SUBSET Control]
  /\ Fixable \subseteq Control /\ Findings \subseteq Control
  /\ Willing \subseteq Tenant /\ Permits \subseteq Willing \X Control
  /\ {LocalPass, FleetPass} \subseteq BOOLEAN
  /\ Allowlist \subseteq Host /\ None \notin Host /\ None \notin Tenant
  /\ None \notin [Rule -> Result] /\ None \notin File /\ None \notin Grading
  /\ Days \subseteq [scan: [Host -> [Rule -> Result] \cup {None}],
                    manifest: [Host -> Tenant \cup {None}]]

VARIABLES
  scan,       \* the day's archive: host -> its results by rule, or None
  recording,  \* the host just scanned on its own, its evidence to be written, or None
  manifest,   \* manifest.json: host -> tenant, None without row or tenant
  logs,       \* graded rows of the audit log of the day, tenants mixed
  snapshots,  \* grades of the snapshots of the day
  evidence,   \* tenant -> control -> its evidence file, or None
  phase,      \* of the nightly job
  batch,      \* tenants whose scans it has still to collect, or to repair hosts of
  attempts,   \* remediations that the pass has still to try
  applied,    \* attempts of this run that answered "applied"
  raw,        \* raw_collect: tenant -> controls found other than pass
  errors,     \* tenants whose first collection raised
  report,     \* [ok, passes] of the run that has ended, or None
  fresh,      \* history: <<tenant, control>> pairs written since the start
  queue,      \* per process: tenants it has still to collect
  current,    \* per process: the tenant it is collecting, or None
  loaded,     \* per process: the rows it has read from the logs
  todo,       \* per process: controls of that tenant still to be written
  graded,     \* per process: the status it is about to write, or None
  missed,     \* tenants whose last collection by the nightly job raised
  runs, faults, requests

archive == <<scan, recording, manifest>>
trail == <<logs, snapshots>>
collection == <<queue, current, loaded, todo, graded, missed>>
course == <<phase, batch, attempts, applied, raw, errors, report>>
counters == <<runs, faults, requests>>
vars == <<archive, trail, evidence, course, fresh, collection, counters>>

-----------------------------------------------------------------------------
(* Grading.                                                                *)

\* _derive_status: any pass-grade row wins.
Derived(c, rows) ==
  IF <<c, "ok">> \in rows THEN "pass"
  ELSE IF <<c, "fail">> \in rows THEN "fail" ELSE "manual_review"

\* _specs_from_day: the hosts with archived results, in the manifest or not.
Specs == {h \in Host : scan[h] # None}

\* Seeded fault: the results of hosts that disagree are dropped as mixed.
MergedIfAgreed(r) ==
  LET seen == {scan[h][r] : h \in Specs} \ {"absent"}
  IN  IF Cardinality(seen) = 1 /\ seen \subseteq {"pass", "fail"}
        THEN CHOOSE x \in seen : TRUE ELSE "absent"

\* merge_results: fail if a host fails, pass if all hosts that have the rule
\* pass, and otherwise the rule is dropped.
Merged(r) ==
  LET seen == {scan[h][r] : h \in Specs} \ {"absent"}
  IN  IF "fail" \in seen THEN "fail" ELSE IF seen = {"pass"} THEN "pass" ELSE "absent"

\* _control_rollup of results by rule; "absent" where no rule maps to c.
Rollup(results, refs, c) ==
  LET seen == {results[r] : r \in {q \in Rule : c \in refs[q]}} \ {"absent"}
  IN  IF "fail" \in seen THEN "fail" ELSE IF "pass" \in seen THEN "pass"
      ELSE IF seen # {} THEN "manual_review" ELSE "absent"

\* The references of all datastreams of the day, for rules of any host.
MergedRefs(r) == UNION {Refs[h][r] : h \in Specs}

\* write_evidence: the file of each applicable control that has rows.
ScanStatus(c) == Rollup([r \in Rule |-> Merged(r)], [r \in Rule |-> MergedRefs(r)], c)
Measured(t) == {c \in Applicable[t] : ScanStatus(c) # "absent"}

\* The same of a host's own results, by its own datastream.
HostStatus(h, c) == Rollup(scan[h], Refs[h], c)
HostMeasured(h, t) == {c \in Applicable[t] : HostStatus(h, c) # "absent"}

\* host_control_status: every host of the day, whatever tenant it belongs to.
Failed(h, t) == {c \in Applicable[t] : HostStatus(h, c) = "fail"}

-----------------------------------------------------------------------------
(* _write_evidence: write <file>.tmp, move it over the file.               *)

\* Processes that may have the same .tmp open.
Writers(t, c) ==
  {p \in Process : current[p] = t /\ graded[p] # None /\ graded[p].control = c}

\* What is in place when one of several writers has moved the .tmp they share: what
\* it or another has written last, or a file that another has just emptied.
Lands(file, others) ==
  IF others = {} THEN {file}
  ELSE {[file EXCEPT !.crossed = TRUE],
        [status |-> "manual_review", by |-> "logs", crossed |-> TRUE]}
       \cup {[status |-> graded[q].status, by |-> "logs", crossed |-> TRUE] : q \in others}

\* The files of a scan's controls, one write each.
ScanFiles(t, written, by, status) ==
  /\ \E files \in [written -> File] :
       /\ \A c \in written :
            files[c] \in Lands([status |-> status[c], by |-> by, crossed |-> FALSE], Writers(t, c))
       /\ evidence' = [evidence EXCEPT ![t] =
            [c \in Control |-> IF c \in written THEN files[c] ELSE @[c]]]
  /\ graded' = [p \in Process |-> IF \E c \in written : p \in Writers(t, c)
                                   THEN [graded[p] EXCEPT !.clash = TRUE] ELSE graded[p]]

-----------------------------------------------------------------------------
(* tool_collect_evidence, one tenant after the other.                      *)

Idle(p) == queue[p] = {} /\ current[p] = None

Init ==
  /\ \E d \in Days : scan = d.scan /\ manifest = d.manifest
  /\ recording = None /\ logs = {} /\ snapshots = {}
  /\ evidence = [t \in Tenant |-> [c \in Control |-> None]]
  /\ phase = "idle" /\ batch = {} /\ attempts = {} /\ applied = {}
  /\ raw = [t \in Tenant |-> {}] /\ errors = {} /\ report = None /\ fresh = {}
  /\ queue = [p \in Process |-> {}] /\ current = [p \in Process |-> None]
  /\ loaded = [p \in Process |-> {}] /\ todo = [p \in Process |-> {}]
  /\ graded = [p \in Process |-> None] /\ missed = {} /\ runs = 0 /\ faults = 0 /\ requests = 0

Fault == faults < MaxFaults /\ faults' = faults + 1

\* The logs are read once per tenant.
Load(p) ==
  /\ current[p] = None /\ queue[p] # {}
  /\ \E t \in queue[p] :
       /\ \A u \in queue[p] : t <= u
       /\ queue' = [queue EXCEPT ![p] = @ \ {t}]
       /\ current' = [current EXCEPT ![p] = IF Applicable[t] = {} THEN None ELSE t]
       /\ loaded' = [loaded EXCEPT ![p] = logs]
       /\ todo' = [todo EXCEPT ![p] = Applicable[t]]
  /\ UNCHANGED <<archive, trail, evidence, course, fresh, graded, missed, counters>>

Grade(p, c, rows) ==
  /\ current[p] # None /\ graded[p] = None /\ c \in todo[p]
  /\ graded' = [graded EXCEPT ![p] =
       [control |-> c, status |-> Derived(c, rows), late |-> FALSE, clash |-> FALSE]]
  /\ UNCHANGED <<archive, trail, evidence, course, fresh, queue, current, loaded, todo,
                 missed, counters>>

\* Seeded fault: the snapshots have been read together with the logs.
ReadLoaded(p) == \E c \in Control : Grade(p, c, loaded[p])

\* The snapshots are read anew for each control, before its file is written.
ReadSnapshots(p) == \E c \in Control : Grade(p, c, loaded[p] \cup snapshots)

\* One file is replaced; p has no more use for what it read after the last one.
Write(p) ==
  /\ current[p] # None /\ graded[p] # None
  /\ LET t == current[p]
         g == graded[p]
         others == Writers(t, g.control) \ {p}
         left == todo[p] \ {g.control}
     IN  /\ \E file \in Lands([status |-> g.status, by |-> "logs", crossed |-> g.late], others) :
              evidence' = [evidence EXCEPT ![t][g.control] = file]
         /\ fresh' = fresh \cup {<<t, g.control>>}
         /\ graded' = [q \in Process |->
              IF q = p THEN None
              ELSE IF q \in others THEN [graded[q] EXCEPT !.clash = TRUE] ELSE graded[q]]
         /\ todo' = [todo EXCEPT ![p] = left]
         /\ current' = [current EXCEPT ![p] = IF left = {} THEN None ELSE t]
         /\ loaded' = [loaded EXCEPT ![p] = IF left = {} THEN {} ELSE @]
         /\ raw' = IF p = "night" /\ phase = "collect" /\ g.status # "pass"
                     THEN [raw EXCEPT ![t] = @ \cup {g.control}] ELSE raw
  /\ UNCHANGED <<archive, trail, phase, batch, attempts, applied, errors, report,
                 queue, missed, counters>>

\* The collection of a tenant raises: its remaining files stay as they were.
Abandon(p) ==
  /\ current' = [current EXCEPT ![p] = None]
  /\ loaded' = [loaded EXCEPT ![p] = {}] /\ todo' = [todo EXCEPT ![p] = {}]
  /\ graded' = [graded EXCEPT ![p] = None]
  /\ missed' = IF p = "night" THEN missed \cup {current[p]} ELSE missed
  /\ UNCHANGED <<archive, trail, course, fresh, queue, runs, requests>>

CollectFails(p) ==
  /\ Fault /\ current[p] # None
  /\ Abandon(p)
  /\ UNCHANGED evidence

\* Another process has moved the .tmp away: os.replace raises, with p's lines in
\* the file that the other has put in place, or without.
WriteFails(p) ==
  /\ current[p] # None /\ graded[p] # None /\ graded[p].clash
  /\ \/ UNCHANGED evidence
     \/ evidence' = [evidence EXCEPT ![current[p]][graded[p].control] =
                       [status |-> graded[p].status, by |-> "logs", crossed |-> TRUE]]
  /\ Abandon(p)
  /\ UNCHANGED faults

CollectAll ==
  /\ queue' = [queue EXCEPT !["night"] = Tenant]
  /\ missed' = {}
  /\ UNCHANGED <<current, loaded, todo, graded>>

-----------------------------------------------------------------------------
(* main: the phases of the nightly job.                                    *)

Start ==
  /\ phase \in {"idle", "done"} /\ runs < MaxRuns
  /\ phase' = "collect" /\ runs' = runs + 1
  /\ CollectAll
  /\ report' = None
  /\ UNCHANGED <<archive, trail, evidence, batch, attempts, applied, raw, errors, fresh,
                 faults, requests>>

\* The process ends, and its memory with it; what it has written stays.
Exit ==
  /\ batch' = {} /\ attempts' = {} /\ applied' = {} /\ errors' = {} /\ fresh' = {}
  /\ raw' = [t \in Tenant |-> {}]
  /\ queue' = [queue EXCEPT !["night"] = {}] /\ current' = [current EXCEPT !["night"] = None]
  /\ loaded' = [loaded EXCEPT !["night"] = {}] /\ todo' = [todo EXCEPT !["night"] = {}]
  /\ graded' = [graded EXCEPT !["night"] = None] /\ missed' = {}

\* by_tenant: a host without a tenant counts for the default one.
ByTenant == {IF manifest[h] = None THEN 1 ELSE manifest[h] : h \in Specs}

\* Seeded fault: an error of the first collection is not counted.
CollectedUncounted ==
  /\ phase = "collect" /\ Idle("night")
  /\ phase' = "scan" /\ errors' = {} /\ batch' = ByTenant
  /\ UNCHANGED <<archive, trail, evidence, attempts, applied, raw, report, fresh,
                 collection, counters>>

Collected ==
  /\ phase = "collect" /\ Idle("night")
  /\ phase' = "scan" /\ errors' = missed /\ batch' = ByTenant
  /\ UNCHANGED <<archive, trail, evidence, attempts, applied, raw, report, fresh,
                 collection, counters>>

\* collect_day: the results of all hosts, whosever they are, become evidence of
\* this tenant, and every row of the manifest is attributed to it.
CollectDay(t) ==
  /\ phase = "scan" /\ t \in batch /\ \A u \in batch : t <= u
  /\ batch' = batch \ {t}
  /\ \E written \in SUBSET Measured(t) :
       /\ ScanFiles(t, written, "scan", [c \in written |-> ScanStatus(c)])
       /\ \/ written = Measured(t)
             /\ manifest' = [h \in Host |-> IF h \in Specs THEN t ELSE manifest[h]]
             /\ UNCHANGED faults
          \/ Fault /\ UNCHANGED manifest  \* collect_day raises on the way
  /\ UNCHANGED <<scan, recording, trail, phase, attempts, applied, raw, errors, report,
                 fresh, queue, current, loaded, todo, missed, runs, requests>>

\* _auto_remediate_pass: what the logs did not show to pass, on the SOC host.
LocalAttempts ==
  {a \in Attempt : /\ LocalPass /\ a.host = None /\ a.tenant \notin errors
                   /\ a.control \in raw[a.tenant] \cap Fixable}

\* Nothing reads raw_collect afterwards.
Scanned ==
  /\ phase = "scan" /\ batch = {}
  /\ phase' = "local" /\ attempts' = LocalAttempts
  /\ raw' = [t \in Tenant |-> {}]
  /\ UNCHANGED <<archive, trail, evidence, batch, applied, errors, report, fresh,
                 collection, counters>>

\* The rows of one fix.  Of a run that timed out or was killed there may be its
\* snapshot, graded by the probe or the fix, and after that its audit row.
Leaves(c, outcome) ==
  LET grades == IF outcome = "applied" THEN {{"ok"}}
                ELSE IF outcome = "failed" THEN {{"fail"}} ELSE {{}, {"ok"}, {"fail"}}
  IN  \E row, shot \in grades :
        /\ row # {} => shot # {}
        /\ logs' = logs \cup {c} \X row
        /\ snapshots' = snapshots \cup {c} \X shot
        /\ graded' = [p \in Process |->
             IF graded[p] # None /\ graded[p].control = c /\ "ok" \in shot
               THEN [graded[p] EXCEPT !.late = @ \/ graded[p].status # "pass"]
               ELSE graded[p]]

\* remediate_control for one attempt; a refusal leaves no graded row.
Remediate(a) ==
  /\ phase \in {"local", "fleet"} /\ a \in attempts
  /\ attempts' = attempts \ {a}
  /\ \/ <<a.tenant, a.control>> \notin Permits
        /\ UNCHANGED <<trail, applied, graded>>
     \/ <<a.tenant, a.control>> \in Permits
        /\ \E outcome \in {"applied", "failed", "lost"} :
             /\ Leaves(a.control, outcome)
             /\ applied' = IF outcome = "applied" THEN applied \cup {a} ELSE applied
  /\ UNCHANGED <<archive, evidence, phase, batch, raw, errors, report, fresh,
                 queue, current, loaded, todo, missed, counters>>

LocalApplied == \E a \in applied : a.host = None

\* Seeded fault: the results are looked for where the local pass keeps its own.
FleetAppliedAtTenantLevel == LocalApplied

\* The fleet pass nests its results by host.
FleetApplied == \E a \in applied : a.host # None

\* _fleet_remediation_pass: an empty allowlist does not restrict the hosts.
FleetAttempts(t) ==
  {a \in Attempt : /\ a.tenant = t /\ a.host \in Specs
                   /\ Allowlist = {} \/ a.host \in Allowlist
                   /\ a.control \in Failed(a.host, t) \cap Fixable}

FleetBatch == IF FleetPass THEN Willing ELSE {}

\* After a pass that applied something all tenants are collected again.
LocalDone ==
  /\ phase = "local" /\ attempts = {}
  /\ IF LocalApplied
       THEN phase' = "recollect" /\ CollectAll /\ UNCHANGED batch
       ELSE phase' = "fleet" /\ batch' = FleetBatch /\ UNCHANGED collection
  /\ UNCHANGED <<archive, trail, evidence, attempts, applied, raw, errors, report, fresh,
                 counters>>

Recollected ==
  /\ phase = "recollect" /\ Idle("night")
  /\ phase' = "fleet" /\ batch' = FleetBatch
  /\ UNCHANGED <<archive, trail, evidence, attempts, applied, raw, errors, report, fresh,
                 collection, counters>>

\* What the archive says at the tenant's turn.
FleetTenant(t) ==
  /\ phase = "fleet" /\ attempts = {}
  /\ t \in batch /\ \A u \in batch : t <= u
  /\ batch' = batch \ {t} /\ attempts' = FleetAttempts(t)
  /\ UNCHANGED <<archive, trail, evidence, phase, applied, raw, errors, report, fresh,
                 collection, counters>>

FleetDone ==
  /\ phase = "fleet" /\ attempts = {} /\ batch = {}
  /\ IF FleetApplied
       THEN phase' = "recollect_fleet" /\ CollectAll
       ELSE phase' = "score" /\ UNCHANGED collection
  /\ UNCHANGED <<archive, trail, evidence, batch, attempts, applied, raw, errors, report,
                 fresh, counters>>

\* tool_score_all_tenants: missing evidence counts as manual_review.
Passes ==
  [t \in Tenant |-> {c \in Applicable[t] :
                       evidence[t][c] # None /\ evidence[t][c].status = "pass"}]

Score ==
  /\ \/ phase = "score"
     \/ phase = "recollect_fleet" /\ Idle("night")
  /\ phase' = "done"
  /\ \/ report' = [ok |-> errors = {}, passes |-> Passes] /\ UNCHANGED faults
     \/ Fault /\ report' = [ok |-> FALSE, passes |-> [t \in Tenant |-> {}]]
  /\ Exit
  /\ UNCHANGED <<archive, trail, evidence, runs, requests>>

Kill ==
  /\ Fault /\ phase \notin {"idle", "done"}
  /\ phase' = "idle"
  /\ Exit
  /\ UNCHANGED <<archive, trail, evidence, report, runs, requests>>

-----------------------------------------------------------------------------
(* The rest of the system.                                                 *)

\* The stig-rules classifier reports a finding.
Report(c) ==
  /\ <<c, "fail">> \notin logs
  /\ logs' = logs \cup {<<c, "fail">>}
  /\ UNCHANGED <<archive, snapshots, evidence, course, fresh, collection, counters>>

\* The dashboard's remediate_control collects its tenant when the fix applied.
DashboardRemediate(t, c) ==
  /\ requests < MaxRequests /\ Idle("dashboard")
  /\ c \in Fixable /\ <<t, c>> \in Permits
  /\ requests' = requests + 1
  /\ \E outcome \in {"applied", "failed", "lost"} :
       /\ Leaves(c, outcome)
       /\ queue' = [queue EXCEPT !["dashboard"] = IF outcome = "applied" THEN {t} ELSE {}]
  /\ UNCHANGED <<archive, evidence, course, fresh, current, loaded, todo, missed, runs, faults>>

\* The dashboard's SCA scans, of the fleet or of a host, collect every tenant.
DashboardScan ==
  /\ requests < MaxRequests /\ Idle("dashboard")
  /\ requests' = requests + 1
  /\ queue' = [queue EXCEPT !["dashboard"] = Tenant]
  /\ UNCHANGED <<archive, trail, evidence, course, fresh, current, loaded, todo, graded,
                 missed, runs, faults>>

\* An operator scans one host: scan_and_record archives its results, ...
HostScan(h) ==
  /\ requests < MaxRequests /\ recording = None
  /\ requests' = requests + 1
  /\ \E d \in Days : d.scan[h] # None /\ scan' = [scan EXCEPT ![h] = d.scan[h]]
  /\ recording' = h
  /\ UNCHANGED <<manifest, trail, evidence, course, fresh, collection, runs, faults>>

\* ... and makes them the evidence of a tenant, whatever the other hosts show.  It
\* may raise, or be killed, before the last file.
RecordScan(t) ==
  /\ recording # None
  /\ recording' = None
  /\ \E written \in SUBSET HostMeasured(recording, t) :
       ScanFiles(t, written, "host", [c \in written |-> HostStatus(recording, c)])
  /\ UNCHANGED <<scan, manifest, trail, course, fresh, queue, current, loaded, todo, missed,
                 counters>>

Collect ==
  \E p \in Process :
    Load(p) \/ ReadSnapshots(p) \/ Write(p) \/ CollectFails(p) \/ WriteFails(p)

Next ==
  \/ Start \/ Collected \/ Scanned \/ LocalDone \/ Recollected \/ FleetDone \/ Score \/ Kill
  \/ \E t \in Tenant : CollectDay(t) \/ FleetTenant(t)
  \/ \E a \in attempts : Remediate(a)
  \/ Collect
  \/ \E c \in Findings : Report(c)
  \/ \E t \in Tenant, c \in Control : DashboardRemediate(t, c)
  \/ DashboardScan
  \/ \E h \in Host : HostScan(h)
  \/ \E t \in Tenant : RecordScan(t)

Spec == Init /\ [][Next]_vars

-----------------------------------------------------------------------------
\* The shape of the state.
TypeOK ==
  /\ scan \in [Host -> [Rule -> Result] \cup {None}]
  /\ recording \in Host \cup {None}
  /\ manifest \in [Host -> Tenant \cup {None}]
  /\ logs \subseteq Row /\ snapshots \subseteq Row
  /\ evidence \in [Tenant -> [Control -> File \cup {None}]]
  /\ phase \in {"idle", "collect", "scan", "local", "recollect", "fleet",
                "recollect_fleet", "score", "done"}
  /\ batch \subseteq Tenant /\ attempts \subseteq Attempt /\ applied \subseteq Attempt
  /\ raw \in [Tenant -> SUBSET Control] /\ errors \subseteq Tenant
  /\ report \in [ok: BOOLEAN, passes: [Tenant -> SUBSET Control]] \cup {None}
  /\ fresh \subseteq Tenant \X Control
  /\ queue \in [Process -> SUBSET Tenant] /\ current \in [Process -> Tenant \cup {None}]
  /\ loaded \in [Process -> SUBSET Row] /\ todo \in [Process -> SUBSET Control]
  /\ graded \in [Process -> Grading \cup {None}]
  /\ missed \subseteq Tenant
  /\ runs \in 0..MaxRuns /\ faults \in 0..MaxFaults /\ requests \in 0..MaxRequests

\* "Worst result across hosts": the collection of a day leaves no failure unshown
\* that the fleet pass finds on a host, whatever else of the hosts passed; and what it
\* shows as failed some host has failed, by a rule that a datastream of the day, not
\* always that host's, maps to the control.
FailHasHost ==
  [][\A t \in batch \ batch' : \A c \in Applicable[t] :
       LET now == evidence'[t][c]
       IN  phase = "scan" /\ phase' = "scan" =>
             /\ faults' = faults /\ (\E h \in Specs : c \in Failed(h, t))
                  => now # None /\ (now.status = "fail" \/ now.crossed)
             /\ now # evidence[t][c] /\ now.status = "fail" /\ ~now.crossed
                  => \E g, h \in Specs : \E r \in Rule :
                       c \in Refs[g][r] /\ scan[h][r] = "fail"]_vars

\* "audit PASS grades win over stale scan FAIL": a run that has applied a fix
\* reports its control as passed, in every tenant that it applies to and whose
\* collection did not raise, whatever the dashboard collected meanwhile; unless the
\* last write of the file has crossed the fix or another one, or was the scan of a host.
AppliedIsGraded ==
  [][phase # "done" /\ phase' = "done" /\ report'.ok =>
       \A a \in applied : \A t \in Tenant \ missed :
         a.control \in Applicable[t] =>
           \/ a.control \in report'.passes[t]
           \/ evidence[t][a.control].crossed
           \/ evidence[t][a.control].by = "host"]_vars

\* "so the dashboard trend stays real": a run that ends with ok has written the
\* evidence of every control it has scored, however many collections raised.
OkIsFresh ==
  [][phase # "done" /\ phase' = "done" /\ report'.ok =>
       \A t \in Tenant : \A c \in Applicable[t] : <<t, c>> \in fresh]_vars

\* A pass that rests on an applied fix is undone by no collection that graded the
\* control after the fix, be it one that read the logs before; only by the measurement
\* of a scan, by a grade from before the fix that is written after it, or by two
\* processes that write the file at once.
FixStands ==
  [][\A t \in Tenant : \A c \in Applicable[t] :
       /\ evidence[t][c] # None /\ evidence[t][c].status = "pass"
       /\ <<c, "ok">> \in snapshots
       => \/ evidence'[t][c].status = "pass" \/ evidence'[t][c].by \in {"scan", "host"}
          \/ evidence'[t][c].crossed]_vars

=============================================================================
