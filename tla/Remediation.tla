----------------------------- MODULE Remediation -----------------------------
(***************************************************************************)
(* services/soc_stig_remediate.py and the grading of soc_evidence.py.  A   *)
(* run serves one remediate_control or check_control inside a process: the  *)
(* nightly pass, or the dashboard that stays up for weeks.  Runs overlap,  *)
(* may be killed anywhere, and share the hosts, the audit log, the         *)
(* remediation log and the snapshot directory; an operator edits the       *)
(* routing file of Routing meanwhile.  Everything happens on one evidence  *)
(* day.                                                                    *)
(***************************************************************************)
EXTENDS Routing, FiniteSets

CONSTANTS
  Run,           \* invocations of the tools; a run's action_id is its own name
  Process,       \* the processes they run in
  Host,
  Local,         \* the SOC host, where commands run without ssh
  Control,
  Fixable,       \* controls with automated = true and a shell fix
  Checkable,     \* controls whose check is a shell command
  SeverityOf,    \* the controls' severities in the catalogue
  Floor,         \* the 0.85 that is asked for where no tenant is known
  Compliant0,    \* the <<host, control>> pairs that comply before any run
  File,          \* the contents of the routing file that an operator may save
  File0,         \* the content at the start
  MaxEdits,      \* bound: edits of the file
  MaxRollbacks,  \* bound: calls of rollback_control
  Garbled,       \* what is left of a snapshot that two writers have mixed
  Asks           \* the argument records of the invocations

Ask == [tool: {"remediate"}, control: Control, host: Host,
        tenant: Tenant \cup {None}, confidence: 0..Top, dry: BOOLEAN]
         \cup [tool: {"check"}, control: Control, host: Host]

ASSUME ConstantsAssumption ==
  /\ Local \in Host /\ Fixable \subseteq Control /\ Checkable \subseteq Control
  /\ SeverityOf \in [Control -> Severity] /\ Floor \in 0..Top /\ None \notin Tenant
  /\ Asks \subseteq Ask /\ Compliant0 \subseteq Host \X Control
  /\ File0 \in File /\ MaxEdits \in Nat /\ MaxRollbacks \in Nat

\* Exit codes that matter: success, failure of the command, ssh or time lost.
RC == {"ok", "error", "lost"}

Snapshot == [kind: {"pre_remediation", "check_only"}, probe: RC \cup {None},
             apply: RC \cup {None}, rolled_back: BOOLEAN]
AuditRow == [run: Run, kind: {"applied", "refused", "rolled_back"}, rc: RC]
LogRow == [run: Run, status: {"applied", "failed", "dry_run", "rolled_back"}]
Status == {"applied", "failed", "refused", "manual_review", "dry_run", "checked"}
Configs == UNION {[T -> Policy] : T \in SUBSET Tenant}

ASSUME DistinctAssumption ==
  /\ None \notin Snapshot \cup Status \cup RC \cup Configs
  /\ Garbled \notin Snapshot \cup {None}
  /\ \A f \in File \ {Unreadable} : DOMAIN f.tenants \subseteq Tenant

VARIABLES
  compliant,   \* <<host, control>> pairs whose requirement holds on the host
  pc,          \* per run: idle, probe, apply, audit, amend, log, done, died
  ask,         \* per run: its arguments
  attempt,     \* per run: attempts of the fix command before this one
  rc,          \* per run: what the last attempt returned
  executed,    \* history, per run: how often the host executed the fix
  status,      \* per run: the status it returned
  copy,        \* per run: its own copy of its snapshot
  snapshot,    \* the snapshot directory: action_id -> record, Garbled or None
  tmp,         \* per action: whose the temporary file of its snapshot is
  audit,       \* the audit log's rows about remediations
  remlog,      \* the remediation log's rows
  rollback,    \* per action: what a rollback in progress has read and marked
  rollbacks,   \* calls of rollback_control so far
  file,        \* the content of the routing file
  config,      \* _CFG, per process: the config it has cached, or None
  where,       \* per run: the process it runs in
  seen,        \* history, per process: the contents of the file since it started
  basis,       \* history, per run: what its process had seen when it began
  edits        \* edits of the file so far

runVars == <<pc, ask, attempt, rc, status, where, basis, copy>>
trail == <<snapshot, audit, remlog>>
rolling == <<rollback, rollbacks, tmp>>
routing == <<file, config, seen, edits>>
vars == <<compliant, runVars, executed, trail, rolling, routing>>

-----------------------------------------------------------------------------
(* Grading: soc_evidence._collect_from_* and _derive_status.               *)

Of(r, c) == ask[r] # None /\ ask[r].control = c

\* A snapshot that does not parse is skipped.
Readable(r) == snapshot[r] \notin {None, Garbled}

\* A snapshot is graded by its apply_rc, without one by its pre_probe_rc,
\* which a check_only snapshot does not have.
SnapshotGrade(s) ==
  IF (IF s.apply # None THEN s.apply ELSE s.probe) = "ok" THEN "ok" ELSE "fail"

\* Seeded fault: an applied fix counts as a pass whatever it returned.
GradesByKind(c) ==
  {SnapshotGrade(snapshot[r]) : r \in {q \in Run : Readable(q) /\ Of(q, c)}}
    \cup {"ok" : row \in {a \in audit : a.kind = "applied" /\ Of(a.run, c)}}

Grades(c) ==
  {SnapshotGrade(snapshot[r]) : r \in {q \in Run : Readable(q) /\ Of(q, c)}}
    \cup {IF row.rc = "ok" THEN "ok" ELSE "fail" :
            row \in {a \in audit : a.kind = "applied" /\ Of(a.run, c)}}

\* Any pass-grade item wins over the others.
Derived(c) ==
  IF "ok" \in Grades(c) THEN "pass"
  ELSE IF "fail" \in Grades(c) THEN "fail" ELSE "manual_review"

-----------------------------------------------------------------------------
Init ==
  /\ compliant = Compliant0
  /\ pc = [r \in Run |-> "idle"] /\ ask = [r \in Run |-> None]
  /\ attempt = [r \in Run |-> 0] /\ rc = [r \in Run |-> None]
  /\ executed = [r \in Run |-> 0] /\ status = [r \in Run |-> None]
  /\ copy = [r \in Run |-> None] /\ snapshot = [r \in Run |-> None]
  /\ audit = {} /\ remlog = {}
  /\ rollback = [r \in Run |-> None] /\ rollbacks = 0 /\ tmp = [r \in Run |-> "own"]
  /\ file = File0 /\ edits = 0
  /\ config = [p \in Process |-> None] /\ seen = [p \in Process |-> {File0}]
  /\ where = [r \in Run |-> None] /\ basis = [r \in Run |-> {}]

Goto(r, label) == pc' = [pc EXCEPT ![r] = label]

Return(r, s) == Goto(r, "done") /\ status' = [status EXCEPT ![r] = s]

\* get_config: what is cached, else what the file gives now; a file that does
\* not load is tried again by the next call.
GetConfig(p) == IF config[p] # None THEN config[p] ELSE Load(file)

\* _tenant_or_default: the config is looked up only where a tenant is named.
TenantOrDefault(p, tenant) == IF tenant = None THEN None ELSE GetConfig(p)

\* Seeded fault: a tenant that the config does not know passes the gate.
RefusesIfKnown(cfg, a) ==
  Knows(cfg, a.tenant)
    /\ ~CanAutoRemediate(cfg[a.tenant], a.confidence, SeverityOf[a.control])

\* The gate: the tenant's policy, or the floor where no tenant is named, and
\* where the one that is named cannot be looked up.
Refuses(cfg, a) ==
  IF Knows(cfg, a.tenant)
    THEN ~CanAutoRemediate(cfg[a.tenant], a.confidence, SeverityOf[a.control])
    ELSE a.confidence < Floor

Started(r, p, a) ==
  /\ pc[r] = "idle"
  /\ ask' = [ask EXCEPT ![r] = a] /\ where' = [where EXCEPT ![r] = p]
  /\ basis' = [basis EXCEPT ![r] = seen[p]]

\* _remote_ctx raises where neither the manager nor the indexer lists the host.
Unresolved(r, p, a) ==
  /\ a.host # Local /\ Started(r, p, a)
  /\ Goto(r, "died")
  /\ UNCHANGED <<compliant, attempt, rc, executed, status, copy, trail, rolling, routing>>

\* remediate_control up to its gates.  Only a refusal by policy is audited.
BeginRemediate(r, p, a) ==
  /\ a.tool = "remediate" /\ Started(r, p, a)
  /\ \/ /\ a.control \notin Fixable
        /\ Return(r, "manual_review")
        /\ UNCHANGED <<audit, config>>
     \/ /\ a.control \in Fixable
        /\ LET cfg == TenantOrDefault(p, a.tenant)
           IN  /\ config' = IF cfg = None THEN config ELSE [config EXCEPT ![p] = cfg]
               /\ IF Refuses(cfg, a)
                    THEN /\ Return(r, "refused")
                         /\ audit' = IF Knows(cfg, a.tenant)
                              THEN audit \cup {[run |-> r, kind |-> "refused", rc |-> "ok"]}
                              ELSE audit
                    ELSE Goto(r, "probe") /\ UNCHANGED <<audit, status>>
  /\ UNCHANGED <<compliant, attempt, rc, executed, copy, snapshot, remlog, rolling,
                 file, seen, edits>>

\* What running the check gives; a timeout or a lost connection is an error too,
\* which no reader tells apart.
CheckResult(a) ==
  {"error"} \cup (IF <<a.host, a.control>> \in compliant THEN {"ok"} ELSE {})

\* _probe: 0 where the check is prose, and where SOC_REMEDIATION_DRY_RUN makes
\* the run dry; a dry run by argument runs the check.
ProbeResult(a) ==
  IF a.control \notin Checkable THEN {"ok"}
  ELSE IF a.dry THEN CheckResult(a) \cup {"ok"} ELSE CheckResult(a)

Shot(kind, probe, apply) ==
  [kind |-> kind, probe |-> probe, apply |-> apply, rolled_back |-> FALSE]

\* Seeded fault: the run goes on to the fix and snapshots afterwards only.
ProbeUnsaved(r) ==
  /\ pc[r] = "probe"
  /\ \E p \in ProbeResult(ask[r]) :
       copy' = [copy EXCEPT ![r] = Shot("pre_remediation", p, None)]
  /\ Goto(r, IF ask[r].dry THEN "log" ELSE "apply")
  /\ UNCHANGED <<compliant, ask, where, basis, attempt, rc, executed, status, trail, rolling,
                 routing>>

\* "Snapshot first": the state before the change is written down.
Probe(r) ==
  /\ pc[r] = "probe"
  /\ \E p \in ProbeResult(ask[r]) :
       /\ copy' = [copy EXCEPT ![r] = Shot("pre_remediation", p, None)]
       /\ snapshot' = [snapshot EXCEPT ![r] = Shot("pre_remediation", p, None)]
  /\ Goto(r, IF ask[r].dry THEN "log" ELSE "apply")
  /\ UNCHANGED <<compliant, ask, where, basis, attempt, rc, executed, status, audit, remlog,
                 rolling, routing>>

\* One retry, remote only, and only of rc 255 (connection) and 124 (timeout).
Retries(r, result) ==
  result = "lost" /\ ask[r].host # Local /\ attempt[r] = 0

\* _run_on runs the fix.  Whoever loses the answer cannot tell whether the
\* host executed it, and a fix that returns 0 need not have taken effect.
Apply(r) ==
  /\ pc[r] = "apply"
  /\ \E result \in RC, ran, effective \in BOOLEAN :
       /\ result = "ok" => ran
       /\ effective => ran
       /\ compliant' = IF effective THEN compliant \cup {<<ask[r].host, ask[r].control>>}
                       ELSE compliant
       /\ executed' = [executed EXCEPT ![r] = IF ran THEN @ + 1 ELSE @]
       /\ rc' = [rc EXCEPT ![r] = result]
       /\ IF Retries(r, result)
            THEN attempt' = [attempt EXCEPT ![r] = 1] /\ UNCHANGED pc
            ELSE attempt' = [attempt EXCEPT ![r] = 0] /\ Goto(r, "audit")
  /\ UNCHANGED <<ask, where, basis, copy, status, trail, rolling, routing>>

\* Seeded fault: the row says ok whatever the fix returned.
AuditBlind(r) ==
  /\ pc[r] = "audit"
  /\ audit' = audit \cup {[run |-> r, kind |-> "applied", rc |-> "ok"]}
  /\ Goto(r, "amend")
  /\ UNCHANGED <<compliant, ask, where, basis, copy, attempt, rc, executed, status, snapshot,
                 remlog, rolling, routing>>

\* The audit row of the fix.
Audit(r) ==
  /\ pc[r] = "audit"
  /\ audit' = audit \cup {[run |-> r, kind |-> "applied", rc |-> rc[r]]}
  /\ Goto(r, "amend")
  /\ UNCHANGED <<compliant, ask, where, basis, copy, attempt, rc, executed, status, snapshot,
                 remlog, rolling, routing>>

(* _write_snapshot writes <action_id>.json.tmp and moves it into place.  A *)
(* run and a rollback of its action use the same name: "own" is a          *)
(* temporary file with one writer at a time, "shared" one that both have   *)
(* open, "moved" one that the first of them has moved away, and "past" one *)
(* that has one writer again.                                              *)

Amending(r) == pc[r] = "amending"
Marking(r) == rollback[r] # None /\ rollback[r].rolled_back

\* open(tmp, "w") by one of them; other: the other one has it open.
Opened(r, other) ==
  tmp' = [tmp EXCEPT ![r] = IF other THEN "shared" ELSE IF @ = "own" THEN "own" ELSE "past"]

\* What the first of two moves: either content, or the two over each other.
Mixed(mine, theirs) == {mine, theirs, Garbled}

\* os.replace of a temporary file that is there.
Replaced(r, mine, theirs, other) ==
  /\ tmp[r] # "moved"
  /\ IF tmp[r] = "shared"
       THEN /\ \E left \in Mixed(mine, theirs) : snapshot' = [snapshot EXCEPT ![r] = left]
            /\ tmp' = [tmp EXCEPT ![r] = IF other THEN "moved" ELSE "past"]
       ELSE snapshot' = [snapshot EXCEPT ![r] = mine] /\ UNCHANGED tmp

\* What it writes from then on lands in the snapshot, and its os.replace raises.
ReplaceRaises(r, mine) ==
  /\ tmp[r] = "moved" /\ tmp' = [tmp EXCEPT ![r] = "past"]
  /\ \E left \in Mixed(mine, snapshot[r]) : snapshot' = [snapshot EXCEPT ![r] = left]

\* The check is run again and the run's own copy of the snapshot is completed.
Reprobe(r) ==
  /\ pc[r] = "amend"
  /\ copy' = [copy EXCEPT ![r].apply = rc[r]]
  /\ Opened(r, Marking(r))
  /\ Goto(r, "amending")
  /\ UNCHANGED <<compliant, ask, where, basis, attempt, rc, executed, status, trail, rollback,
                 rollbacks, routing>>

\* The copy replaces the file.
Amend(r) ==
  /\ Amending(r)
  /\ Replaced(r, copy[r], rollback[r], Marking(r))
  /\ Goto(r, "log")
  /\ UNCHANGED <<compliant, ask, where, basis, copy, attempt, rc, executed, status, audit, remlog,
                 rollback, rollbacks, routing>>

AmendRaises(r) ==
  /\ Amending(r)
  /\ ReplaceRaises(r, copy[r])
  /\ Goto(r, "died")
  /\ UNCHANGED <<compliant, ask, where, basis, copy, attempt, rc, executed, status, audit, remlog,
                 rollback, rollbacks, routing>>

Verdict(r) ==
  IF ask[r].dry THEN "dry_run" ELSE IF rc[r] = "ok" THEN "applied" ELSE "failed"

\* The row of the remediation log, and the answer.
Log(r) ==
  /\ pc[r] = "log"
  /\ remlog' = remlog \cup {[run |-> r, status |-> Verdict(r)]}
  /\ Return(r, Verdict(r))
  /\ UNCHANGED <<compliant, ask, where, basis, copy, attempt, rc, executed, snapshot, audit,
                 rolling, routing>>

\* check_control: a check that is prose is left to people; output, if there is
\* any, is kept in a check_only snapshot.
CheckControl(r, p, a) ==
  /\ a.tool = "check" /\ Started(r, p, a)
  /\ Return(r, IF a.control \in Checkable THEN "checked" ELSE "manual_review")
  /\ snapshot' \in {snapshot} \cup
       (IF a.control \in Checkable
          THEN {[snapshot EXCEPT ![r] = Shot("check_only", None, None)]} ELSE {})
  /\ UNCHANGED <<compliant, attempt, rc, executed, copy, audit, remlog, rolling, routing>>

\* A write to one of the logs or snapshots raises, or the process is killed:
\* nothing is cleaned up.
Die(r) ==
  /\ pc[r] \notin {"idle", "done", "died"}
  /\ Goto(r, "died")
  /\ UNCHANGED <<compliant, ask, where, basis, copy, attempt, rc, executed, status, trail,
                 rolling, routing>>

\* rollback_control reads the snapshot of an action that its caller has learnt
\* of from the answer or from one of the logs.
RollbackRead(r) ==
  /\ rollbacks < MaxRollbacks /\ rollbacks' = rollbacks + 1
  /\ rollback[r] = None
  /\ \/ \E row \in audit : row.run = r /\ row.kind = "applied"
     \/ \E row \in remlog : row.run = r
     \/ status[r] # None
  /\ Readable(r) /\ ~snapshot[r].rolled_back
  /\ rollback' = [rollback EXCEPT ![r] = snapshot[r]]
  /\ UNCHANGED <<compliant, runVars, executed, trail, tmp, routing>>

\* It marks its copy and opens the temporary file.
RollbackOpen(r) ==
  /\ rollback[r] # None /\ ~rollback[r].rolled_back
  /\ rollback' = [rollback EXCEPT ![r].rolled_back = TRUE]
  /\ Opened(r, Amending(r))
  /\ UNCHANGED <<compliant, runVars, executed, trail, rollbacks, routing>>

\* It puts the copy back, and logs and audits the intent, unless it is killed
\* between these writes; the host is not touched.
RollbackWrite(r) ==
  /\ Marking(r)
  /\ Replaced(r, rollback[r], copy[r], Amending(r))
  /\ \E logs \in BOOLEAN, audits \in BOOLEAN :
       /\ audits => logs
       /\ remlog' = IF logs THEN remlog \cup {[run |-> r, status |-> "rolled_back"]}
                    ELSE remlog
       /\ audit' = IF audits
                     THEN audit \cup {[run |-> r, kind |-> "rolled_back", rc |-> "ok"]}
                     ELSE audit
  /\ rollback' = [rollback EXCEPT ![r] = None]
  /\ UNCHANGED <<compliant, runVars, executed, rollbacks, routing>>

RollbackRaises(r) ==
  /\ Marking(r)
  /\ ReplaceRaises(r, rollback[r])
  /\ rollback' = [rollback EXCEPT ![r] = None]
  /\ UNCHANGED <<compliant, runVars, executed, audit, remlog, rollbacks, routing>>

\* The file and the cache are read when a run begins: what happens to them
\* after the last run has begun is left out.
Ahead == \E r \in Run : pc[r] = "idle"

\* The operator saves another content of the routing file.
EditRouting(f) ==
  /\ Ahead
  /\ edits < MaxEdits /\ edits' = edits + 1
  /\ f # file /\ file' = f
  /\ seen' = [p \in Process |-> seen[p] \cup {f}]
  /\ UNCHANGED <<compliant, runVars, executed, trail, rolling, config>>

\* A process without runs ends and another one takes its place: a nightly pass,
\* a restart of the dashboard.  Nothing else ever empties the cache.
Restart(p) ==
  /\ Ahead
  /\ \A r \in Run : where[r] = p => pc[r] \in {"done", "died"}
  /\ config' = [config EXCEPT ![p] = None]
  /\ seen' = [seen EXCEPT ![p] = {file}]
  /\ UNCHANGED <<compliant, runVars, executed, trail, rolling, file, edits>>

Step(r) ==
  \/ Probe(r) \/ Apply(r) \/ Audit(r) \/ Reprobe(r) \/ Amend(r) \/ AmendRaises(r)
  \/ Log(r) \/ Die(r)

Rollback(r) == RollbackRead(r) \/ RollbackOpen(r) \/ RollbackWrite(r) \/ RollbackRaises(r)

Next ==
  \/ \E r \in Run, p \in Process, a \in Asks :
       Unresolved(r, p, a) \/ BeginRemediate(r, p, a) \/ CheckControl(r, p, a)
  \/ \E f \in File : EditRouting(f)
  \/ \E p \in Process : Restart(p)
  \/ \E r \in Run : Step(r) \/ Rollback(r)

Spec == Init /\ [][Next]_vars

-----------------------------------------------------------------------------
Place == {"idle", "probe", "apply", "audit", "amend", "amending", "log", "done", "died"}

TypeOK ==
  /\ compliant \subseteq Host \X Control
  /\ pc \in [Run -> Place]
  /\ ask \in [Run -> Ask \cup {None}]
  /\ attempt \in [Run -> 0..1] /\ rc \in [Run -> RC \cup {None}]
  /\ executed \in [Run -> Nat] /\ status \in [Run -> Status \cup {None}]
  /\ copy \in [Run -> Snapshot \cup {None}]
  /\ snapshot \in [Run -> Snapshot \cup {None, Garbled}]
  /\ tmp \in [Run -> {"own", "shared", "moved", "past"}]
  /\ audit \subseteq AuditRow /\ remlog \subseteq LogRow
  /\ rollback \in [Run -> Snapshot \cup {None}] /\ rollbacks \in 0..MaxRollbacks
  /\ file \in File /\ edits \in 0..MaxEdits
  /\ config \in [Process -> Configs \cup {None}]
  /\ where \in [Run -> Process \cup {None}]
  /\ seen \in [Process -> SUBSET File] /\ basis \in [Run -> SUBSET File]

\* "Snapshot first. Before any change": wherever a run is interrupted, a fix
\* that a host has executed has its snapshot on disk, and one that can be read
\* unless the run and a rollback of it have written the temporary file together.
SnapshotFirst ==
  \A r \in Run : executed[r] > 0 => snapshot[r] # None /\ (tmp[r] = "own" => Readable(r))

\* What a content of the routing file says of an ask, read leaf by leaf.
Permits(f, a) ==
  IF ~Loadable(f) \/ a.tenant = None \/ a.tenant \notin DOMAIN f.tenants
    THEN a.confidence >= Floor
    ELSE LET own == Block(f, a.tenant)
         IN  /\ "auto_remediate" \in Leaf(own, "actions", {})
             /\ SeverityOf[a.control] \in Leaf(own, "severities", {})
             /\ own["threshold"] <= a.confidence

\* A host executes a fix only where a content that the routing file has had
\* between the start of the process and that of the run permits it, whatever
\* was saved, cached or broken in between, and never in a dry run; at most
\* twice, and twice only over ssh.
Gated ==
  \A r \in Run : executed[r] > 0 =>
    /\ ask[r].tool = "remediate" /\ ask[r].control \in Fixable /\ ~ask[r].dry
    /\ \E f \in basis[r] : Permits(f, ask[r])
    /\ executed[r] <= IF ask[r].host = Local THEN 1 ELSE 2

\* list_remediations; the row of a rollback names no tenant.
ListRemediations(tenant, s) ==
  {row \in remlog :
     /\ tenant \in {None, IF row.status = "rolled_back" THEN None ELSE ask[row.run].tenant}
     /\ s \in {None, row.status}}

\* get_remediation: a row of the action with its snapshot, or nothing.
GetRemediation(r) ==
  {[row |-> row, snapshot |-> IF Readable(r) THEN snapshot[r] ELSE None] :
     row \in {m \in remlog : m.run = r}}

\* What a run answered agrees with both logs and with what the read tools show
\* of it, whoever rolled back, collected or remediated meanwhile: "applied"
\* exactly when the audit row grades ok and the snapshot, if amended, says so;
\* only one that two writers have mixed is not shown.
TrailAgrees ==
  \A r \in Run : status[r] \in {"applied", "failed"} =>
    /\ \E row \in ListRemediations(ask[r].tenant, status[r]) : row.run = r
    /\ \E shown \in GetRemediation(r) :
         /\ shown.snapshot = None => tmp[r] # "own"
         /\ shown.snapshot # None /\ shown.snapshot.apply # None =>
              (shown.snapshot.apply = "ok" <=> status[r] = "applied")
    /\ \E row \in audit : row.run = r /\ row.kind = "applied"
    /\ \A row \in audit : row.run = r /\ row.kind = "applied" =>
         (row.rc = "ok" <=> status[r] = "applied")
    /\ status[r] = "applied" => executed[r] > 0

\* A control for which every run that left anything behind has ended, failed,
\* and was not rolled back is graded fail, and never by the kind of its rows.
FailureShows ==
  \A c \in Control :
    LET traced == {r \in Run : Of(r, c) /\ snapshot[r] # None}
    IN  (/\ traced # {}
         /\ \A r \in traced : status[r] = "failed" /\ rollback[r] = None
                              /\ (Readable(r) => ~snapshot[r].rolled_back))
        => Derived(c) = "fail"
=============================================================================
