------------------------------ MODULE TaskConsole ------------------------------
(***************************************************************************)
(* services/soc-dashboard/server.py: the tools that the dashboard logs as  *)
(* tasks, composed with the C2 server they call (ManagerClient) and the    *)
(* task log.  Each task is one dashboard thread; the call it makes is the  *)
(* C2 thread of the same name.  The dashboard stops waiting for C2 after   *)
(* 15 seconds, C2 goes on; the dashboard may die between two steps.        *)
(***************************************************************************)
EXTENDS ManagerClient, TaskLog

\* _TASK_LOGGED_TOOLS, and fleet_status for the tools that only read from C2.
Logged == {"run_scan", "run_host_compliance_scan", "run_fleet_scan", "remediate_control"}
Kinds == Logged \cup {"fleet_status"}

VARIABLES
  dpc,    \* where each dashboard thread is
  kind,   \* the tool it runs
  ok,     \* what the tool came to: its result's "ok", or an exception
  log,    \* the task log
  fix,    \* history: what soc_stig_remediate reported
  unwritten  \* history: tasks whose last row could not be written

taskVars == <<dpc, kind, ok, log, fix, unwritten>>
vars == <<clientVars, taskVars>>

Init ==
  /\ ClientInit
  /\ dpc = [d \in Threads |-> "idle"] /\ kind = [d \in Threads |-> "run_scan"]
  /\ ok = [d \in Threads |-> "none"]
  /\ log = <<>> /\ fix = [d \in Threads |-> "none"]
  /\ unwritten = {}

DGoto(d, p) == dpc' = [dpc EXCEPT ![d] = p]

Return(d, outcome) ==
  /\ DGoto(d, "returned")
  /\ ok' = [ok EXCEPT ![d] = outcome]

\* The network, or the file system, fails the dashboard.
DFault(d) ==
  /\ Fault(d)
  /\ UNCHANGED <<token, expiry, manager, pc, call>>

-----------------------------------------------------------------------------
(* do_POST before the tool runs.  record_task is tried, its failure is     *)
(* swallowed.                                                              *)

Trigger(d, k) ==
  /\ dpc[d] = "idle"
  /\ DGoto(d, "started")
  /\ kind' = [kind EXCEPT ![d] = k]
  /\ \/ k \in Logged /\ log' = RecordTask(log, d, "running") /\ UNCHANGED clientVars
     \/ k \in Logged /\ DFault(d) /\ UNCHANGED log
     \/ k \notin Logged /\ UNCHANGED <<log, clientVars>>
  /\ UNCHANGED <<ok, fix, unwritten>>

-----------------------------------------------------------------------------
(* The tools.                                                              *)

\* agent_id, or control_id and tenant_id, are missing: a ValueError.
MissingArgument(d) ==
  /\ dpc[d] = "started" /\ kind[d] \in Logged \ {"run_fleet_scan"}
  /\ Return(d, "raised")
  /\ UNCHANGED <<clientVars, kind, log, fix, unwritten>>

\* GET /healthz.  Without mutations a remediation goes on if it is a dry run.
Gate(d) ==
  /\ dpc[d] = "started" /\ kind[d] \in {"run_host_compliance_scan", "remediate_control"}
  /\ \/ mutations /\ DGoto(d, "gated") /\ UNCHANGED ok
     \/ ~mutations /\ Return(d, "not_ok")
     \/ ~mutations /\ kind[d] = "remediate_control" /\ DGoto(d, "dry") /\ UNCHANGED ok
  /\ UNCHANGED <<clientVars, kind, log, fix, unwritten>>

\* C2 is unreachable, which reads as "mutations disabled", or its answer times
\* out, which is not caught.
GateFails(d) ==
  /\ dpc[d] = "started" /\ kind[d] \in {"run_host_compliance_scan", "remediate_control"}
  /\ DFault(d)
  /\ \/ Return(d, "not_ok") \/ Return(d, "raised")
     \/ kind[d] = "remediate_control" /\ DGoto(d, "dry") /\ UNCHANGED ok
  /\ UNCHANGED <<kind, log, fix, unwritten>>

CallsC2(d) ==
  \/ dpc[d] = "started" /\ kind[d] \notin {"run_host_compliance_scan", "remediate_control"}
  \/ dpc[d] = "gated" /\ kind[d] = "run_host_compliance_scan"

\* What a tool asks of C2, which does not list restart_fleet.
Sent(k) == IF k = "run_fleet_scan" THEN {"unlisted"}
           ELSE IF k = "fleet_status" THEN {"read"} ELSE {"scan", "malformed"}

\* POST /tools/run_scan, /tools/list_agents or /tools/restart_fleet.
PostC2(d) ==
  /\ CallsC2(d)
  /\ \E r \in Sent(kind[d]) : Call(d, r)
  /\ DGoto(d, "waiting")
  /\ UNCHANGED <<kind, ok, log, fix, unwritten>>

C2Unreachable(d) ==
  /\ CallsC2(d)
  /\ DFault(d)
  /\ Return(d, "not_ok")
  /\ UNCHANGED <<kind, log, fix, unwritten>>

\* Only 200 counts.  After it the compliance scan collects the evidence and
\* scores it: every exception there is a step of the result, whose ok stays.
ReceiveC2(d) ==
  /\ dpc[d] = "waiting" /\ pc[d] = "answered"
  /\ Return(d, IF result[d] = 200 THEN "ok" ELSE "not_ok")
  /\ UNCHANGED <<clientVars, kind, log, fix, unwritten>>

\* Seeded fault: the time-out is taken for a scan that was started.
GiveUpOptimistic(d) ==
  /\ dpc[d] = "waiting"
  /\ DFault(d)
  /\ Return(d, "ok")
  /\ UNCHANGED <<kind, log, fix, unwritten>>

\* urlopen's read times out or is cut off: not a URLError, so it is raised.
GiveUp(d) ==
  /\ dpc[d] = "waiting"
  /\ DFault(d)
  /\ Return(d, "raised")
  /\ UNCHANGED <<kind, log, fix, unwritten>>

\* soc_stig_remediate: the result is ok whatever the remediation reports; an
\* unknown control raises.
Remediate(d) ==
  /\ dpc[d] \in {"gated", "dry"} /\ kind[d] = "remediate_control"
  /\ \/ /\ fix' = [fix EXCEPT ![d] = "dry_run"]
        /\ Return(d, "ok")
     \/ /\ dpc[d] = "gated"
        /\ \E status \in {"applied", "refused", "failed"} : fix' = [fix EXCEPT ![d] = status]
        /\ Return(d, "ok")
     \/ Return(d, "raised") /\ UNCHANGED fix
  /\ UNCHANGED <<clientVars, kind, log, unwritten>>

-----------------------------------------------------------------------------
(* do_POST after the tool.                                                 *)

Outcome(d) == IF ok[d] = "ok" THEN "done" ELSE "failed"

\* Seeded fault: an exception is answered without a row.
FinishReturnedOnly(d) ==
  /\ dpc[d] = "returned"
  /\ DGoto(d, "responded")
  /\ \/ kind[d] \in Logged /\ ok[d] # "raised" /\ log' = RecordTask(log, d, Outcome(d))
        /\ UNCHANGED <<clientVars, unwritten>>
     \/ kind[d] \in Logged /\ DFault(d) /\ unwritten' = unwritten \cup {d} /\ UNCHANGED log
     \/ (kind[d] \notin Logged \/ ok[d] = "raised") /\ UNCHANGED <<log, clientVars, unwritten>>
  /\ UNCHANGED <<kind, ok, fix>>

\* Every way out of a logged tool ends in a row, then in the answer.
Finish(d) ==
  /\ dpc[d] = "returned"
  /\ DGoto(d, "responded")
  /\ \/ kind[d] \in Logged /\ log' = RecordTask(log, d, Outcome(d)) /\ UNCHANGED <<clientVars, unwritten>>
     \/ kind[d] \in Logged /\ DFault(d) /\ unwritten' = unwritten \cup {d} /\ UNCHANGED log
     \/ kind[d] \notin Logged /\ UNCHANGED <<log, clientVars, unwritten>>
  /\ UNCHANGED <<kind, ok, fix>>

\* The dashboard is killed: its threads end, their calls to C2 do not.
Die ==
  /\ \E d \in Threads : dpc[d] \notin {"idle", "responded", "killed"}
  /\ dpc' = [d \in Threads |-> IF dpc[d] \in {"idle", "responded"} THEN dpc[d] ELSE "killed"]
  /\ ok' = [d \in Threads |-> IF dpc[d] = "responded" THEN ok[d] ELSE "none"]
  /\ faults < MaxFaults /\ faults' = faults + 1
  /\ UNCHANGED <<token, expiry, manager, pc, call, hit, kind, log, fix, unwritten>>

-----------------------------------------------------------------------------
DStep(d) ==
  Gate(d) \/ PostC2(d) \/ ReceiveC2(d) \/ Remediate(d) \/ Finish(d)
DFaultStep(d) ==
  MissingArgument(d) \/ GateFails(d) \/ C2Unreachable(d) \/ GiveUp(d)
C2Step(d) == Step(d) /\ UNCHANGED taskVars
C2Other(d) == NetworkFault(d) /\ UNCHANGED taskVars

Next ==
  \/ \E d \in Threads :
       DStep(d) \/ DFaultStep(d) \/ C2Step(d) \/ C2Other(d) \/ \E k \in Kinds : Trigger(d, k)
  \/ (Revoke \/ Expire) /\ UNCHANGED taskVars
  \/ Die

Spec == Init /\ [][Next]_vars

-----------------------------------------------------------------------------
(* Properties.                                                             *)

DPlaces == {"idle", "started", "gated", "dry", "waiting", "returned", "responded", "killed"}
Fixes == {"none", "dry_run", "applied", "refused", "failed"}

\* The variables of both servers have their types.
TypeOK ==
  /\ ClientTypeOK
  /\ dpc \in [Threads -> DPlaces] /\ kind \in [Threads -> Kinds]
  /\ ok \in [Threads -> {"none", "ok", "not_ok", "raised"}]
  /\ log \in Seq([id : Threads, status : {"running", "done", "failed"}])
  /\ fix \in [Threads -> Fixes] /\ unwritten \subseteq Threads

Shown(d) == LoadTask(log, d)

\* What the task pane shows of a scan is what happened to its order: "done"
\* means that the manager took it, once, and "failed" that it did not unless a
\* fault of the network or the manager hid the answer.
RowTells == \A d \in Threads : kind[d] \in {"run_scan", "run_host_compliance_scan"} =>
  /\ Shown(d) = "done" => orders[d] = 1
  /\ Shown(d) = "failed" /\ d \notin hit => orders[d] = 0

\* "every mutating/compliance trigger gets a running + done/failed row": once a
\* task is answered it is shown as what its tool came to, and whatever failed
\* under way: a refusal, an exception, a call given up, its first row.  Only a
\* last row that could not be written leaves it as it was.
TaskSettles == \A d \in Threads :
  dpc[d] = "responded" /\ kind[d] \in Logged /\ d \notin unwritten => Shown(d) = Outcome(d)
=============================================================================
