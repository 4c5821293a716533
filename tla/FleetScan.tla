------------------------------- MODULE FleetScan -------------------------------
(***************************************************************************)
(* services/scanner/soc_scanner.py: a run of the scanner evaluates its     *)
(* hosts in parallel threads over ssh, as root where sudo allows it, and   *)
(* writes their results into one day's evidence; another process may       *)
(* collect the day's result files at the same time.  A host, the network   *)
(* or the run itself may fail at every step.  One tenant, one day.         *)
(***************************************************************************)
EXTENDS Integers, FiniteSets

CONSTANTS
  Host,
  Rule,        \* the rules of the profile
  Control,
  RefOf,       \* Rule -> the applicable control that its reference gives
  Registered,  \* hosts that the manager lists with their platform
  Extra,       \* hosts that SOC_FLEET_EXTRA gives with a platform
  RootOnly,    \* rules whose check reads what root alone can read
  Ignored,     \* <<host, rule>> pairs of ignore_list.yml
  None,
  Torn,        \* a results file that is empty, or cut off
  MaxRuns,     \* bound: runs of the scanner, and collections of the day
  MaxFaults    \* bound: steps that fail

ASSUME ScanAssumption ==
  /\ RefOf \in [Rule -> Control]
  /\ Registered \subseteq Host /\ Extra \subseteq Host
  /\ RootOnly \subseteq Rule /\ Ignored \subseteq Host \X Rule
  /\ None \notin [Rule -> {"pass", "fail", "notselected"}] /\ Torn # None
  /\ Torn \notin [Rule -> {"pass", "fail", "notselected"}]
  /\ MaxRuns \in Nat /\ MaxFaults \in Nat

\* results-<host>.xml and results-<host>-pre.xml of the day.
File == Host \X {"now", "pre"}
Writer == {"run", "collect"}

VARIABLES
  failing,   \* host -> the rules that it violates
  file,      \* the day's results files: their rows, None or Torn
  evidence,  \* control -> its evidence file of the day
  mode,      \* --fleet or --host
  remediate, \* --remediate
  rpc,       \* where the run is
  w,         \* where its thread for each host is
  res,       \* what scan_host came to
  remote,    \* host -> the rows of its last evaluation, still in its tmp
  tailored,  \* host -> does its scan have the tailoring
  untailored,\* history: hosts that were scanned without it
  read,      \* writer -> the files that it read, with their rows
  left,      \* writer -> controls that it has still to write
  todo,      \* files that the collection has still to read
  cpc,       \* where the collection is
  task,      \* the row of the last run in the task log
  runs, faults

disk == <<file, evidence>>
tailoring == <<tailored, untailored>>
worker == <<w, res, remote, tailoring>>
collector == <<cpc, todo>>
vars == <<failing, disk, mode, remediate, rpc, worker, read, left, collector, task,
          runs, faults>>

Fault == faults < MaxFaults /\ faults' = faults + 1

-----------------------------------------------------------------------------
(* Grading.                                                                *)

\* Seeded fault: the command of the plain user scan lacks the tailoring.
EvalUntailored(h, root) == [r \in Rule |->
  IF root /\ tailored[h] /\ <<h, r>> \in Ignored THEN "notselected"
  ELSE IF r \in failing[h] \/ (~root /\ r \in RootOnly) THEN "fail" ELSE "pass"]

\* An evaluation: rules that the tailoring excludes are notselected, and without
\* root the checks that need it fail.
Eval(h, root) == [r \in Rule |->
  IF tailored[h] /\ <<h, r>> \in Ignored THEN "notselected"
  ELSE IF r \in failing[h] \/ (~root /\ r \in RootOnly) THEN "fail" ELSE "pass"]

Readable(f) == file[f] \notin {None, Torn}

\* Seeded fault: the results of the last host stand for all of them.
LastWins(rd, r) ==
  LET n == CHOOSE n \in DOMAIN rd : TRUE IN
  IF rd[n][r] \in {"pass", "fail"} THEN rd[n][r] ELSE "dropped"

\* merge_results: the worst result of a rule over the files that were read.
Merge(rd, r) ==
  LET seen == {rd[n][r] : n \in DOMAIN rd}
  IN  IF "fail" \in seen THEN "fail" ELSE IF seen = {"pass"} THEN "pass" ELSE "dropped"

\* _control_rollup: fail if a rule fails, else pass if one passes.
Rollup(rd, c) ==
  LET seen == {Merge(rd, r) : r \in {q \in Rule : RefOf[q] = c}}
  IN  IF "fail" \in seen THEN "fail" ELSE IF "pass" \in seen THEN "pass"
      ELSE "manual_review"

Violates(rows, c) == \E r \in Rule : RefOf[r] = c /\ rows[r] = "fail"

\* The controls that a writer has rows for: rules dropped in the merge give
\* none, but the rows of a single host are not merged.
Writes(p, rd) == {c \in Control : \E r \in Rule : RefOf[r] = c /\
  (Merge(rd, r) # "dropped" \/ (p = "run" /\ mode = "host"))}

NoFiles == [f \in {} |-> None]

\* The process has ended: what its threads knew is gone.
Forget ==
  /\ mode' = "fleet" /\ remediate' = FALSE
  /\ w' = [h \in Host |-> "idle"] /\ res' = [h \in Host |-> "none"]
  /\ remote' = [h \in Host |-> None] /\ tailored' = [h \in Host |-> TRUE]
  /\ UNCHANGED untailored
  /\ read' = [read EXCEPT !["run"] = NoFiles] /\ left' = [left EXCEPT !["run"] = {}]

-----------------------------------------------------------------------------
Init ==
  /\ failing \in [Host -> SUBSET Rule]
  /\ file = [f \in File |-> None]
  /\ evidence = [c \in Control |-> [status |-> "none", by |-> "none"]]
  /\ mode = "fleet" /\ remediate = FALSE /\ rpc = "idle"
  /\ w = [h \in Host |-> "idle"] /\ res = [h \in Host |-> "none"]
  /\ remote = [h \in Host |-> None]
  /\ tailored = [h \in Host |-> TRUE] /\ untailored = {}
  /\ read = [p \in Writer |-> NoFiles] /\ left = [p \in Writer |-> {}]
  /\ cpc = "idle" /\ todo = {} /\ task = "none"
  /\ runs = 0 /\ faults = 0

\* fleet_agents: the manager's list, or the indexer's, with the configured
\* extras over it.  If neither answers, only the extras have a platform.
FleetAgents(answered) == Extra \cup (IF answered THEN Registered ELSE {})

\* main and _tasklog_run: --fleet, or one --host of the fleet.
StartRun ==
  /\ rpc = "idle" /\ runs < MaxRuns /\ runs' = runs + 1
  /\ \E m \in {"fleet", "host"}, answered \in BOOLEAN, fix \in BOOLEAN :
       \E targets \in IF m = "fleet" THEN {FleetAgents(answered)}
                      ELSE {{h} : h \in FleetAgents(answered)} :
         /\ targets # {}
         /\ mode' = m /\ remediate' = fix
         /\ w' = [h \in Host |-> IF h \in targets THEN "start" ELSE "idle"]
  /\ res' = [h \in Host |-> "none"]
  /\ task' = "running"
  /\ rpc' = "scanning"
  /\ UNCHANGED <<failing, disk, remote, tailoring, read, left, collector, faults>>

-----------------------------------------------------------------------------
(* scan_host, in the thread of host h.                                     *)

Thread(h) ==
  /\ rpc = "scanning"
  /\ UNCHANGED <<evidence, mode, remediate, rpc, read, left, collector, task, runs>>

\* What the thread keeps of the ignore list.
Untouched == UNCHANGED tailoring

WGoto(h, p) == w' = [w EXCEPT ![h] = p]
Done(h, outcome) ==
  /\ WGoto(h, "done")
  /\ remote' = [remote EXCEPT ![h] = None]
  /\ res' = [res EXCEPT ![h] = outcome]
Store(f, rows) == file' = [file EXCEPT ![f] = rows]

\* load_ignore_list fails open: a list that cannot be read, which is edited
\* while scans run, excludes nothing.
LoadIgnoreList(h) ==
  /\ Thread(h) /\ w[h] = "start" /\ WGoto(h, "tailored")
  /\ \/ Untouched /\ UNCHANGED faults
     \/ /\ Fault
        /\ tailored' = [tailored EXCEPT ![h] = FALSE]
        /\ untailored' = untailored \cup {h}
  /\ UNCHANGED <<failing, file, res, remote>>

\* The sudo probe decides the mode.
Probe(h) ==
  /\ Thread(h) /\ w[h] = "tailored" /\ Untouched
  /\ WGoto(h, "root") \/ WGoto(h, "user")
  /\ UNCHANGED <<failing, file, res, remote, faults>>

\* No profile or datastream; a push, launch or command fails, or the evaluation
\* outlasts SCAN_TIMEOUT: not ok, or an exception.  The files are untouched.
ScanFails(h) ==
  /\ Thread(h) /\ w[h] \in {"start", "tailored", "root", "user"} /\ Fault /\ Untouched
  /\ Done(h, "not_ok") \/ Done(h, "error")
  /\ UNCHANGED <<failing, file>>

\* The evaluation as root ends in the remote tmp; sudo may be denied there.
RootEval(h) ==
  /\ Thread(h) /\ w[h] = "root" /\ Untouched
  /\ \/ remote' = [remote EXCEPT ![h] = Eval(h, TRUE)] /\ WGoto(h, "fetch")
     \/ WGoto(h, "user") /\ UNCHANGED remote
  /\ UNCHANGED <<failing, file, res, faults>>

\* The local file is opened, and so emptied, before the remote one is read.
OpenResults(h) ==
  /\ Thread(h) /\ w[h] \in {"fetch", "fetch_post"} /\ Untouched
  /\ Store(<<h, "now">>, Torn)
  /\ WGoto(h, IF w[h] = "fetch" THEN "fetching" ELSE "fetching_post")
  /\ UNCHANGED <<failing, res, remote, faults>>

\* A return code of oscap that is neither success nor findings makes the scan
\* not ok, unless a remediation follows.
FetchResults(h) ==
  /\ Thread(h) /\ w[h] = "fetching" /\ Untouched
  /\ Store(<<h, "now">>, remote[h])
  /\ \/ remediate /\ WGoto(h, "fetch_pre") /\ UNCHANGED <<res, remote, faults>>
     \/ ~remediate /\ Done(h, "ok") /\ UNCHANGED faults
     \/ ~remediate /\ Done(h, "not_ok") /\ Fault
  /\ UNCHANGED failing

\* The fetch times out and raises; or cat fails, which is seen only after the
\* other files have been fetched.
FetchFails(h) ==
  /\ Thread(h) /\ w[h] = "fetching" /\ Fault /\ Untouched
  /\ \/ Done(h, "error") /\ UNCHANGED file
     \/ /\ Done(h, "not_ok")
        /\ IF remediate THEN \E rows \in {Torn, remote[h]} : Store(<<h, "pre">>, rows)
           ELSE UNCHANGED file
  /\ UNCHANGED failing

\* The copy kept as the audit trail of a remediation; its fetch is not checked.
FetchPre(h) ==
  /\ Thread(h) /\ w[h] = "fetch_pre" /\ Untouched
  /\ \/ Store(<<h, "pre">>, remote[h]) /\ UNCHANGED faults
     \/ Store(<<h, "pre">>, Torn) /\ Fault
  /\ WGoto(h, "remediate")
  /\ UNCHANGED <<failing, res, remote>>

\* Seeded fault: every rule of the datastream that the host violates is fixed.
OscapRemediateAll(h) ==
  /\ Thread(h) /\ w[h] = "remediate" /\ Untouched
  /\ \E fixed \in SUBSET failing[h] : failing' = [failing EXCEPT ![h] = @ \ fixed]
  /\ \/ WGoto(h, "post_eval") /\ UNCHANGED <<res, remote, faults>>
     \/ Fault /\ \E outcome \in {"ok", "not_ok", "error"} : Done(h, outcome)
  /\ UNCHANGED file

\* oscap xccdf remediate runs the fixes of rules that failed in the results; it
\* may do so for some and then outlast its timeout, or exit with an error, after
\* which the first results stay the canonical ones and the scan is ok.
OscapRemediate(h) ==
  /\ Thread(h) /\ w[h] = "remediate" /\ Untouched
  /\ \E fixed \in SUBSET {r \in Rule : remote[h][r] = "fail"} :
       failing' = [failing EXCEPT ![h] = @ \ fixed]
  /\ \/ WGoto(h, "post_eval") /\ UNCHANGED <<res, remote, faults>>
     \/ Fault /\ \E outcome \in {"ok", "not_ok", "error"} : Done(h, outcome)
  /\ UNCHANGED file

\* The second evaluation; if it times out, or ssh does, the first results stay.
PostEval(h) ==
  /\ Thread(h) /\ w[h] = "post_eval" /\ Untouched
  /\ \/ /\ remote' = [remote EXCEPT ![h] = Eval(h, TRUE)]
        /\ WGoto(h, "fetch_post") /\ UNCHANGED <<res, faults>>
     \/ Fault /\ (Done(h, "ok") \/ Done(h, "error"))
  /\ UNCHANGED <<failing, file>>

\* The return code of this fetch is not looked at, the one of oscap is.
FetchPost(h) ==
  /\ Thread(h) /\ w[h] = "fetching_post" /\ Untouched
  /\ \/ Store(<<h, "now">>, remote[h]) /\ Done(h, "ok") /\ UNCHANGED faults
     \/ Store(<<h, "now">>, remote[h]) /\ Done(h, "not_ok") /\ Fault
     \/ (Done(h, "ok") \/ Done(h, "error")) /\ Fault /\ UNCHANGED file
  /\ UNCHANGED failing

\* oscap-ssh writes the results at its end.  Return code 1 counts as findings
\* even if it comes without results: an earlier file then stands for them.
UserEval(h) ==
  /\ Thread(h) /\ w[h] = "user" /\ Untouched
  /\ \/ Store(<<h, "now">>, Eval(h, FALSE)) /\ UNCHANGED faults
     \/ Fault /\ UNCHANGED file
  /\ Done(h, "ok")
  /\ UNCHANGED failing

-----------------------------------------------------------------------------
(* scan_fleet and scan_and_record after the scans.                         *)

\* merge_results and write_evidence read the files of the scans that were ok;
\* files that cannot be parsed are skipped.
RunMerge ==
  /\ rpc = "scanning" /\ \A h \in Host : w[h] \in {"idle", "done"}
  /\ LET names == {f \in File : f[2] = "now" /\ res[f[1]] = "ok" /\ Readable(f)}
         rd == [f \in names |-> file[f]]
     IN  /\ read' = [read EXCEPT !["run"] = rd]
         /\ left' = [left EXCEPT !["run"] = IF names = {} THEN {} ELSE Writes("run", rd)]
  /\ rpc' = "writing"
  /\ UNCHANGED <<failing, disk, mode, remediate, worker, collector, task, runs, faults>>

\* _write_evidence replaces the file of one control.
Write(p) ==
  /\ \E c \in left[p] :
       /\ evidence' = [evidence EXCEPT ![c] = [status |-> Rollup(read[p], c), by |-> p]]
       /\ left' = [left EXCEPT ![p] = @ \ {c}]
  /\ UNCHANGED <<failing, file, mode, remediate, rpc, worker, read, collector, task,
                 runs, faults>>

\* _tasklog_run: "done" if nothing was raised.
EndRun ==
  /\ rpc = "writing" /\ left["run"] = {}
  /\ rpc' = "idle" /\ task' = "done"
  /\ Forget
  /\ UNCHANGED <<failing, disk, collector, runs, faults>>

\* write_evidence raises: scan_fleet's task fails, the controls written stay;
\* scan_and_record reports the error and its task is done.
WriteRaises ==
  /\ rpc = "writing" /\ left["run"] # {} /\ Fault
  /\ rpc' = "idle" /\ task' = IF mode = "fleet" THEN "failed" ELSE "done"
  /\ Forget
  /\ UNCHANGED <<failing, disk, collector, runs>>

\* The process is killed.
Die ==
  /\ rpc # "idle" /\ Fault
  /\ rpc' = "idle"
  /\ Forget
  /\ UNCHANGED <<failing, disk, collector, task, runs>>

-----------------------------------------------------------------------------
(* collect_day, in a process of its own.                                   *)

\* _specs_from_day: every results-*.xml of the day, in the manifest or not.
StartCollect ==
  /\ cpc = "idle" /\ runs < MaxRuns /\ runs' = runs + 1
  /\ todo' = {f \in File : file[f] # None}
  /\ read' = [read EXCEPT !["collect"] = NoFiles]
  /\ cpc' = "reading"
  /\ UNCHANGED <<failing, disk, mode, remediate, rpc, worker, left, task, faults>>

CollectRead ==
  /\ cpc = "reading"
  /\ \E f \in todo :
       /\ todo' = todo \ {f}
       /\ read' = IF Readable(f)
                    THEN [read EXCEPT !["collect"] = [n \in DOMAIN @ \cup {f} |->
                                                        IF n = f THEN file[f] ELSE @[n]]]
                    ELSE read
  /\ UNCHANGED <<failing, disk, mode, remediate, rpc, worker, left, cpc, task, runs, faults>>

CollectMerge ==
  /\ cpc = "reading" /\ todo = {}
  /\ left' = [left EXCEPT !["collect"] =
       IF DOMAIN read["collect"] = {} THEN {} ELSE Writes("collect", read["collect"])]
  /\ cpc' = "writing"
  /\ UNCHANGED <<failing, disk, mode, remediate, rpc, worker, read, todo, task, runs, faults>>

CollectEnd ==
  /\ cpc = "writing" /\ left["collect"] = {}
  /\ cpc' = "idle" /\ read' = [read EXCEPT !["collect"] = NoFiles]
  /\ UNCHANGED <<failing, disk, mode, remediate, rpc, worker, left, todo, task, runs, faults>>

-----------------------------------------------------------------------------
ScanStep(h) ==
  \/ LoadIgnoreList(h) \/ Probe(h) \/ RootEval(h) \/ OpenResults(h) \/ FetchResults(h) \/ FetchPre(h)
  \/ OscapRemediate(h) \/ PostEval(h) \/ FetchPost(h) \/ UserEval(h)
RunStep == RunMerge \/ Write("run") \/ EndRun
CollectStep == CollectRead \/ CollectMerge \/ Write("collect") \/ CollectEnd

Next ==
  \/ StartRun \/ RunStep \/ WriteRaises \/ Die
  \/ \E h \in Host : ScanStep(h) \/ ScanFails(h) \/ FetchFails(h)
  \/ StartCollect \/ CollectStep

Spec == Init /\ [][Next]_vars

-----------------------------------------------------------------------------
(* Properties.                                                             *)

Results == [Rule -> {"pass", "fail", "notselected"}]
Places == {"idle", "start", "tailored", "root", "user", "fetch", "fetching", "fetch_pre", "remediate",
           "post_eval", "fetch_post", "fetching_post", "done"}

\* The variables have their types.
TypeOK ==
  /\ failing \in [Host -> SUBSET Rule]
  /\ file \in [File -> Results \cup {None, Torn}]
  /\ evidence \in [Control -> [status : {"none", "pass", "fail", "manual_review"},
                                by : Writer \cup {"none"}]]
  /\ mode \in {"fleet", "host"} /\ remediate \in BOOLEAN
  /\ rpc \in {"idle", "scanning", "writing"} /\ cpc \in {"idle", "reading", "writing"}
  /\ w \in [Host -> Places] /\ res \in [Host -> {"none", "ok", "not_ok", "error"}]
  /\ remote \in [Host -> Results \cup {None}]
  /\ tailored \in [Host -> BOOLEAN] /\ untailored \subseteq Host
  /\ left \in [Writer -> SUBSET Control] /\ todo \subseteq File
  /\ task \in {"none", "running", "done", "failed"}
  /\ runs \in 0..MaxRuns /\ faults \in 0..MaxFaults

\* The evidence of a fleet run is the worst of its hosts, in whatever order
\* their threads end and whichever of them fail: when its last control is
\* written, a control that a host's results violate is shown as failing.
OneHostFails ==
  rpc = "writing" /\ left["run"] = {} /\ mode = "fleet" =>
    \A c \in Control, h \in Host :
      /\ evidence[c].by = "run" /\ res[h] = "ok" /\ Readable(<<h, "now">>)
      /\ Violates(file[<<h, "now">>], c)
      => evidence[c].status = "fail"

\* "Excluded rules return notselected ... they never pass or fail": whatever the
\* mode of a scan and wherever it is cut off, no results file grades a rule on a
\* host that is excluded from it, unless a scan of the host had no tailoring.
IgnoredStaysOut ==
  \A f \in File, r \in Rule :
    Readable(f) /\ <<f[1], r>> \in Ignored /\ f[1] \notin untailored
      => file[f][r] = "notselected"

\* "STIG rules that must not run on a scan host": and no remediation changes
\* what such a rule is about.
ExcludedUntouched ==
  [][\A e \in Ignored : tailored[e[1]] =>
       (e[2] \in failing[e[1]]) = (e[2] \in failing'[e[1]])]_failing
=============================================================================
