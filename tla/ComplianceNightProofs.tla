------------------------ MODULE ComplianceNightProofs ------------------------
(***************************************************************************)
(* Theorems about ComplianceNight, for any number of tenants, hosts, rules *)
(* and controls, any archive of scans, and any number of runs, faults and  *)
(* requests.                                                               *)
(***************************************************************************)
EXTENDS ComplianceNight, TLAPS

USE ConstantsAssumption DEF Tenant, Process

-----------------------------------------------------------------------------
(* What the operators return.                                              *)

\* A rollup is a status, or says that no rule has a result for the control.
LEMMA RollupStatus ==
  ASSUME NEW results, NEW refs, NEW c
  PROVE  Rollup(results, refs, c) \in Status \cup {"absent"}
BY DEF Rollup, Status

\* A control fails in a rollup exactly when one of its rules does.
LEMMA RollupFails ==
  ASSUME NEW results, NEW refs, NEW c
  PROVE  Rollup(results, refs, c) = "fail"
           <=> \E r \in Rule : c \in refs[r] /\ results[r] = "fail"
<1> DEFINE seen == {results[r] : r \in {q \in Rule : c \in refs[q]}} \ {"absent"}
<1>1. "fail" \in seen <=> \E r \in Rule : c \in refs[r] /\ results[r] = "fail"
  OBVIOUS
<1>2. Rollup(results, refs, c) =
        IF "fail" \in seen THEN "fail" ELSE IF "pass" \in seen THEN "pass"
        ELSE IF seen # {} THEN "manual_review" ELSE "absent"
  BY DEF Rollup
<1> HIDE DEF seen
<1>. QED BY <1>1, <1>2

\* The merge of a rule fails exactly when a host of the day fails it.
LEMMA MergedFails ==
  ASSUME NEW r
  PROVE  Merged(r) = "fail" <=> \E h \in Specs : scan[h][r] = "fail"
BY DEF Merged

\* The merged results of a control fail exactly when a host fails a rule that the
\* datastream of a host, of the same or another, maps to the control.
LEMMA WorstAcrossHosts ==
  ASSUME NEW c
  PROVE  ScanStatus(c) = "fail"
           <=> \E g, h \in Specs : \E r \in Rule : c \in Refs[g][r] /\ scan[h][r] = "fail"
<1> DEFINE merged == [r \in Rule |-> Merged(r)]
           refs == [r \in Rule |-> MergedRefs(r)]
<1>1. ScanStatus(c) = "fail" <=> \E r \in Rule : c \in refs[r] /\ merged[r] = "fail"
  BY RollupFails DEF ScanStatus
<1>2. \A r \in Rule : merged[r] = "fail" <=> \E h \in Specs : scan[h][r] = "fail"
  BY MergedFails
<1>3. \A r \in Rule : c \in refs[r] <=> \E g \in Specs : c \in Refs[g][r]
  BY DEF MergedRefs
<1> HIDE DEF merged, refs
<1>. QED BY <1>1, <1>2, <1>3

\* What a host fails by its own datastream fails in the merged results.
LEMMA OwnFailureShows ==
  ASSUME NEW t \in Tenant, NEW c \in Applicable[t], NEW h \in Specs, c \in Failed(h, t)
  PROVE  ScanStatus(c) = "fail"
<1>1. PICK r \in Rule : c \in Refs[h][r] /\ scan[h][r] = "fail"
  BY RollupFails DEF Failed, HostStatus
<1>. QED BY <1>1, WorstAcrossHosts

\* A file in place that is not marked as crossed is what its writer wrote.
LEMMA UncrossedIsOwn ==
  ASSUME NEW file, NEW others, NEW f \in Lands(file, others), f # file, file \in File
  PROVE  f.crossed
BY DEF Lands, File

-----------------------------------------------------------------------------
(* Types.                                                                  *)

LEMMA DerivedStatus ==
  ASSUME NEW c, NEW rows
  PROVE  Derived(c, rows) \in Status
BY DEF Derived, Status

LEMMA InitTyped == Init => TypeOK
<1>. SUFFICES ASSUME Init PROVE TypeOK OBVIOUS
<1>1. PICK d \in Days : scan = d.scan /\ manifest = d.manifest BY DEF Init
<1>2. /\ scan \in [Host -> [Rule -> Result] \cup {None}]
      /\ manifest \in [Host -> Tenant \cup {None}]
  BY <1>1
<1>. QED BY <1>2 DEF Init, TypeOK

LEMMA LandsTyped ==
  ASSUME TypeOK, NEW file \in File, NEW others \in SUBSET Process,
         \A q \in others : graded[q] # None
  PROVE  Lands(file, others) \subseteq File
<1>1. \A q \in others : graded[q].status \in Status BY DEF TypeOK, Grading
<1>2. [file EXCEPT !.crossed = TRUE] \in File BY DEF File
<1>3. [status |-> "manual_review", by |-> "logs", crossed |-> TRUE] \in File
  BY DEF File, Status
<1>4. \A q \in others : [status |-> graded[q].status, by |-> "logs", crossed |-> TRUE] \in File
  BY <1>1 DEF File
<1>. QED BY <1>2, <1>3, <1>4 DEF Lands

LEMMA WritersTyped ==
  ASSUME NEW t, NEW c
  PROVE  Writers(t, c) \subseteq Process /\ \A q \in Writers(t, c) : graded[q] # None
BY DEF Writers

\* A process that another has clashed with is as it was otherwise.
LEMMA ClashTyped ==
  ASSUME NEW g \in Grading
  PROVE  [g EXCEPT !.clash = TRUE] \in Grading
BY DEF Grading

\* The files of a scan.
LEMMA ScanFilesTyped ==
  ASSUME TypeOK, NEW t \in Tenant, NEW written \in SUBSET Control, NEW by, NEW status,
         ScanFiles(t, written, by, status)
  PROVE  /\ evidence' \in [Tenant -> [Control -> File \cup {None}]]
         /\ graded' \in [Process -> Grading \cup {None}]
<1>1. evidence' \in [Tenant -> [Control -> File \cup {None}]]
  <2>1. PICK files \in [written -> File] :
          evidence' = [evidence EXCEPT ![t] =
            [c \in Control |-> IF c \in written THEN files[c] ELSE @[c]]]
    BY DEF ScanFiles
  <2>. QED BY <2>1 DEF TypeOK
<1>2. graded' \in [Process -> Grading \cup {None}]
  <2>1. \A p \in Process : (\E c \in written : p \in Writers(t, c))
          => [graded[p] EXCEPT !.clash = TRUE] \in Grading
    BY ClashTyped DEF Writers, TypeOK
  <2>. QED BY <2>1 DEF ScanFiles, TypeOK
<1>. QED BY <1>1, <1>2

LEMMA LoadTyped ==
  ASSUME TypeOK, NEW p \in Process, Load(p)
  PROVE  TypeOK'
<1>1. PICK t \in queue[p] :
        /\ queue' = [queue EXCEPT ![p] = @ \ {t}]
        /\ current' = [current EXCEPT ![p] = IF Applicable[t] = {} THEN None ELSE t]
        /\ loaded' = [loaded EXCEPT ![p] = logs]
        /\ todo' = [todo EXCEPT ![p] = Applicable[t]]
  BY DEF Load
<1>2. t \in Tenant BY DEF TypeOK
<1>3. UNCHANGED <<archive, trail, evidence, course, fresh, graded, missed, counters>>
  BY DEF Load
<1>. QED BY <1>1, <1>2, <1>3 DEF TypeOK, archive, trail, course, counters

LEMMA ReadTyped ==
  ASSUME TypeOK, NEW p \in Process, ReadSnapshots(p)
  PROVE  TypeOK'
<1>1. PICK c \in Control : Grade(p, c, loaded[p] \cup snapshots) BY DEF ReadSnapshots
<1>2. [control |-> c, status |-> Derived(c, loaded[p] \cup snapshots),
       late |-> FALSE, clash |-> FALSE] \in Grading
  BY DerivedStatus DEF Grading
<1>3. graded' \in [Process -> Grading \cup {None}] BY <1>1, <1>2 DEF Grade, TypeOK
<1>. QED BY <1>1, <1>3 DEF TypeOK, Grade, archive, trail, course, counters

\* The parts of a write.
LEMMA WriteParts ==
  ASSUME TypeOK, NEW p \in Process, Write(p)
  PROVE  \E t \in Tenant, c \in Control, file \in File, own \in File :
           /\ t = current[p] /\ graded[p] \in Grading /\ c = graded[p].control
           /\ own = [status |-> graded[p].status, by |-> "logs", crossed |-> graded[p].late]
           /\ file = own \/ file.crossed
           /\ evidence' = [evidence EXCEPT ![t][c] = file]
           /\ fresh' = fresh \cup {<<t, c>>}
           /\ todo' = [todo EXCEPT ![p] = @ \ {c}]
           /\ current' = [current EXCEPT ![p] = IF todo[p] \ {c} = {} THEN None ELSE t]
<1> DEFINE t == current[p]
           c == graded[p].control
           own == [status |-> graded[p].status, by |-> "logs", crossed |-> graded[p].late]
           others == Writers(t, c) \ {p}
<1>1. t \in Tenant /\ graded[p] \in Grading BY DEF Write, TypeOK
<1>2. c \in Control /\ own \in File BY <1>1 DEF Grading, File
<1>3. PICK file \in Lands(own, others) : evidence' = [evidence EXCEPT ![t][c] = file]
  BY DEF Write
<1>4. file \in File
  <2>1. others \in SUBSET Process /\ \A q \in others : graded[q] # None BY WritersTyped
  <2> HIDE DEF own, others
  <2>. QED BY <1>2, <1>3, <2>1, LandsTyped
<1>5. file = own \/ file.crossed
  <2> HIDE DEF own, others
  <2>. QED BY <1>2, <1>3, UncrossedIsOwn
<1>6. /\ fresh' = fresh \cup {<<t, c>>} /\ todo' = [todo EXCEPT ![p] = @ \ {c}]
      /\ current' = [current EXCEPT ![p] = IF todo[p] \ {c} = {} THEN None ELSE t]
  BY DEF Write
<1>7. /\ t = current[p] /\ c = graded[p].control
      /\ own = [status |-> graded[p].status, by |-> "logs", crossed |-> graded[p].late]
  OBVIOUS
<1> HIDE DEF t, c, own, others
<1>. QED BY <1>1, <1>2, <1>3, <1>4, <1>5, <1>6, <1>7

LEMMA WriteTyped ==
  ASSUME TypeOK, NEW p \in Process, Write(p)
  PROVE  TypeOK'
<1>1. PICK t \in Tenant, c \in Control, file \in File, own \in File :
        /\ t = current[p] /\ graded[p] \in Grading /\ c = graded[p].control
        /\ evidence' = [evidence EXCEPT ![t][c] = file]
        /\ fresh' = fresh \cup {<<t, c>>}
        /\ todo' = [todo EXCEPT ![p] = @ \ {c}]
        /\ current' = [current EXCEPT ![p] = IF todo[p] \ {c} = {} THEN None ELSE t]
  BY WriteParts
<1>2. /\ evidence' \in [Tenant -> [Control -> File \cup {None}]]
      /\ fresh' \subseteq Tenant \X Control
      /\ todo' \in [Process -> SUBSET Control]
      /\ current' \in [Process -> Tenant \cup {None}]
  BY <1>1 DEF TypeOK
<1>3. loaded' \in [Process -> SUBSET Row] BY DEF Write, TypeOK
<1>4. raw' \in [Tenant -> SUBSET Control]
  <2>1. raw' = [raw EXCEPT ![t] = raw[t] \cup {c}] \/ raw' = raw BY <1>1 DEF Write
  <2>2. raw \in [Tenant -> SUBSET Control] BY DEF TypeOK
  <2>3. raw[t] \cup {c} \in SUBSET Control BY <2>2
  <2>. QED BY <2>1, <2>2, <2>3
<1>5. graded' \in [Process -> Grading \cup {None}]
  <2>1. PICK others \in SUBSET Process :
          /\ \A q \in others : graded[q] # None
          /\ graded' = [q \in Process |->
               IF q = p THEN None
               ELSE IF q \in others THEN [graded[q] EXCEPT !.clash = TRUE] ELSE graded[q]]
    <3>1. /\ Writers(t, c) \ {p} \in SUBSET Process
          /\ \A q \in Writers(t, c) \ {p} : graded[q] # None
      BY WritersTyped
    <3>2. graded' = [q \in Process |->
               IF q = p THEN None
               ELSE IF q \in Writers(t, c) \ {p}
                 THEN [graded[q] EXCEPT !.clash = TRUE] ELSE graded[q]]
      BY <1>1 DEF Write
    <3>. QED BY <3>1, <3>2
  <2>2. \A q \in others : [graded[q] EXCEPT !.clash = TRUE] \in Grading
    BY <2>1, ClashTyped DEF TypeOK
  <2>. QED BY <2>1, <2>2 DEF TypeOK
<1>6. UNCHANGED <<archive, trail, phase, batch, attempts, applied, errors, report,
                  queue, missed, counters>>
  BY DEF Write
<1>. QED BY <1>2, <1>3, <1>4, <1>5, <1>6 DEF TypeOK, archive, trail, counters

\* The parts of a collection that has raised.
LEMMA AbandonTyped ==
  ASSUME TypeOK, NEW p \in Process, current[p] # None, Abandon(p),
         evidence' \in [Tenant -> [Control -> File \cup {None}]], faults' \in 0..MaxFaults
  PROVE  TypeOK'
<1>1. missed' \subseteq Tenant
  <2>1. current[p] \in Tenant /\ missed \subseteq Tenant BY DEF TypeOK
  <2>2. missed' = missed \cup {current[p]} \/ missed' = missed BY Zenon DEF Abandon
  <2>. QED BY <2>1, <2>2
<1>2. /\ current' \in [Process -> Tenant \cup {None}]
      /\ loaded' \in [Process -> SUBSET Row] /\ todo' \in [Process -> SUBSET Control]
      /\ graded' \in [Process -> Grading \cup {None}]
  BY DEF TypeOK, Abandon
<1>3. UNCHANGED <<archive, trail, course, fresh, queue, runs, requests>> BY DEF Abandon
<1>. QED BY <1>1, <1>2, <1>3 DEF TypeOK, archive, trail, course

LEMMA WriteFailsParts ==
  ASSUME TypeOK, NEW p \in Process, WriteFails(p)
  PROVE  \E t \in Tenant, c \in Control, file \in File :
           /\ file.crossed
           /\ evidence' = evidence \/ evidence' = [evidence EXCEPT ![t][c] = file]
<1> DEFINE t == current[p]
           c == graded[p].control
           file == [status |-> graded[p].status, by |-> "logs", crossed |-> TRUE]
<1>1. t \in Tenant /\ graded[p] \in Grading BY DEF WriteFails, TypeOK
<1>2. c \in Control /\ file \in File /\ file.crossed BY <1>1 DEF Grading, File
<1>3. evidence' = evidence \/ evidence' = [evidence EXCEPT ![t][c] = file]
  BY DEF WriteFails
<1> HIDE DEF t, c, file
<1>. QED BY <1>1, <1>2, <1>3

LEMMA CollectTyped ==
  ASSUME TypeOK, NEW p \in Process,
         Load(p) \/ ReadSnapshots(p) \/ Write(p) \/ CollectFails(p) \/ WriteFails(p)
  PROVE  TypeOK'
<1>1. CASE CollectFails(p)
  <2>1. evidence' \in [Tenant -> [Control -> File \cup {None}]] /\ faults' \in 0..MaxFaults
    BY <1>1 DEF CollectFails, Fault, TypeOK
  <2>. QED BY <1>1, <2>1, AbandonTyped DEF CollectFails
<1>2. CASE WriteFails(p)
  <2>1. current[p] \in Tenant /\ graded[p] \in Grading BY <1>2 DEF WriteFails, TypeOK
  <2>2. PICK t \in Tenant, c \in Control, file \in File :
          evidence' = evidence \/ evidence' = [evidence EXCEPT ![t][c] = file]
    BY <1>2, WriteFailsParts
  <2>3. evidence' \in [Tenant -> [Control -> File \cup {None}]]
    <3>1. evidence \in [Tenant -> [Control -> File \cup {None}]] BY DEF TypeOK
    <3>2. CASE evidence' = evidence BY <3>1, <3>2
    <3>3. CASE evidence' = [evidence EXCEPT ![t][c] = file] BY <3>1, <3>3
    <3>. QED BY <2>2, <3>2, <3>3
  <2>4. faults' \in 0..MaxFaults BY <1>2 DEF WriteFails, TypeOK
  <2>. QED BY <1>2, <2>3, <2>4, AbandonTyped DEF WriteFails
<1>. QED BY <1>1, <1>2, LoadTyped, ReadTyped, WriteTyped

LEMMA CollectDayTyped ==
  ASSUME TypeOK, NEW t \in Tenant, CollectDay(t)
  PROVE  TypeOK'
<1>1. PICK written \in SUBSET Measured(t) :
        ScanFiles(t, written, "scan", [c \in written |-> ScanStatus(c)])
  BY DEF CollectDay
<1>2. written \in SUBSET Control BY DEF Measured
<1>3. /\ evidence' \in [Tenant -> [Control -> File \cup {None}]]
      /\ graded' \in [Process -> Grading \cup {None}]
  BY <1>1, <1>2, ScanFilesTyped
<1>4. manifest' \in [Host -> Tenant \cup {None}] BY DEF TypeOK, CollectDay
<1>5. batch' \subseteq Tenant /\ faults' \in 0..MaxFaults
  <2>1. batch' \subseteq Tenant BY DEF TypeOK, CollectDay
  <2>2. faults' = faults \/ Fault BY Zenon DEF CollectDay
  <2>. QED BY <2>1, <2>2 DEF TypeOK, Fault
<1>. QED BY <1>3, <1>4, <1>5 DEF TypeOK, CollectDay, trail

LEMMA RecordScanTyped ==
  ASSUME TypeOK, NEW t \in Tenant, RecordScan(t)
  PROVE  TypeOK'
<1>1. PICK written \in SUBSET HostMeasured(recording, t) :
        ScanFiles(t, written, "host", [c \in written |-> HostStatus(recording, c)])
  BY DEF RecordScan
<1>2. written \in SUBSET Control BY DEF HostMeasured
<1>3. /\ evidence' \in [Tenant -> [Control -> File \cup {None}]]
      /\ graded' \in [Process -> Grading \cup {None}]
  BY <1>1, <1>2, ScanFilesTyped
<1>. QED BY <1>3 DEF TypeOK, RecordScan, trail, course, counters

\* The rows of a fix are rows.
LEMMA LeavesTyped ==
  ASSUME TypeOK, NEW c \in Control, NEW outcome, Leaves(c, outcome)
  PROVE  /\ logs' \subseteq Row /\ snapshots' \subseteq Row
         /\ graded' \in [Process -> Grading \cup {None}]
<1>1. PICK row \in SUBSET {"ok", "fail"}, shot \in SUBSET {"ok", "fail"} :
        logs' = logs \cup {c} \X row /\ snapshots' = snapshots \cup {c} \X shot
  BY DEF Leaves
<1>2. graded' \in [Process -> Grading \cup {None}]
  <2>1. PICK late \in SUBSET {"ok", "fail"} :
          graded' = [p \in Process |->
             IF graded[p] # None /\ graded[p].control = c /\ "ok" \in late
               THEN [graded[p] EXCEPT !.late = @ \/ graded[p].status # "pass"]
               ELSE graded[p]]
    BY DEF Leaves
  <2>2. \A g \in Grading : [g EXCEPT !.late = @ \/ g.status # "pass"] \in Grading
    BY DEF Grading
  <2>. QED BY <2>1, <2>2 DEF TypeOK
<1>. QED BY <1>1, <1>2 DEF TypeOK, Row

LEMMA RemediateTyped ==
  ASSUME TypeOK, NEW a \in attempts, Remediate(a)
  PROVE  TypeOK'
<1>1. a \in Attempt /\ a.control \in Control BY DEF TypeOK, Attempt
<1>2. /\ logs' \subseteq Row /\ snapshots' \subseteq Row
      /\ graded' \in [Process -> Grading \cup {None}]
  BY <1>1, LeavesTyped DEF TypeOK, Remediate, trail
<1>3. applied' \subseteq Attempt /\ attempts' \subseteq Attempt
  BY <1>1 DEF TypeOK, Remediate
<1>. QED BY <1>2, <1>3 DEF TypeOK, Remediate, archive, counters

\* The process leaves nothing behind in its own state.
LEMMA ExitTyped ==
  ASSUME TypeOK, Exit
  PROVE  /\ batch' \subseteq Tenant /\ attempts' \subseteq Attempt /\ applied' \subseteq Attempt
         /\ raw' \in [Tenant -> SUBSET Control] /\ errors' \subseteq Tenant
         /\ fresh' \subseteq Tenant \X Control /\ missed' \subseteq Tenant
         /\ queue' \in [Process -> SUBSET Tenant]
         /\ current' \in [Process -> Tenant \cup {None}]
         /\ loaded' \in [Process -> SUBSET Row] /\ todo' \in [Process -> SUBSET Control]
         /\ graded' \in [Process -> Grading \cup {None}]
BY DEF TypeOK, Exit

LEMMA PhasesTyped ==
  ASSUME TypeOK,
         \/ Start \/ Collected \/ Scanned \/ LocalDone \/ Recollected \/ FleetDone
         \/ Score \/ Kill \/ \E t \in Tenant : FleetTenant(t)
  PROVE  TypeOK'
<1>0. /\ LocalAttempts \subseteq Attempt /\ \A t : FleetAttempts(t) \subseteq Attempt
      /\ FleetBatch \subseteq Tenant
  BY DEF LocalAttempts, FleetAttempts, FleetBatch
<1>1. CASE Start
  BY <1>1 DEF TypeOK, Start, CollectAll, archive, trail
<1>2. CASE Collected
  <2>1. ByTenant \subseteq Tenant BY DEF ByTenant, Specs, TypeOK
  <2>. QED BY <1>2, <2>1 DEF TypeOK, Collected, archive, trail, collection, counters
<1>3. CASE Scanned
  BY <1>0, <1>3 DEF TypeOK, Scanned, archive, trail, collection, counters
<1>4. CASE LocalDone
  <2>1. CASE LocalApplied
    <3>1. phase' = "recollect" /\ CollectAll /\ batch' = batch
      BY <1>4, <2>1, Zenon DEF LocalDone
    <3>2. UNCHANGED <<archive, trail, evidence, attempts, applied, raw, errors, report, fresh,
                      counters>>
      BY <1>4, Zenon DEF LocalDone
    <3>. QED BY <3>1, <3>2 DEF TypeOK, CollectAll, archive, trail, counters
  <2>2. CASE ~LocalApplied
    BY <1>0, <1>4, <2>2 DEF TypeOK, LocalDone, archive, trail, collection, counters
  <2>. QED BY <2>1, <2>2
<1>5. CASE Recollected
  BY <1>0, <1>5 DEF TypeOK, Recollected, archive, trail, collection, counters
<1>6. CASE FleetDone
  <2>1. CASE FleetApplied
    BY <1>6, <2>1 DEF TypeOK, FleetDone, CollectAll, archive, trail, counters
  <2>2. CASE ~FleetApplied
    BY <1>6, <2>2 DEF TypeOK, FleetDone, archive, trail, collection, counters
  <2>. QED BY <2>1, <2>2
<1>7. CASE Score
  <2>1. Passes \in [Tenant -> SUBSET Control] BY DEF Passes
  <2>2. report' \in [ok: BOOLEAN, passes: [Tenant -> SUBSET Control]] \cup {None}
    <3>1. CASE report' = [ok |-> errors = {}, passes |-> Passes]
      <4>1. (errors = {}) \in BOOLEAN OBVIOUS
      <4>. QED BY <2>1, <3>1, <4>1
    <3>2. CASE report' = [ok |-> FALSE, passes |-> [t \in Tenant |-> {}]]
      <4>1. [t \in Tenant |-> {}] \in [Tenant -> SUBSET Control] OBVIOUS
      <4>. QED BY <3>2, <4>1
    <3>. QED BY <1>7, <3>1, <3>2 DEF Score
  <2>3. faults' \in 0..MaxFaults BY <1>7 DEF Score, Fault, TypeOK
  <2>. QED BY <1>7, <2>2, <2>3, ExitTyped DEF TypeOK, Score, archive, trail
<1>8. CASE Kill
  <2>1. faults' \in 0..MaxFaults BY <1>8 DEF Kill, Fault, TypeOK
  <2>2. Exit /\ phase' = "idle" /\ UNCHANGED <<archive, trail, evidence, report, runs, requests>>
    BY <1>8 DEF Kill
  <2>. QED BY <2>1, <2>2, ExitTyped DEF TypeOK, archive, trail
<1>9. ASSUME NEW t \in Tenant, FleetTenant(t) PROVE TypeOK'
  BY <1>0, <1>9 DEF TypeOK, FleetTenant, archive, trail, collection, counters
<1>. QED BY <1>1, <1>2, <1>3, <1>4, <1>5, <1>6, <1>7, <1>8, <1>9

LEMMA OthersTyped ==
  ASSUME TypeOK,
         \/ \E c \in Findings : Report(c)
         \/ \E t \in Tenant, c \in Control : DashboardRemediate(t, c)
         \/ DashboardScan
         \/ \E h \in Host : HostScan(h)
  PROVE  TypeOK'
<1>1. CASE \E c \in Findings : Report(c)
  BY <1>1 DEF TypeOK, Report, Row, archive, course, collection, counters
<1>2. ASSUME NEW t \in Tenant, NEW c \in Control, DashboardRemediate(t, c)
      PROVE  TypeOK'
  <2>1. /\ logs' \subseteq Row /\ snapshots' \subseteq Row
        /\ graded' \in [Process -> Grading \cup {None}]
    BY <1>2, LeavesTyped DEF DashboardRemediate
  <2>2. queue' \in [Process -> SUBSET Tenant] /\ requests' \in 0..MaxRequests
    BY <1>2 DEF TypeOK, DashboardRemediate
  <2>. QED BY <1>2, <2>1, <2>2 DEF TypeOK, DashboardRemediate, archive, course
<1>3. CASE DashboardScan
  BY <1>3 DEF TypeOK, DashboardScan, archive, trail, course
<1>4. ASSUME NEW h \in Host, HostScan(h) PROVE TypeOK'
  <2>1. PICK d \in Days : d.scan[h] # None /\ scan' = [scan EXCEPT ![h] = d.scan[h]]
    BY <1>4 DEF HostScan
  <2>2. scan' \in [Host -> [Rule -> Result] \cup {None}] BY <2>1 DEF TypeOK
  <2>3. requests' \in 0..MaxRequests BY <1>4 DEF TypeOK, HostScan
  <2>. QED BY <1>4, <2>2, <2>3 DEF TypeOK, HostScan, trail, course, collection
<1>. QED BY <1>1, <1>2, <1>3, <1>4

\* Every reachable state of the nightly job and the dashboard has the types that
\* TypeOK states.
THEOREM TypeCorrect == Spec => []TypeOK
<1>1. TypeOK /\ [Next]_vars => TypeOK'
  <2>. SUFFICES ASSUME TypeOK, [Next]_vars PROVE TypeOK' OBVIOUS
  <2>1. CASE UNCHANGED vars
    BY <2>1 DEF TypeOK, vars, archive, trail, course, collection, counters
  <2>. QED BY <2>1, CollectTyped, CollectDayTyped, RecordScanTyped, RemediateTyped,
           PhasesTyped, OthersTyped
           DEF Next, Collect
<1>. QED BY <1>1, InitTyped, PTL DEF Spec

-----------------------------------------------------------------------------
(* The worst result across hosts.                                          *)

\* The body of FailHasHost.
Worst ==
  \A t \in batch \ batch' : \A c \in Applicable[t] :
    LET now == evidence'[t][c]
    IN  phase = "scan" /\ phase' = "scan" =>
          /\ faults' = faults /\ (\E h \in Specs : c \in Failed(h, t))
               => now # None /\ (now.status = "fail" \/ now.crossed)
          /\ now # evidence[t][c] /\ now.status = "fail" /\ ~now.crossed
               => \E g, h \in Specs : \E r \in Rule :
                    c \in Refs[g][r] /\ scan[h][r] = "fail"

\* What a scan leaves in a file: where nothing crossed it, what it measured.
LEMMA MeasuredOrCrossed ==
  ASSUME NEW status \in Status, NEW by \in {"scan", "host"}, NEW others,
         NEW f \in Lands([status |-> status, by |-> by, crossed |-> FALSE], others)
  PROVE  f.crossed \/ (f.status = status /\ f.by = by)
<1> DEFINE own == [status |-> status, by |-> by, crossed |-> FALSE]
<1>1. own \in File /\ own.status = status /\ own.by = by BY DEF File
<1>2. f \in Lands(own, others) OBVIOUS
<1> HIDE DEF own
<1>. QED BY <1>1, <1>2, UncrossedIsOwn

LEMMA CollectDayWrites ==
  ASSUME TypeOK, NEW t \in Tenant, CollectDay(t)
  PROVE  \E written \in SUBSET Measured(t) :
           /\ written = Measured(t) \/ Fault
           /\ \A u \in Tenant, c \in Control :
                IF u = t /\ c \in written
                  THEN /\ evidence'[u][c] \in File
                       /\ \/ evidence'[u][c].crossed
                          \/ evidence'[u][c].status = ScanStatus(c) /\ evidence'[u][c].by = "scan"
                  ELSE evidence'[u][c] = evidence[u][c]
<1>0. PICK written \in SUBSET Measured(t) :
        /\ ScanFiles(t, written, "scan", [c \in written |-> ScanStatus(c)])
        /\ written = Measured(t) \/ Fault
  BY DEF CollectDay
<1>1. PICK files \in [written -> File] :
        /\ \A c \in written :
             files[c] \in Lands([status |-> ScanStatus(c), by |-> "scan", crossed |-> FALSE],
                               Writers(t, c))
        /\ evidence' = [evidence EXCEPT ![t] =
             [c \in Control |-> IF c \in written THEN files[c] ELSE @[c]]]
  BY <1>0 DEF ScanFiles
<1>2. \A c \in written : ScanStatus(c) \in Status BY RollupStatus DEF Measured, ScanStatus
<1>3. \A c \in written : files[c].crossed
        \/ (files[c].status = ScanStatus(c) /\ files[c].by = "scan")
  BY <1>1, <1>2, MeasuredOrCrossed
<1>4. \A u \in Tenant, c \in Control :
        evidence'[u][c] = IF u = t /\ c \in written THEN files[c] ELSE evidence[u][c]
  BY <1>1 DEF TypeOK
<1>5. \A c \in written : files[c] \in File BY <1>1
<1>6. \A u \in Tenant, c \in Control :
        IF u = t /\ c \in written
          THEN /\ evidence'[u][c] \in File
               /\ \/ evidence'[u][c].crossed
                  \/ evidence'[u][c].status = ScanStatus(c) /\ evidence'[u][c].by = "scan"
          ELSE evidence'[u][c] = evidence[u][c]
  <2>. SUFFICES ASSUME NEW u \in Tenant, NEW c \in Control
                PROVE  IF u = t /\ c \in written
                         THEN /\ evidence'[u][c] \in File
                              /\ \/ evidence'[u][c].crossed
                                 \/ /\ evidence'[u][c].status = ScanStatus(c)
                                    /\ evidence'[u][c].by = "scan"
                         ELSE evidence'[u][c] = evidence[u][c]
    OBVIOUS
  <2>1. CASE u = t /\ c \in written
    <3>1. evidence'[u][c] = files[c] BY <1>4, <2>1
    <3>. QED BY <1>3, <1>5, <2>1, <3>1
  <2>2. CASE ~(u = t /\ c \in written) BY <1>4, <2>2
  <2>. QED BY <2>1, <2>2
<1>. QED BY <1>0, <1>6

LEMMA RecordScanWrites ==
  ASSUME TypeOK, NEW t \in Tenant, RecordScan(t), NEW u \in Tenant, NEW c \in Control
  PROVE  \/ evidence'[u][c] = evidence[u][c]
         \/ /\ evidence'[u][c] \in File
            /\ evidence'[u][c].crossed \/ evidence'[u][c].by = "host"
<1>0. PICK written \in SUBSET HostMeasured(recording, t) :
        ScanFiles(t, written, "host", [d \in written |-> HostStatus(recording, d)])
  BY DEF RecordScan
<1>1. PICK files \in [written -> File] :
        /\ \A d \in written :
             files[d] \in Lands([status |-> HostStatus(recording, d), by |-> "host",
                                crossed |-> FALSE], Writers(t, d))
        /\ evidence' = [evidence EXCEPT ![t] =
             [d \in Control |-> IF d \in written THEN files[d] ELSE @[d]]]
  BY <1>0 DEF ScanFiles
<1>2. \A d \in written : HostStatus(recording, d) \in Status
  BY RollupStatus DEF HostMeasured, HostStatus
<1>3. \A d \in written : files[d].crossed \/ files[d].by = "host"
  BY <1>1, <1>2, MeasuredOrCrossed
<1>. QED BY <1>1, <1>3 DEF TypeOK

LEMMA CollectDayWorst ==
  ASSUME TypeOK, NEW t \in Tenant, CollectDay(t)
  PROVE  Worst
<1>1. PICK written \in SUBSET Measured(t) :
        /\ written = Measured(t) \/ Fault
        /\ \A u \in Tenant, c \in Control :
             IF u = t /\ c \in written
               THEN /\ evidence'[u][c] \in File
                    /\ \/ evidence'[u][c].crossed
                       \/ evidence'[u][c].status = ScanStatus(c) /\ evidence'[u][c].by = "scan"
               ELSE evidence'[u][c] = evidence[u][c]
  BY CollectDayWrites
<1>3. \A c \in Control :
        IF c \in written
          THEN evidence'[t][c] \in File /\ (evidence'[t][c].crossed
                 \/ evidence'[t][c].status = ScanStatus(c))
          ELSE evidence'[t][c] = evidence[t][c]
  BY <1>1
<1>4. batch' = batch \ {t} BY DEF CollectDay
<1>. SUFFICES ASSUME NEW c \in Applicable[t]
              PROVE  /\ faults' = faults /\ (\E h \in Specs : c \in Failed(h, t))
                          => /\ evidence'[t][c] # None
                             /\ evidence'[t][c].status = "fail" \/ evidence'[t][c].crossed
                     /\ (evidence'[t][c] # evidence[t][c] /\ evidence'[t][c].status = "fail"
                           /\ ~evidence'[t][c].crossed)
                          => \E g, h \in Specs : \E r \in Rule :
                               c \in Refs[g][r] /\ scan[h][r] = "fail"
  <2>1. phase = "scan" /\ phase' = "scan" /\ \A u \in batch \ batch' : u = t
    BY <1>4 DEF CollectDay
  <2>. QED BY <2>1 DEF Worst
<1>5. ASSUME faults' = faults, NEW h \in Specs, c \in Failed(h, t)
      PROVE  /\ evidence'[t][c] # None
             /\ evidence'[t][c].status = "fail" \/ evidence'[t][c].crossed
  <2>1. written = Measured(t) BY <1>1, <1>5 DEF Fault, TypeOK
  <2>2. ScanStatus(c) = "fail" BY <1>5, OwnFailureShows
  <2>3. c \in written BY <2>1, <2>2 DEF Measured
  <2>. QED BY <1>3, <2>2, <2>3
<1>6. ASSUME evidence'[t][c] # evidence[t][c], evidence'[t][c].status = "fail",
             ~evidence'[t][c].crossed
      PROVE  \E g, h \in Specs : \E r \in Rule : c \in Refs[g][r] /\ scan[h][r] = "fail"
  <2>1. ScanStatus(c) = "fail" BY <1>3, <1>6
  <2>. QED BY <2>1, WorstAcrossHosts
<1>. QED BY <1>5, <1>6

\* Whatever the manifest says, however often a day is collected and hosts are scanned
\* anew, the collection of the day's scans shows every failure of a host, and shows
\* as failed nothing that no host has failed.
THEOREM WorstResult == Spec => FailHasHost
<1>1. TypeOK /\ [Next]_vars => Worst
  <2>. SUFFICES ASSUME TypeOK, [Next]_vars PROVE Worst OBVIOUS
  <2>1. CASE \E t \in Tenant : CollectDay(t) BY <2>1, CollectDayWorst
  <2>2. ASSUME batch' = batch \/ phase # "scan" \/ phase' # "scan" PROVE Worst
    BY <2>2 DEF Worst
  <2>3. \/ \E t \in Tenant : CollectDay(t)
        \/ batch' = batch \/ phase # "scan" \/ phase' # "scan"
    <3>1. CASE Collect
      BY <3>1 DEF Collect, Load, ReadSnapshots, Grade, Write, CollectFails, WriteFails, Abandon,
              course
    <3>2. CASE \/ Start \/ Collected \/ Scanned \/ LocalDone \/ Recollected \/ FleetDone
               \/ Score \/ Kill \/ \E t \in Tenant : FleetTenant(t)
      BY <3>2 DEF Start, Collected, Scanned, LocalDone, Recollected, FleetDone, Score, Kill,
              FleetTenant
    <3>3. CASE \E a \in attempts : Remediate(a) BY <3>3 DEF Remediate
    <3>4. CASE \/ \E c \in Findings : Report(c)
               \/ \E t \in Tenant, c \in Control : DashboardRemediate(t, c)
               \/ DashboardScan
               \/ \E h \in Host : HostScan(h)
               \/ \E t \in Tenant : RecordScan(t)
      BY <3>4 DEF Report, DashboardRemediate, DashboardScan, HostScan, RecordScan, course
    <3>5. CASE UNCHANGED vars BY <3>5 DEF vars, course
    <3>. QED BY <3>1, <3>2, <3>3, <3>4, <3>5 DEF Next
  <2>. QED BY <2>1, <2>2, <2>3
<1>2. Worst => [\A t \in batch \ batch' : \A c \in Applicable[t] :
         LET now == evidence'[t][c]
         IN  phase = "scan" /\ phase' = "scan" =>
               /\ faults' = faults /\ (\E h \in Specs : c \in Failed(h, t))
                    => now # None /\ (now.status = "fail" \/ now.crossed)
               /\ now # evidence[t][c] /\ now.status = "fail" /\ ~now.crossed
                    => \E g, h \in Specs : \E r \in Rule :
                         c \in Refs[g][r] /\ scan[h][r] = "fail"]_vars
  BY DEF Worst
<1>. QED BY <1>1, <1>2, TypeCorrect, PTL DEF Spec, FailHasHost

-----------------------------------------------------------------------------
(* Fixes stand.                                                            *)

\* The grades on their way to a file: one that does not show a fix of its control
\* has been overtaken by it.
Overtaken ==
  \A p \in Process :
    graded[p] # None /\ <<graded[p].control, "ok">> \in snapshots
      => graded[p].status = "pass" \/ graded[p].late

LEMMA LeavesOvertakes ==
  ASSUME TypeOK, Overtaken, NEW c \in Control, NEW outcome, Leaves(c, outcome)
  PROVE  Overtaken'
<1>1. PICK shot \in SUBSET {"ok", "fail"} :
        /\ snapshots' = snapshots \cup {c} \X shot
        /\ graded' = [p \in Process |->
             IF graded[p] # None /\ graded[p].control = c /\ "ok" \in shot
               THEN [graded[p] EXCEPT !.late = @ \/ graded[p].status # "pass"]
               ELSE graded[p]]
  BY DEF Leaves
<1>. SUFFICES ASSUME NEW p \in Process, graded'[p] # None,
                     <<graded'[p].control, "ok">> \in snapshots'
              PROVE  graded'[p].status = "pass" \/ graded'[p].late
  BY DEF Overtaken
<1>2. graded[p] \in Grading BY <1>1 DEF TypeOK
<1>3. CASE graded[p].control = c /\ "ok" \in shot
  BY <1>1, <1>2, <1>3 DEF Grading
<1>4. CASE ~(graded[p].control = c /\ "ok" \in shot)
  <2>1. graded'[p] = graded[p] BY <1>1, <1>4
  <2>2. <<graded[p].control, "ok">> \in snapshots BY <1>1, <1>4, <2>1
  <2>. QED BY <2>1, <2>2 DEF Overtaken
<1>. QED BY <1>3, <1>4

\* A grade that is only marked as clashing is as overtaken as it was.
LEMMA ClashKeeps ==
  ASSUME TypeOK, Overtaken, snapshots' = snapshots,
         \A p \in Process : \/ graded'[p] = graded[p] \/ graded'[p] = None
                           \/ /\ graded[p] # None
                              /\ graded'[p] = [graded[p] EXCEPT !.clash = TRUE]
  PROVE  Overtaken'
<1>1. \A g \in Grading : LET k == [g EXCEPT !.clash = TRUE]
        IN  k.control = g.control /\ k.status = g.status /\ k.late = g.late
  BY DEF Grading
<1>2. \A p \in Process : graded[p] \in Grading \cup {None} BY DEF TypeOK
<1>. SUFFICES ASSUME NEW p \in Process, graded'[p] # None,
                     <<graded'[p].control, "ok">> \in snapshots'
              PROVE  graded'[p].status = "pass" \/ graded'[p].late
  BY DEF Overtaken
<1>3. CASE graded'[p] = graded[p] BY <1>3 DEF Overtaken
<1>4. CASE graded[p] # None /\ graded'[p] = [graded[p] EXCEPT !.clash = TRUE]
  BY <1>1, <1>2, <1>4 DEF Overtaken
<1>. QED BY <1>3, <1>4

LEMMA InitOvertaken == Init => Overtaken
BY DEF Init, Overtaken

LEMMA OvertakenKept ==
  ASSUME TypeOK, Overtaken, [Next]_vars
  PROVE  Overtaken'
<1>1. ASSUME UNCHANGED <<snapshots, graded>> PROVE Overtaken' BY <1>1 DEF Overtaken
<1>2. ASSUME NEW p \in Process, ReadSnapshots(p) PROVE Overtaken'
  <2>1. PICK c \in Control : Grade(p, c, loaded[p] \cup snapshots) BY <1>2 DEF ReadSnapshots
  <2> DEFINE g == [control |-> c, status |-> Derived(c, loaded[p] \cup snapshots),
                   late |-> FALSE, clash |-> FALSE]
  <2>2. graded' = [graded EXCEPT ![p] = g] /\ snapshots' = snapshots
    BY <2>1 DEF Grade, trail
  <2>3. g.control = c /\ (<<c, "ok">> \in snapshots => g.status = "pass")
    BY DEF Derived
  <2> HIDE DEF g
  <2>4. \A q \in Process : graded'[q] = IF q = p THEN g ELSE graded[q]
    BY <2>2 DEF TypeOK
  <2>. QED BY <2>2, <2>3, <2>4 DEF Overtaken
<1>3. ASSUME NEW p \in Process, Write(p) PROVE Overtaken'
  BY <1>3, ClashKeeps DEF Write, Writers, trail
<1>4. ASSUME NEW p \in Process, Abandon(p) PROVE Overtaken'
  BY <1>4, ClashKeeps DEF Abandon, trail, TypeOK
<1>5. ASSUME NEW t \in Tenant, NEW written, NEW by, NEW status, snapshots' = snapshots,
             ScanFiles(t, written, by, status)
      PROVE  Overtaken'
  BY <1>5, ClashKeeps DEF ScanFiles, Writers
<1>6. ASSUME NEW a \in attempts, Remediate(a) PROVE Overtaken'
  <2>1. a.control \in Control BY DEF TypeOK, Attempt
  <2>2. UNCHANGED <<trail, graded>> \/ \E outcome : Leaves(a.control, outcome)
    BY <1>6 DEF Remediate
  <2>. QED BY <1>1, <2>1, <2>2, LeavesOvertakes DEF trail
<1>7. ASSUME NEW t \in Tenant, NEW c \in Control, DashboardRemediate(t, c) PROVE Overtaken'
  BY <1>7, LeavesOvertakes DEF DashboardRemediate
<1>8. CASE Score \/ Kill
  <2>1. Exit /\ snapshots' = snapshots BY <1>8 DEF Score, Kill, trail
  <2>. QED BY <2>1, ClashKeeps DEF Exit, TypeOK
<1>9. ASSUME NEW p \in Process, Load(p) PROVE Overtaken'
  BY <1>1, <1>9 DEF Load, trail
<1>10. CASE \/ Start \/ Collected \/ Scanned \/ LocalDone \/ Recollected \/ FleetDone
            \/ \E t \in Tenant : FleetTenant(t)
  BY <1>1, <1>10 DEF Start, CollectAll, Collected, Scanned, LocalDone, Recollected, FleetDone,
     FleetTenant, trail, collection
<1>11. CASE \/ \E c \in Findings : Report(c)
            \/ DashboardScan
            \/ \E h \in Host : HostScan(h)
  BY <1>1, <1>11 DEF Report, DashboardScan, HostScan, trail, collection
<1>12. ASSUME NEW t \in Tenant, CollectDay(t) PROVE Overtaken'
  BY <1>5, <1>12 DEF CollectDay, trail
<1>13. ASSUME NEW t \in Tenant, RecordScan(t) PROVE Overtaken'
  BY <1>5, <1>13 DEF RecordScan, trail
<1>14. CASE UNCHANGED vars BY <1>1, <1>14 DEF vars, trail, collection
<1>. QED BY <1>2, <1>3, <1>4, <1>6, <1>7, <1>8, <1>9, <1>10, <1>11, <1>12, <1>13, <1>14
         DEF Next, Collect, CollectFails, WriteFails

\* What a file is after a step: as it was; or written by one that knew of the fix, or
\* that the fix or another has crossed, or that measured.
Knows(t, c) ==
  \/ evidence'[t][c] = evidence[t][c]
  \/ /\ evidence'[t][c] \in File
     /\ \/ evidence'[t][c].by = "scan" /\ phase = "scan"
        \/ evidence'[t][c].by = "host"
        \/ evidence'[t][c].crossed
        \/ <<c, "ok">> \in snapshots => evidence'[t][c].status = "pass"

LEMMA WriteKnows ==
  ASSUME TypeOK, Overtaken, NEW p \in Process, Write(p),
         NEW u \in Tenant, NEW d \in Control
  PROVE  Knows(u, d)
<1>1. PICK t \in Tenant, c \in Control, file \in File, own \in File :
        /\ t = current[p] /\ graded[p] \in Grading /\ c = graded[p].control
        /\ own = [status |-> graded[p].status, by |-> "logs", crossed |-> graded[p].late]
        /\ file = own \/ file.crossed
        /\ evidence' = [evidence EXCEPT ![t][c] = file]
  BY WriteParts
<1>2. graded[p] # None BY DEF Write
<1>3. <<c, "ok">> \in snapshots => own.status = "pass" \/ own.crossed
  BY <1>1, <1>2 DEF Overtaken
<1>4. evidence'[u][d] = evidence[u][d] \/ (u = t /\ d = c /\ evidence'[u][d] = file)
  BY <1>1 DEF TypeOK
<1>. QED BY <1>1, <1>3, <1>4 DEF Knows

LEMMA ScanFilesKnow ==
  ASSUME TypeOK, NEW t \in Tenant,
         CollectDay(t) \/ RecordScan(t), NEW u \in Tenant, NEW d \in Control
  PROVE  Knows(u, d)
<1>1. CASE CollectDay(t)
  <2>1. PICK written \in SUBSET Measured(t) :
          \A v \in Tenant, c \in Control :
            IF v = t /\ c \in written
              THEN /\ evidence'[v][c] \in File
                   /\ \/ evidence'[v][c].crossed
                      \/ evidence'[v][c].status = ScanStatus(c) /\ evidence'[v][c].by = "scan"
              ELSE evidence'[v][c] = evidence[v][c]
    BY <1>1, CollectDayWrites
  <2>2. phase = "scan" BY <1>1 DEF CollectDay
  <2>. QED BY <2>1, <2>2 DEF Knows
<1>2. CASE RecordScan(t)
  BY <1>2, RecordScanWrites DEF Knows
<1>. QED BY <1>1, <1>2

LEMMA WriteFailsKnows ==
  ASSUME TypeOK, NEW p \in Process, WriteFails(p), NEW u \in Tenant, NEW d \in Control
  PROVE  Knows(u, d)
<1>1. PICK t \in Tenant, c \in Control, file \in File :
        /\ file.crossed
        /\ evidence' = evidence \/ evidence' = [evidence EXCEPT ![t][c] = file]
  BY WriteFailsParts
<1>2. evidence'[u][d] = evidence[u][d] \/ evidence'[u][d] = file
  <2>1. evidence \in [Tenant -> [Control -> File \cup {None}]] BY DEF TypeOK
  <2>2. CASE evidence' = evidence BY <2>2
  <2>3. CASE evidence' = [evidence EXCEPT ![t][c] = file] BY <2>1, <2>3
  <2>. QED BY <1>1, <2>2, <2>3
<1>. QED BY <1>1, <1>2 DEF Knows

\* Every step writes so.
LEMMA AllKnow ==
  ASSUME TypeOK, Overtaken, [Next]_vars, NEW u \in Tenant, NEW d \in Control
  PROVE  Knows(u, d)
<1>1. ASSUME UNCHANGED evidence PROVE Knows(u, d) BY <1>1 DEF Knows
<1>2. \/ UNCHANGED evidence
      \/ \E p \in Process : Write(p) \/ WriteFails(p)
      \/ \E t \in Tenant : CollectDay(t) \/ RecordScan(t)
  <2>1. CASE Collect
    BY <2>1 DEF Collect, Load, ReadSnapshots, Grade, CollectFails
  <2>2. CASE \/ Start \/ Collected \/ Scanned \/ LocalDone \/ Recollected \/ FleetDone
             \/ Score \/ Kill \/ \E t \in Tenant : FleetTenant(t)
    BY <2>2 DEF Start, Collected, Scanned, LocalDone, Recollected, FleetDone, Score, Kill,
       FleetTenant
  <2>3. CASE \E a \in attempts : Remediate(a) BY <2>3 DEF Remediate
  <2>4. CASE \/ \E c \in Findings : Report(c)
             \/ \E t \in Tenant, c \in Control : DashboardRemediate(t, c)
             \/ DashboardScan
             \/ \E h \in Host : HostScan(h)
    BY <2>4 DEF Report, DashboardRemediate, DashboardScan, HostScan
  <2>5. CASE UNCHANGED vars BY <2>5 DEF vars
  <2>. QED BY <2>1, <2>2, <2>3, <2>4, <2>5 DEF Next
<1>. QED BY <1>1, <1>2, WriteKnows, WriteFailsKnows, ScanFilesKnow

\* The body of FixStands.
Stands ==
  \A t \in Tenant : \A c \in Applicable[t] :
    /\ evidence[t][c] # None /\ evidence[t][c].status = "pass"
    /\ <<c, "ok">> \in snapshots
    => \/ evidence'[t][c].status = "pass" \/ evidence'[t][c].by \in {"scan", "host"}
       \/ evidence'[t][c].crossed

\* A collection that graded a control after its fix, though it read the logs before,
\* does not undo the pass that the fix has earned, for any number of collections.
THEOREM FixesStand == Spec => FixStands
<1>1. TypeOK /\ Overtaken /\ [Next]_vars => Stands
  <2>. SUFFICES ASSUME TypeOK, Overtaken, [Next]_vars, NEW t \in Tenant, NEW c \in Applicable[t]
                PROVE  /\ evidence[t][c] # None /\ evidence[t][c].status = "pass"
                       /\ <<c, "ok">> \in snapshots
                       => \/ evidence'[t][c].status = "pass"
                          \/ evidence'[t][c].by \in {"scan", "host"}
                          \/ evidence'[t][c].crossed
    BY DEF Stands
  <2>1. Knows(t, c) BY AllKnow
  <2>. QED BY <2>1 DEF Knows
<1>2. Stands => [\A t \in Tenant : \A c \in Applicable[t] :
         /\ evidence[t][c] # None /\ evidence[t][c].status = "pass"
         /\ <<c, "ok">> \in snapshots
         => \/ evidence'[t][c].status = "pass" \/ evidence'[t][c].by \in {"scan", "host"}
            \/ evidence'[t][c].crossed]_vars
  BY DEF Stands
<1>3. TypeOK /\ Overtaken /\ [Next]_vars => Overtaken' BY OvertakenKept
<1>. QED BY <1>1, <1>2, <1>3, InitOvertaken, TypeCorrect, PTL DEF Spec, FixStands

-----------------------------------------------------------------------------
(* What a run that ends with ok has done.                                  *)

\* The nightly job has still to write this file.
Ahead(t, c) ==
  t \in queue["night"] \/ (t = current["night"] /\ c \in todo["night"])

\* The first collection of a run leaves no file as it was, unless it raised.
Renewed ==
  /\ phase = "collect" =>
       \A t \in Tenant : \A c \in Applicable[t] :
         <<t, c>> \in fresh \/ Ahead(t, c) \/ t \in missed
  /\ phase \notin {"idle", "collect", "done"} =>
       \A t \in Tenant : \A c \in Applicable[t] : <<t, c>> \in fresh \/ t \in errors

\* The file shows a pass, or was crossed, or measured on a host.
Shown(t, c) ==
  /\ evidence[t][c] # None
  /\ evidence[t][c].status = "pass" \/ evidence[t][c].crossed \/ evidence[t][c].by = "host"

\* What an applied fix has come to: its control is shown so, in every tenant that it
\* applies to and whose collection has not raised.
Settled(a) ==
  \A t \in Tenant \ missed : a.control \in Applicable[t] => Shown(t, a.control)

\* Or the collection in progress has still to write that file.
Settling(a) ==
  \A t \in Tenant \ missed : a.control \in Applicable[t] =>
    Shown(t, a.control) \/ Ahead(t, a.control)

\* Where a fix stands in each phase.  The local pass leaves no host in its
\* attempts, the fleet pass names one: what the local pass has applied is settled
\* before the fleet pass begins, what the fleet pass applies is not.
Followed ==
  /\ \A a \in applied : <<a.control, "ok">> \in snapshots
  /\ phase \in {"idle", "done", "collect", "scan"} => applied = {}
  /\ phase = "local" => \A a \in attempts : a.host = None
  /\ phase = "fleet" => \A a \in attempts : a.host # None
  /\ phase = "recollect" => attempts = {}
  /\ phase \in {"local", "recollect", "score"} => \A a \in applied : a.host = None
  /\ phase \in {"recollect", "recollect_fleet"} => \A a \in applied : Settling(a)
  /\ phase \in {"fleet", "score"} => \A a \in applied : a.host = None => Settled(a)

\* No step outside the phase that collects the scans takes back what is shown of a
\* fix.
LEMMA ShownStands ==
  ASSUME TypeOK, Overtaken, [Next]_vars, phase # "scan",
         NEW t \in Tenant, NEW c \in Control, <<c, "ok">> \in snapshots, Shown(t, c)
  PROVE  Shown(t, c)'
<1>1. Knows(t, c) BY AllKnow
<1>. QED BY <1>1 DEF Knows, Shown

\* One step of a collection does what was ahead, leaves it ahead, or counts the
\* tenant as missed.
LEMMA AheadIsDone ==
  ASSUME TypeOK, Overtaken, NEW p \in Process,
         Load(p) \/ ReadSnapshots(p) \/ Write(p) \/ CollectFails(p) \/ WriteFails(p),
         NEW t \in Tenant, NEW c \in Applicable[t]
  PROVE  /\ Ahead(t, c) =>
              \/ Ahead(t, c)' \/ t \in missed'
              \/ /\ <<t, c>> \in fresh'
                 /\ <<c, "ok">> \in snapshots => Shown(t, c)'
         /\ <<t, c>> \in fresh => <<t, c>> \in fresh'
<1>1. CASE Load(p)
  <2>1. PICK u \in queue[p] :
          /\ queue' = [queue EXCEPT ![p] = @ \ {u}]
          /\ current' = [current EXCEPT ![p] = IF Applicable[u] = {} THEN None ELSE u]
          /\ todo' = [todo EXCEPT ![p] = Applicable[u]]
    BY <1>1 DEF Load
  <2>2. current[p] = None /\ fresh' = fresh BY <1>1 DEF Load
  <2>3. ASSUME Ahead(t, c) PROVE Ahead(t, c)'
    <3>1. CASE p = "night" /\ u = t
      BY <2>1, <3>1 DEF Ahead, TypeOK
    <3>2. CASE p # "night" \/ u # t
      BY <2>1, <2>2, <2>3, <3>2 DEF Ahead, TypeOK
    <3>. QED BY <3>1, <3>2
  <2>. QED BY <2>2, <2>3
<1>2. CASE ReadSnapshots(p)
  BY <1>2 DEF ReadSnapshots, Grade, Ahead
<1>3. CASE Write(p)
  <2>1. PICK u \in Tenant, d \in Control, file \in File, own \in File :
          /\ u = current[p] /\ graded[p] \in Grading /\ d = graded[p].control
          /\ own = [status |-> graded[p].status, by |-> "logs", crossed |-> graded[p].late]
          /\ file = own \/ file.crossed
          /\ evidence' = [evidence EXCEPT ![u][d] = file]
          /\ fresh' = fresh \cup {<<u, d>>}
          /\ todo' = [todo EXCEPT ![p] = @ \ {d}]
          /\ current' = [current EXCEPT ![p] = IF todo[p] \ {d} = {} THEN None ELSE u]
    BY <1>3, WriteParts
  <2>2. queue' = queue /\ graded[p] # None BY <1>3 DEF Write
  <2>3. <<d, "ok">> \in snapshots => Shown(u, d)'
    <3>1. evidence'[u][d] = file BY <2>1 DEF TypeOK
    <3>2. <<d, "ok">> \in snapshots => graded[p].status = "pass" \/ graded[p].late
      BY <2>1, <2>2 DEF Overtaken
    <3>3. own.status = graded[p].status /\ own.crossed = graded[p].late BY <2>1
    <3>4. <<d, "ok">> \in snapshots => file.status = "pass" \/ file.crossed
      BY <2>1, <3>2, <3>3
    <3>. QED BY <3>1, <3>4 DEF Shown
  <2>4. ASSUME Ahead(t, c), <<t, c>> # <<u, d>> PROVE Ahead(t, c)'
    <3>1. CASE t \in queue["night"] BY <2>2, <3>1 DEF Ahead
    <3>2. CASE t = current["night"] /\ c \in todo["night"]
      <4>1. CASE p = "night"
        <5>1. t = u /\ c \in todo[p] \ {d} BY <2>1, <2>4, <3>2, <4>1
        <5>. QED BY <2>1, <3>2, <4>1, <5>1 DEF Ahead, TypeOK
      <4>2. CASE p # "night"
        <5>1. todo'["night"] = todo["night"] /\ current'["night"] = current["night"]
          BY <2>1, <4>2 DEF TypeOK
        <5>. QED BY <3>2, <5>1 DEF Ahead
      <4>. QED BY <4>1, <4>2
    <3>. QED BY <2>4, <3>1, <3>2 DEF Ahead
  <2>. QED BY <2>1, <2>3, <2>4
<1>4. ASSUME Abandon(p) PROVE (Ahead(t, c) => Ahead(t, c)' \/ t \in missed') /\ fresh' = fresh
  <2>1. queue' = queue /\ fresh' = fresh BY <1>4 DEF Abandon
  <2>2. ASSUME Ahead(t, c) PROVE Ahead(t, c)' \/ t \in missed'
    <3>1. CASE p = "night"
      BY <1>4, <2>1, <2>2, <3>1 DEF Abandon, Ahead, TypeOK
    <3>2. CASE p # "night"
      BY <1>4, <2>1, <2>2, <3>2 DEF Abandon, Ahead, TypeOK
    <3>. QED BY <3>1, <3>2
  <2>. QED BY <2>1, <2>2
<1>. QED BY <1>1, <1>2, <1>3, <1>4 DEF CollectFails, WriteFails

\* What else a step of a collection leaves alone.
LEMMA CollectFrame ==
  ASSUME NEW p \in Process,
         Load(p) \/ ReadSnapshots(p) \/ Write(p) \/ CollectFails(p) \/ WriteFails(p)
  PROVE  /\ UNCHANGED <<phase, attempts, applied, errors, report, snapshots>>
         /\ missed \subseteq missed'
<1>1. CASE Load(p) BY <1>1 DEF Load, course, trail
<1>2. CASE ReadSnapshots(p) BY <1>2 DEF ReadSnapshots, Grade, course, trail
<1>3. CASE Write(p) BY <1>3 DEF Write, trail
<1>4. ASSUME Abandon(p)
      PROVE  /\ UNCHANGED <<phase, attempts, applied, errors, report, snapshots>>
             /\ missed \subseteq missed'
  <2>1. missed' = missed \cup {current[p]} \/ missed' = missed
    BY <1>4, Zenon DEF Abandon
  <2>2. UNCHANGED <<trail, course>> BY <1>4, Zenon DEF Abandon
  <2>. QED BY <2>1, <2>2 DEF course, trail
<1>. QED BY <1>1, <1>2, <1>3, <1>4 DEF CollectFails, WriteFails

\* All tenants are ahead when a collection begins.
LEMMA AllAhead ==
  ASSUME TypeOK, CollectAll, NEW t \in Tenant, NEW c
  PROVE  Ahead(t, c)'
BY DEF CollectAll, Ahead, TypeOK

\* Steps of the rest of the system change neither the course of the job nor what
\* is ahead of it, and take no snapshot away.
LEMMA OthersFrame ==
  ASSUME TypeOK,
         \/ \E c \in Findings : Report(c)
         \/ \E t \in Tenant, c \in Control : DashboardRemediate(t, c)
         \/ DashboardScan
         \/ \E h \in Host : HostScan(h)
         \/ \E t \in Tenant : RecordScan(t)
  PROVE  /\ UNCHANGED <<phase, attempts, applied, errors, report, fresh, missed>>
         /\ \A t, c : Ahead(t, c) => Ahead(t, c)'
         /\ snapshots \subseteq snapshots'
<1>1. CASE \E c \in Findings : Report(c)
  BY <1>1 DEF Report, course, collection, Ahead
<1>2. CASE \E t \in Tenant, c \in Control : DashboardRemediate(t, c)
  <2>1. PICK t \in Tenant, c \in Control : DashboardRemediate(t, c) BY <1>2
  <2>2. snapshots \subseteq snapshots' BY <2>1 DEF DashboardRemediate, Leaves
  <2>3. queue'["night"] = queue["night"] BY <2>1 DEF DashboardRemediate, TypeOK
  <2>4. UNCHANGED <<course, fresh, current, todo, missed>>
    BY <2>1 DEF DashboardRemediate
  <2>. QED BY <2>2, <2>3, <2>4 DEF course, Ahead
<1>3. CASE DashboardScan
  BY <1>3 DEF DashboardScan, course, trail, Ahead, TypeOK
<1>4. CASE \E h \in Host : HostScan(h)
  BY <1>4 DEF HostScan, course, trail, collection, Ahead
<1>5. CASE \E t \in Tenant : RecordScan(t)
  BY <1>5 DEF RecordScan, course, trail, Ahead
<1>. QED BY <1>1, <1>2, <1>3, <1>4, <1>5

\* The body of OkIsFresh.
EndsFresh ==
  phase # "done" /\ phase' = "done" /\ report'.ok =>
    \A t \in Tenant : \A c \in Applicable[t] : <<t, c>> \in fresh

\* Only Score ends a run with a report; an ok counts the errors of the first
\* collection.
LEMMA OnlyScoreEnds ==
  ASSUME TypeOK, [Next]_vars, phase # "done", phase' = "done"
  PROVE  Score
<1>1. CASE Collect
  <2>1. phase' = phase BY <1>1, CollectFrame DEF Collect
  <2>. QED BY <2>1
<1>2. CASE \/ Start \/ Collected \/ Scanned \/ LocalDone \/ Recollected \/ FleetDone
           \/ Kill \/ \E t \in Tenant : CollectDay(t) \/ FleetTenant(t)
  BY <1>2 DEF Start, Collected, Scanned, LocalDone, Recollected, FleetDone, Kill,
     CollectDay, FleetTenant
<1>3. CASE \E a \in attempts : Remediate(a) BY <1>3 DEF Remediate
<1>4. CASE \/ \E c \in Findings : Report(c)
           \/ \E t \in Tenant, c \in Control : DashboardRemediate(t, c)
           \/ DashboardScan
           \/ \E h \in Host : HostScan(h)
           \/ \E t \in Tenant : RecordScan(t)
  <2>1. phase' = phase BY <1>4, OthersFrame
  <2>. QED BY <2>1
<1>5. CASE UNCHANGED vars BY <1>5 DEF vars, course
<1>. QED BY <1>1, <1>2, <1>3, <1>4, <1>5 DEF Next

LEMMA OkReport ==
  ASSUME Score, report'.ok
  PROVE  errors = {} /\ report'.passes = Passes
<1>1. \/ report' = [ok |-> errors = {}, passes |-> Passes]
      \/ report' = [ok |-> FALSE, passes |-> [t \in Tenant |-> {}]]
  BY Zenon DEF Score
<1>2. CASE errors = {}
  <2>1. ~(report' = [ok |-> FALSE, passes |-> [t \in Tenant |-> {}]]) OBVIOUS
  <2>. QED BY <1>1, <1>2, <2>1
<1>3. CASE errors # {}
  <2>1. (errors = {}) = FALSE BY <1>3
  <2>2. CASE report' = [ok |-> FALSE, passes |-> [t \in Tenant |-> {}]] BY <2>2
  <2>3. CASE report' = [ok |-> FALSE, passes |-> Passes] BY <2>3
  <2>. QED BY <1>1, <2>1, <2>2, <2>3
<1>. QED BY <1>2, <1>3

\* A run that ends with ok has written the evidence of all that it scores.
THEOREM RunsRenewAll == Spec => OkIsFresh
<1>1. Init => Renewed BY DEF Init, Renewed
<1>2. TypeOK /\ Overtaken /\ Renewed /\ [Next]_vars => Renewed'
  <2>. SUFFICES ASSUME TypeOK, Overtaken, Renewed, [Next]_vars PROVE Renewed' OBVIOUS
  <2>1. ASSUME NEW p \in Process,
               Load(p) \/ ReadSnapshots(p) \/ Write(p) \/ CollectFails(p) \/ WriteFails(p)
        PROVE Renewed'
    <3>1. \A t \in Tenant : \A c \in Applicable[t] :
            /\ Ahead(t, c) => Ahead(t, c)' \/ t \in missed' \/ <<t, c>> \in fresh'
            /\ <<t, c>> \in fresh => <<t, c>> \in fresh'
      BY <2>1, AheadIsDone
    <3>2. UNCHANGED <<phase, errors>> /\ missed \subseteq missed' BY <2>1, CollectFrame
    <3>. QED BY <3>1, <3>2 DEF Renewed
  <2>2. CASE Start
    <3>1. phase' = "collect" /\ CollectAll BY <2>2 DEF Start
    <3>. QED BY <3>1, AllAhead DEF Renewed
  <2>3. CASE Collected
    <3>1. /\ phase = "collect" /\ phase' = "scan" /\ errors' = missed
          /\ queue["night"] = {} /\ current["night"] = None /\ fresh' = fresh
      BY <2>3 DEF Collected, Idle
    <3>2. \A t \in Tenant : \A c : ~Ahead(t, c) BY <3>1 DEF Ahead
    <3>. QED BY <3>1, <3>2 DEF Renewed
  <2>4. CASE Score \/ Kill BY <2>4 DEF Score, Kill, Renewed
  <2>5. ASSUME phase \notin {"idle", "collect", "done"}, phase' \notin {"idle", "collect", "done"},
               UNCHANGED <<errors, fresh>>
        PROVE  Renewed'
    BY <2>5 DEF Renewed
  <2>6. CASE Scanned BY <2>5, <2>6 DEF Scanned
  <2>7. CASE LocalDone BY <2>5, <2>7 DEF LocalDone
  <2>8. CASE Recollected BY <2>5, <2>8 DEF Recollected
  <2>9. CASE FleetDone BY <2>5, <2>9 DEF FleetDone
  <2>10. ASSUME NEW t \in Tenant, CollectDay(t) \/ FleetTenant(t) PROVE Renewed'
    BY <2>5, <2>10 DEF CollectDay, FleetTenant
  <2>12. ASSUME NEW a \in attempts, Remediate(a) PROVE Renewed'
    BY <2>5, <2>12 DEF Remediate
  <2>13. CASE \/ \E c \in Findings : Report(c)
              \/ \E t \in Tenant, c \in Control : DashboardRemediate(t, c)
              \/ DashboardScan
              \/ \E h \in Host : HostScan(h)
              \/ \E t \in Tenant : RecordScan(t)
    BY <2>13, OthersFrame DEF Renewed
  <2>14. CASE UNCHANGED vars
    BY <2>14 DEF vars, course, collection, Renewed, Ahead
  <2>. QED BY <2>1, <2>2, <2>3, <2>4, <2>6, <2>7, <2>8, <2>9, <2>10, <2>12, <2>13,
           <2>14 DEF Next, Collect
<1>3. TypeOK /\ Renewed /\ [Next]_vars => EndsFresh
  <2>. SUFFICES ASSUME TypeOK, Renewed, [Next]_vars,
                       phase # "done", phase' = "done", report'.ok
                PROVE  \A t \in Tenant : \A c \in Applicable[t] : <<t, c>> \in fresh
    BY DEF EndsFresh
  <2>1. Score BY OnlyScoreEnds
  <2>2. phase \notin {"idle", "collect", "done"} BY <2>1 DEF Score
  <2>3. errors = {} BY <2>1, OkReport
  <2>. QED BY <2>2, <2>3 DEF Renewed
<1>4. EndsFresh => [phase # "done" /\ phase' = "done" /\ report'.ok =>
         \A t \in Tenant : \A c \in Applicable[t] : <<t, c>> \in fresh]_vars
  BY DEF EndsFresh
<1>5. TypeOK /\ Overtaken /\ [Next]_vars => Overtaken' BY OvertakenKept
<1>. QED BY <1>1, <1>2, <1>3, <1>4, <1>5, InitOvertaken, TypeCorrect, PTL DEF Spec, OkIsFresh

\* What keeps what is settled so: no pass is taken back, no miss forgotten.
LEMMA SettledStands ==
  ASSUME NEW a, missed \subseteq missed',
         \A t \in Tenant : a.control \in Applicable[t] /\ Shown(t, a.control)
                             => Shown(t, a.control)'
  PROVE  Settled(a) => Settled(a)'
BY DEF Settled

\* The same of what is being settled: one file after the other is written.
LEMMA SettlingStands ==
  ASSUME NEW a, missed \subseteq missed',
         \A t \in Tenant : a.control \in Applicable[t] =>
           /\ Shown(t, a.control) => Shown(t, a.control)'
           /\ Ahead(t, a.control) =>
                Ahead(t, a.control)' \/ t \in missed' \/ Shown(t, a.control)'
  PROVE  Settling(a) => Settling(a)'
BY DEF Settling

LEMMA CollectFollows ==
  ASSUME TypeOK, Overtaken, Followed, [Next]_vars, NEW p \in Process,
         Load(p) \/ ReadSnapshots(p) \/ Write(p) \/ CollectFails(p) \/ WriteFails(p)
  PROVE  Followed'
<1>1. /\ UNCHANGED <<phase, attempts, applied, errors, report, snapshots>>
      /\ missed \subseteq missed'
  BY CollectFrame
<1>2. ASSUME NEW a \in applied
      PROVE  (Settled(a) => Settled(a)') /\ (Settling(a) => Settling(a)')
  <2>1. <<a.control, "ok">> \in snapshots /\ phase # "scan" BY DEF Followed
  <2>2. \A t \in Tenant : a.control \in Applicable[t] =>
          /\ Shown(t, a.control) => Shown(t, a.control)'
          /\ Ahead(t, a.control) =>
               Ahead(t, a.control)' \/ t \in missed' \/ Shown(t, a.control)'
    BY <2>1, AheadIsDone, ShownStands
  <2>. QED BY <1>1, <2>2, SettledStands, SettlingStands
<1>. QED BY <1>1, <1>2 DEF Followed

LEMMA OthersFollow ==
  ASSUME TypeOK, Overtaken, Followed, [Next]_vars,
         \/ \E c \in Findings : Report(c)
         \/ \E t \in Tenant, c \in Control : DashboardRemediate(t, c)
         \/ DashboardScan
         \/ \E h \in Host : HostScan(h)
         \/ \E t \in Tenant : RecordScan(t)
  PROVE  Followed'
<1>1. /\ UNCHANGED <<phase, attempts, applied, errors, report, fresh, missed>>
      /\ \A t, c : Ahead(t, c) => Ahead(t, c)'
      /\ snapshots \subseteq snapshots'
  BY OthersFrame
<1>2. ASSUME NEW a \in applied
      PROVE  (Settled(a) => Settled(a)') /\ (Settling(a) => Settling(a)')
  <2>1. <<a.control, "ok">> \in snapshots /\ phase # "scan" BY DEF Followed
  <2>2. \A t \in Tenant : a.control \in Applicable[t] /\ Shown(t, a.control)
          => Shown(t, a.control)'
    BY <2>1, ShownStands
  <2>. QED BY <1>1, <2>2, SettledStands, SettlingStands
<1>. QED BY <1>1, <1>2 DEF Followed

\* A fix that was applied has its snapshot by then.
LEMMA RemediateFollows ==
  ASSUME TypeOK, Followed, NEW a \in attempts, Remediate(a)
  PROVE  Followed'
<1>1. /\ phase \in {"local", "fleet"} /\ attempts' = attempts \ {a}
      /\ UNCHANGED <<evidence, phase, errors, report, missed>>
  BY DEF Remediate
<1>2. /\ snapshots \subseteq snapshots'
      /\ \/ applied' = applied
         \/ applied' = applied \cup {a} /\ <<a.control, "ok">> \in snapshots'
  <2>1. CASE <<a.tenant, a.control>> \notin Permits
    <3>1. UNCHANGED <<trail, applied>> BY <2>1 DEF Remediate
    <3>. QED BY <3>1 DEF trail
  <2>2. CASE <<a.tenant, a.control>> \in Permits
    <3>1. PICK outcome \in {"applied", "failed", "lost"} :
            /\ Leaves(a.control, outcome)
            /\ applied' = IF outcome = "applied" THEN applied \cup {a} ELSE applied
      BY <2>2 DEF Remediate
    <3>2. snapshots \subseteq snapshots' BY <3>1 DEF Leaves
    <3>3. outcome = "applied" => <<a.control, "ok">> \in snapshots' BY <3>1 DEF Leaves
    <3>4. outcome # "applied" => applied' = applied BY <3>1
    <3>5. outcome = "applied" => applied' = applied \cup {a} BY <3>1
    <3>. QED BY <3>2, <3>3, <3>4, <3>5, Zenon
  <2>. QED BY <2>1, <2>2
<1>3. \A b \in applied' : <<b.control, "ok">> \in snapshots' BY <1>2 DEF Followed
<1>4. \A b : Settled(b) => Settled(b)' BY <1>1 DEF Settled, Shown
<1>5. CASE phase = "local"
  BY <1>1, <1>2, <1>3, <1>5 DEF Followed
<1>6. CASE phase = "fleet"
  <2>1. a.host # None BY <1>6 DEF Followed
  <2>2. \A b \in applied' : b.host = None => Settled(b)'
    BY <1>2, <1>4, <1>6, <2>1 DEF Followed
  <2>. QED BY <1>1, <1>3, <1>6, <2>2 DEF Followed
<1>. QED BY <1>1, <1>5, <1>6

LEMMA PhasesFollow ==
  ASSUME TypeOK, Followed,
         \/ Start \/ Collected \/ Scanned \/ LocalDone \/ Recollected \/ FleetDone
         \/ Score \/ Kill \/ \E t \in Tenant : CollectDay(t) \/ FleetTenant(t)
  PROVE  Followed'
<1>1. CASE Start BY <1>1 DEF Start, trail, Followed
<1>2. CASE Collected BY <1>2 DEF Collected, trail, Followed
<1>3. CASE Scanned
  <2>1. applied = {} /\ phase' = "local" /\ attempts' = LocalAttempts /\ applied' = applied
    BY <1>3 DEF Scanned, Followed
  <2>. QED BY <2>1 DEF Followed, LocalAttempts
<1>4. CASE LocalDone
  <2>1. /\ phase = "local" /\ UNCHANGED <<applied, attempts, snapshots>> /\ attempts = {}
        /\ \A a \in applied : a.host = None
    BY <1>4 DEF LocalDone, trail, Followed
  <2>2. CASE LocalApplied
    <3>1. CollectAll /\ phase' = "recollect" BY <1>4, <2>2 DEF LocalDone
    <3>2. \A a \in applied : Settling(a)' BY <3>1, AllAhead DEF Settling
    <3>. QED BY <2>1, <3>1, <3>2 DEF Followed
  <2>3. CASE ~LocalApplied
    <3>1. applied = {} BY <2>1, <2>3 DEF LocalApplied
    <3>2. phase' = "fleet" BY <1>4, <2>3 DEF LocalDone
    <3>. QED BY <2>1, <3>1, <3>2 DEF Followed
  <2>. QED BY <2>2, <2>3
<1>5. CASE Recollected
  <2>1. /\ phase = "recollect" /\ phase' = "fleet" /\ attempts' = attempts
        /\ queue["night"] = {} /\ current["night"] = None
        /\ UNCHANGED <<applied, snapshots, evidence, missed>>
    BY <1>5 DEF Recollected, Idle, trail, collection
  <2>2. \A t \in Tenant : \A c : ~Ahead(t, c) BY <2>1 DEF Ahead
  <2>3. \A a \in applied : Settled(a)'
    BY <2>1, <2>2 DEF Followed, Settling, Settled, Shown
  <2>. QED BY <2>1, <2>3 DEF Followed
<1>6. CASE FleetDone
  <2>1. phase = "fleet" /\ UNCHANGED <<applied, snapshots, evidence>>
    BY <1>6 DEF FleetDone, trail
  <2>2. CASE FleetApplied
    <3>1. CollectAll /\ phase' = "recollect_fleet" BY <1>6, <2>2 DEF FleetDone
    <3>2. \A a \in applied : Settling(a)' BY <3>1, AllAhead DEF Settling
    <3>. QED BY <2>1, <3>1, <3>2 DEF Followed
  <2>3. CASE ~FleetApplied
    <3>1. phase' = "score" /\ missed' = missed BY <1>6, <2>3 DEF FleetDone, collection
    <3>2. \A a \in applied : a.host = None BY <2>3 DEF FleetApplied
    <3>3. \A a \in applied : Settled(a)'
      BY <2>1, <3>1, <3>2 DEF Followed, Settled, Shown
    <3>. QED BY <2>1, <3>1, <3>2, <3>3 DEF Followed
  <2>. QED BY <2>2, <2>3
<1>7. CASE Score \/ Kill
  <2>1. applied' = {} /\ phase' \in {"idle", "done"} BY <1>7 DEF Score, Kill, Exit
  <2>. QED BY <2>1 DEF Followed
<1>8. ASSUME NEW t \in Tenant, CollectDay(t) PROVE Followed'
  BY <1>8 DEF CollectDay, trail, Followed
<1>9. ASSUME NEW t \in Tenant, FleetTenant(t) PROVE Followed'
  <2>1. /\ phase = "fleet" /\ attempts' = FleetAttempts(t)
        /\ UNCHANGED <<phase, applied, snapshots, evidence, missed>>
    BY <1>9 DEF FleetTenant, trail, collection
  <2>2. \A a \in FleetAttempts(t) : a.host # None BY DEF FleetAttempts, Specs
  <2>3. \A a : Settled(a) => Settled(a)' BY <2>1 DEF Settled, Shown
  <2>. QED BY <2>1, <2>2, <2>3 DEF Followed
<1>. QED BY <1>1, <1>2, <1>3, <1>4, <1>5, <1>6, <1>7, <1>8, <1>9

\* The body of AppliedIsGraded.
EndsGraded ==
  phase # "done" /\ phase' = "done" /\ report'.ok =>
    \A a \in applied : \A t \in Tenant \ missed :
      a.control \in Applicable[t] =>
        \/ a.control \in report'.passes[t]
        \/ evidence[t][a.control].crossed
        \/ evidence[t][a.control].by = "host"

LEMMA FollowedEnds ==
  ASSUME TypeOK, Followed, [Next]_vars
  PROVE  EndsGraded
<1>. SUFFICES ASSUME phase # "done", phase' = "done", report'.ok,
                     NEW a \in applied, NEW t \in Tenant \ missed, a.control \in Applicable[t]
              PROVE  \/ a.control \in report'.passes[t]
                     \/ evidence[t][a.control].crossed
                     \/ evidence[t][a.control].by = "host"
  BY DEF EndsGraded
<1>1. Score BY OnlyScoreEnds
<1>2. phase = "score" \/ (phase = "recollect_fleet" /\ Idle("night"))
  BY <1>1, Zenon DEF Score
<1>3. Settled(a)
  <2>1. CASE phase = "score" BY <2>1 DEF Followed
  <2>2. CASE phase = "recollect_fleet" /\ Idle("night")
    <3>1. \A u \in Tenant : \A c : ~Ahead(u, c) BY <2>2 DEF Ahead, Idle
    <3>. QED BY <2>2, <3>1 DEF Followed, Settling, Settled
  <2>. QED BY <1>2, <2>1, <2>2
<1>4. Shown(t, a.control) BY <1>3 DEF Settled
<1>5. report'.passes = Passes BY <1>1, OkReport
<1>. QED BY <1>4, <1>5 DEF Passes, Shown

\* A run that reports ok grades what it has applied as passed, for any number of
\* tenants, hosts, faults, and collections of the dashboard in between, wherever the
\* last write of the file has not crossed the fix or another write.
THEOREM AppliedPass == Spec => AppliedIsGraded
<1>1. Init => Followed BY DEF Init, Followed
<1>2. TypeOK /\ Overtaken /\ Followed /\ [Next]_vars => Followed'
  <2>. SUFFICES ASSUME TypeOK, Overtaken, Followed, [Next]_vars PROVE Followed' OBVIOUS
  <2>1. CASE UNCHANGED vars
    <3>1. /\ UNCHANGED <<phase, attempts, applied, report, evidence, missed, snapshots>>
          /\ UNCHANGED <<queue, current, todo>>
      BY <2>1 DEF vars, course, collection, trail
    <3>2. \A a : Settled(a)' = Settled(a) BY <3>1 DEF Settled, Shown
    <3>3. \A a : Settling(a)' = Settling(a) BY <3>1 DEF Settling, Shown, Ahead
    <3>. QED BY <3>1, <3>2, <3>3 DEF Followed
  <2>. QED BY <2>1, CollectFollows, OthersFollow, RemediateFollows, PhasesFollow
           DEF Next, Collect
<1>3. TypeOK /\ Followed /\ [Next]_vars => EndsGraded BY FollowedEnds
<1>4. EndsGraded => [phase # "done" /\ phase' = "done" /\ report'.ok =>
         \A a \in applied : \A t \in Tenant \ missed :
           a.control \in Applicable[t] =>
             \/ a.control \in report'.passes[t]
             \/ evidence[t][a.control].crossed
             \/ evidence[t][a.control].by = "host"]_vars
  BY DEF EndsGraded
<1>5. TypeOK /\ Overtaken /\ [Next]_vars => Overtaken' BY OvertakenKept
<1>. QED BY <1>1, <1>2, <1>3, <1>4, <1>5, InitOvertaken, TypeCorrect, PTL
         DEF Spec, AppliedIsGraded
=============================================================================
