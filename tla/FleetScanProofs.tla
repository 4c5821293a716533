---------------------------- MODULE FleetScanProofs ----------------------------
(***************************************************************************)
(* What a run of the scanner keeps for any hosts, rules, exclusions, runs  *)
(* and faults.  An evaluation that is still on the host carries the        *)
(* exclusions of its own scan; so does every file that is made of it, and  *)
(* so does the remediation, which goes by what failed in it.               *)
(***************************************************************************)
EXTENDS FleetScan, TLAPS

USE ScanAssumption

\* The places of a thread between its evaluation as root and the end.
Evaluated == {"fetch", "fetching", "fetch_pre", "remediate", "post_eval", "fetch_post",
              "fetching_post"}

\* No excluded rule is graded on h.
Clean(rows, h) == \A r \in Rule : <<h, r>> \in Ignored => rows[r] = "notselected"

\* A thread holds an evaluation exactly from where it was made.
Held == /\ DOMAIN read = Writer
        /\ rpc = "idle" => \A h \in Host : w[h] = "idle"
        /\ \A h \in Host : /\ w[h] \in Evaluated => remote[h] \in Results
                           /\ w[h] \notin Evaluated => remote[h] = None
                           /\ tailored[h] \/ h \in untailored

\* What it holds was made with the tailoring that it has.
RemoteClean == \A h \in Host : tailored[h] /\ remote[h] # None => Clean(remote[h], h)

\* And so were the files.
FileClean == \A f \in File : Readable(f) /\ f[1] \notin untailored => Clean(file[f], f[1])

\* While evidence is written, the files are as they were read, and a control
\* that a host violates is failing or still to be written.
RunFiles == {f \in File : f[2] = "now" /\ res[f[1]] = "ok" /\ Readable(f)}
Fails(c) == \E f \in RunFiles : Violates(file[f], c)
Merged == rpc = "writing" =>
  /\ read["run"] = [f \in RunFiles |-> file[f]]
  /\ \A c \in Control : mode = "fleet" /\ evidence[c].by = "run" /\ Fails(c) =>
       c \in left["run"] \/ evidence[c].status = "fail"

ScanInv == TypeOK /\ Held /\ RemoteClean /\ FileClean /\ Merged

-----------------------------------------------------------------------------
\* An evaluation is a set of results, and leaves out what is excluded.
LEMMA EvalTyped ==
  ASSUME NEW h \in Host, NEW root \in BOOLEAN
  PROVE  Eval(h, root) \in Results /\ (tailored[h] => Clean(Eval(h, root), h))
BY DEF Eval, Results, Clean

LEMMA NotRows == None \notin Results /\ Torn \notin Results /\ Torn # None
BY DEF Results

\* A rule that fails in one file fails in the merge, and fails its control.
LEMMA OneFails ==
  ASSUME NEW rd, NEW f \in DOMAIN rd, NEW c \in Control, Violates(rd[f], c), NEW p
  PROVE  Rollup(rd, c) = "fail" /\ c \in Writes(p, rd)
<1>1. PICK r \in Rule : RefOf[r] = c /\ rd[f][r] = "fail" BY DEF Violates
<1>2. Merge(rd, r) = "fail" BY <1>1, Zenon DEF Merge
<1>3. Rollup(rd, c) = "fail" BY <1>1, <1>2, Zenon DEF Rollup
<1>4. "fail" # "dropped" OBVIOUS
<1>. QED BY <1>1, <1>2, <1>3, <1>4, Zenon DEF Writes

LEMMA RollupTyped ==
  ASSUME NEW rd, NEW c PROVE Rollup(rd, c) \in {"pass", "fail", "manual_review"}
BY Zenon DEF Rollup

LEMMA InitInductive == Init => ScanInv
<1>. SUFFICES ASSUME Init PROVE ScanInv OBVIOUS
<1>. USE DEF Init
<1>1. TypeOK
  <2>1. evidence \in [Control -> [status : {"none", "pass", "fail", "manual_review"},
                                  by : Writer \cup {"none"}]]
    OBVIOUS
  <2>2. file \in [File -> Results \cup {None, Torn}] OBVIOUS
  <2>3. w \in [Host -> Places] /\ res \in [Host -> {"none", "ok", "not_ok", "error"}] BY DEF Places
  <2>4. left \in [Writer -> SUBSET Control] /\ todo \subseteq File OBVIOUS
  <2>5. /\ failing \in [Host -> SUBSET Rule]
        /\ rpc \in {"idle", "scanning", "writing"} /\ cpc \in {"idle", "reading", "writing"}
        /\ task \in {"none", "running", "done", "failed"} /\ mode \in {"fleet", "host"}
        /\ remediate \in BOOLEAN /\ untailored \subseteq Host
    OBVIOUS
  <2>6. runs \in 0..MaxRuns /\ faults \in 0..MaxFaults
    <3>1. runs = 0 /\ faults = 0 OBVIOUS
    <3>2. MaxRuns \in Nat /\ MaxFaults \in Nat BY ScanAssumption
    <3>. HIDE DEF Init
    <3>. QED BY <3>1, <3>2
  <2>7. remote \in [Host -> Results \cup {None}] /\ tailored \in [Host -> BOOLEAN] OBVIOUS
  <2>. HIDE DEF Init
  <2>. QED BY <2>1, <2>2, <2>3, <2>4, <2>5, <2>6, <2>7, Zenon DEF TypeOK
<1>2. Held BY DEF Held, Evaluated
<1>3. RemoteClean BY DEF RemoteClean
<1>4. FileClean BY DEF FileClean, Readable
<1>5. Merged BY DEF Merged
<1>. QED BY <1>1, <1>2, <1>3, <1>4, <1>5 DEF ScanInv

-----------------------------------------------------------------------------
\* A thread's step, by what it does to its own variables.
Outcome == {"none", "ok", "not_ok", "error"}
Rows == Results \cup {None, Torn}

ThreadStep(h) ==
  ScanStep(h) \/ ScanFails(h) \/ FetchFails(h)

LEMMA DoneMoves ==
  ASSUME TypeOK, NEW h \in Host, NEW o \in {"ok", "not_ok", "error"}, Done(h, o)
  PROVE  /\ w' = [w EXCEPT ![h] = "done"] /\ w' \in [Host -> Places]
         /\ remote' = [remote EXCEPT ![h] = None] /\ res' \in [Host -> Outcome]
BY DEF TypeOK, Done, WGoto, Places, Outcome

\* Where a thread goes, it has what it needs there.
LEMMA ThreadHolds ==
  ASSUME TypeOK, Held, NEW h \in Host, ThreadStep(h)
  PROVE  /\ \E p \in Places, x \in Results \cup {None} :
              /\ w' = [w EXCEPT ![h] = p] /\ remote' = [remote EXCEPT ![h] = x]
              /\ p \in Evaluated => x \in Results
              /\ p \notin Evaluated => x = None
              /\ x \in {None, remote[h]} \/ (x = Eval(h, TRUE) /\ UNCHANGED tailoring)
         /\ res' \in [Host -> Outcome]
<1>. USE DEF TypeOK, Held, Places, Evaluated, Outcome
<1>0. Eval(h, TRUE) \in Results BY EvalTyped
<1>1. ASSUME NEW o \in {"ok", "not_ok", "error"}, Done(h, o)
      PROVE  \E p \in Places, x \in Results \cup {None} :
              /\ w' = [w EXCEPT ![h] = p] /\ remote' = [remote EXCEPT ![h] = x]
              /\ p \in Evaluated => x \in Results
              /\ p \notin Evaluated => x = None
              /\ x \in {None, remote[h]} \/ (x = Eval(h, TRUE) /\ UNCHANGED tailoring)
  <2>1. w' = [w EXCEPT ![h] = "done"] /\ remote' = [remote EXCEPT ![h] = None]
    BY <1>1 DEF Done, WGoto
  <2>. QED BY <2>1
<1>2. ASSUME NEW p \in Places, WGoto(h, p), UNCHANGED remote,
             p \in Evaluated => w[h] \in Evaluated, p \notin Evaluated => w[h] \notin Evaluated
      PROVE  \E q \in Places, x \in Results \cup {None} :
              /\ w' = [w EXCEPT ![h] = q] /\ remote' = [remote EXCEPT ![h] = x]
              /\ q \in Evaluated => x \in Results
              /\ q \notin Evaluated => x = None
              /\ x \in {None, remote[h]} \/ (x = Eval(h, TRUE) /\ UNCHANGED tailoring)
  <2>1. w' = [w EXCEPT ![h] = p] /\ remote' = [remote EXCEPT ![h] = remote[h]]
    BY <1>2 DEF WGoto
  <2>2. /\ p \in Evaluated => remote[h] \in Results
        /\ p \notin Evaluated => remote[h] = None
    BY <1>2
  <2>. QED BY <2>1, <2>2
<1>3. ASSUME NEW p \in Places, WGoto(h, p), p \in Evaluated,
             remote' = [remote EXCEPT ![h] = Eval(h, TRUE)], UNCHANGED tailoring
      PROVE  \E q \in Places, x \in Results \cup {None} :
              /\ w' = [w EXCEPT ![h] = q] /\ remote' = [remote EXCEPT ![h] = x]
              /\ q \in Evaluated => x \in Results
              /\ q \notin Evaluated => x = None
              /\ x \in {None, remote[h]} \/ (x = Eval(h, TRUE) /\ UNCHANGED tailoring)
  BY <1>0, <1>3 DEF WGoto
<1>4. CASE LoadIgnoreList(h) BY <1>2, <1>4 DEF LoadIgnoreList
<1>5. CASE Probe(h) BY <1>2, <1>5 DEF Probe
<1>6. CASE ScanFails(h) BY <1>1, <1>6, DoneMoves DEF ScanFails
<1>7. CASE RootEval(h) BY <1>2, <1>3, <1>7 DEF RootEval, Untouched
<1>8. CASE OpenResults(h)
  <2>1. CASE w[h] = "fetch" BY <1>2, <1>8, <2>1 DEF OpenResults
  <2>2. CASE w[h] = "fetch_post" BY <1>2, <1>8, <2>2 DEF OpenResults
  <2>. QED BY <1>8, <2>1, <2>2 DEF OpenResults
<1>9. CASE FetchResults(h)
  <2>1. CASE WGoto(h, "fetch_pre") /\ UNCHANGED <<res, remote>> BY <1>2, <1>9, <2>1 DEF FetchResults
  <2>2. CASE \E o \in {"ok", "not_ok"} : Done(h, o)
    <3>1. PICK o \in {"ok", "not_ok", "error"} : Done(h, o) BY <2>2
    <3>2. res' \in [Host -> Outcome] BY <3>1, DoneMoves
    <3>. QED BY <1>1, <3>1, <3>2
  <2>. QED BY <1>9, <2>1, <2>2 DEF FetchResults
<1>10. CASE FetchFails(h) BY <1>1, <1>10, DoneMoves DEF FetchFails
<1>11. CASE FetchPre(h) BY <1>2, <1>11 DEF FetchPre
<1>12. CASE OscapRemediate(h)
  <2>1. CASE WGoto(h, "post_eval") /\ UNCHANGED <<res, remote>> BY <1>2, <1>12, <2>1 DEF OscapRemediate
  <2>2. CASE \E o \in {"ok", "not_ok", "error"} : Done(h, o)
    <3>1. PICK o \in {"ok", "not_ok", "error"} : Done(h, o) BY <2>2
    <3>2. res' \in [Host -> Outcome] BY <3>1, DoneMoves
    <3>. QED BY <1>1, <3>1, <3>2
  <2>. QED BY <1>12, <2>1, <2>2 DEF OscapRemediate
<1>13. CASE PostEval(h)
  <2>1. CASE /\ remote' = [remote EXCEPT ![h] = Eval(h, TRUE)] /\ WGoto(h, "fetch_post")
             /\ UNCHANGED <<res, tailoring>>
    BY <1>3, <2>1
  <2>2. CASE \E o \in {"ok", "error"} : Done(h, o)
    <3>1. PICK o \in {"ok", "not_ok", "error"} : Done(h, o) BY <2>2
    <3>2. res' \in [Host -> Outcome] BY <3>1, DoneMoves
    <3>. QED BY <1>1, <3>1, <3>2
  <2>. QED BY <1>13, <2>1, <2>2 DEF PostEval, Untouched
<1>14. CASE FetchPost(h) BY <1>1, <1>14, DoneMoves DEF FetchPost
<1>15. CASE UserEval(h) BY <1>1, <1>15, DoneMoves DEF UserEval
<1>. HIDE DEF TypeOK, Held, Places, Evaluated, Outcome
<1>. QED BY <1>4, <1>5, <1>6, <1>7, <1>8, <1>9, <1>10, <1>11, <1>12, <1>13, <1>14, <1>15, Zenon
         DEF ThreadStep, ScanStep

\* What a thread stores is nothing, its evaluation, or one as a plain user.
LEMMA ThreadStores ==
  ASSUME TypeOK, Held, NEW h \in Host, ThreadStep(h)
  PROVE  \/ UNCHANGED file
         \/ \E f \in {<<h, "now">>, <<h, "pre">>} :
              \E rows \in {Torn, remote[h]} : Store(f, rows)
         \/ Store(<<h, "now">>, Eval(h, FALSE)) /\ UNCHANGED tailoring
<1>1. CASE LoadIgnoreList(h) BY <1>1 DEF LoadIgnoreList
<1>2. CASE Probe(h) \/ ScanFails(h) \/ RootEval(h) \/ OscapRemediate(h) \/ PostEval(h)
  BY <1>2 DEF Probe, ScanFails, RootEval, OscapRemediate, PostEval
<1>3. CASE OpenResults(h) BY <1>3 DEF OpenResults
<1>4. CASE FetchResults(h) BY <1>4 DEF FetchResults
<1>5. CASE FetchFails(h) BY <1>5 DEF FetchFails
<1>6. CASE FetchPre(h) BY <1>6 DEF FetchPre
<1>7. CASE FetchPost(h) BY <1>7 DEF FetchPost
<1>8. CASE UserEval(h) BY <1>8 DEF UserEval, Untouched
<1>. QED BY <1>1, <1>2, <1>3, <1>4, <1>5, <1>6, <1>7, <1>8, Zenon DEF ThreadStep, ScanStep

\* The rest a thread leaves alone.
LEMMA ThreadLeaves ==
  ASSUME TypeOK, NEW h \in Host, ThreadStep(h)
  PROVE  /\ rpc = "scanning"
         /\ UNCHANGED <<evidence, mode, remediate, rpc, read, left, collector, task, runs>>
         /\ \/ UNCHANGED tailoring
            \/ tailored' = [tailored EXCEPT ![h] = FALSE] /\ untailored' = untailored \cup {h}
         /\ failing' \in [Host -> SUBSET Rule]
         /\ faults' \in 0..MaxFaults
<1>1. Thread(h) BY DEF ThreadStep, ScanStep, LoadIgnoreList, Probe, ScanFails, RootEval, OpenResults,
        FetchResults, FetchFails, FetchPre, OscapRemediate, PostEval, FetchPost, UserEval
<1>2. \/ UNCHANGED tailoring
      \/ tailored' = [tailored EXCEPT ![h] = FALSE] /\ untailored' = untailored \cup {h}
  BY DEF ThreadStep, ScanStep, LoadIgnoreList, Probe, ScanFails, RootEval, OpenResults,
         FetchResults, FetchFails, FetchPre, OscapRemediate, PostEval, FetchPost, UserEval, Untouched
<1>3. failing' \in [Host -> SUBSET Rule]
  <2>1. CASE OscapRemediate(h)
    <3>1. PICK fixed \in SUBSET {r \in Rule : remote[h][r] = "fail"} :
            failing' = [failing EXCEPT ![h] = failing[h] \ fixed]
      BY <2>1 DEF OscapRemediate
    <3>. QED BY <3>1 DEF TypeOK
  <2>2. CASE ~OscapRemediate(h)
    <3>1. UNCHANGED failing
      BY <2>2 DEF ThreadStep, ScanStep, LoadIgnoreList, Probe, ScanFails, RootEval, OpenResults,
         FetchResults, FetchFails, FetchPre, PostEval, FetchPost, UserEval
    <3>. QED BY <3>1 DEF TypeOK
  <2>. QED BY <2>1, <2>2
<1>4. Fault \/ UNCHANGED faults
  BY DEF ThreadStep, ScanStep, LoadIgnoreList, Probe, ScanFails, RootEval, OpenResults,
         FetchResults, FetchFails, FetchPre, OscapRemediate, PostEval, FetchPost, UserEval
<1>. QED BY <1>1, <1>2, <1>3, <1>4 DEF Thread, Fault, TypeOK

-----------------------------------------------------------------------------
(* The steps that no thread takes.                                         *)

Ends == EndRun \/ WriteRaises \/ Die
Collects == StartCollect \/ CollectRead \/ CollectMerge \/ CollectEnd

LEMMA ScanSteps ==
  ASSUME [Next]_vars
  PROVE  \/ \E h \in Host : ThreadStep(h)
         \/ StartRun \/ RunMerge \/ Write("run") \/ Write("collect") \/ Ends \/ Collects
         \/ UNCHANGED vars
BY Zenon DEF Next, RunStep, CollectStep, ThreadStep, Ends, Collects

LEMMA EndsForget ==
  ASSUME TypeOK, Held, Ends
  PROVE  /\ Forget /\ rpc' = "idle" /\ UNCHANGED <<failing, disk, collector, runs>>
         /\ task' \in {"none", "running", "done", "failed"} /\ faults' \in 0..MaxFaults
BY DEF TypeOK, Ends, EndRun, WriteRaises, Die, Fault

LEMMA TypeOKKept ==
  ASSUME TypeOK, Held, [Next]_vars
  PROVE  TypeOK'
<1>. USE DEF TypeOK
<1>1. ASSUME NEW h \in Host, ThreadStep(h) PROVE TypeOK'
  <2>1. /\ w' \in [Host -> Places] /\ remote' \in [Host -> Results \cup {None}]
        /\ res' \in [Host -> {"none", "ok", "not_ok", "error"}]
    <3>1. PICK p \in Places, x \in Results \cup {None} :
            w' = [w EXCEPT ![h] = p] /\ remote' = [remote EXCEPT ![h] = x]
      BY <1>1, ThreadHolds
    <3>2. res' \in [Host -> Outcome] BY <1>1, ThreadHolds
    <3>. QED BY <3>1, <3>2 DEF Outcome
  <2>2. file' \in [File -> Results \cup {None, Torn}]
    <3>1. <<h, "now">> \in File /\ <<h, "pre">> \in File BY DEF File
    <3>2. Eval(h, FALSE) \in Results /\ remote[h] \in Results \cup {None} BY EvalTyped
    <3>3. CASE UNCHANGED file BY <3>3
    <3>4. ASSUME NEW f \in File, NEW rows \in Results \cup {None, Torn}, Store(f, rows)
          PROVE  file' \in [File -> Results \cup {None, Torn}]
      BY <3>4 DEF Store
    <3>. QED BY <1>1, <3>1, <3>2, <3>3, <3>4, ThreadStores
  <2>3. tailored' \in [Host -> BOOLEAN] /\ untailored' \subseteq Host
    BY <1>1, ThreadLeaves DEF tailoring
  <2>4. /\ UNCHANGED <<evidence, mode, remediate, rpc, read, left, collector, task, runs>>
        /\ failing' \in [Host -> SUBSET Rule] /\ faults' \in 0..MaxFaults
    BY <1>1, ThreadLeaves
  <2>. QED BY <2>1, <2>2, <2>3, <2>4 DEF collector
<1>2. CASE StartRun
  <2>1. w' \in [Host -> Places] /\ res' \in [Host -> {"none", "ok", "not_ok", "error"}]
    BY <1>2 DEF StartRun, Places
  <2>2. mode' \in {"fleet", "host"} /\ remediate' \in BOOLEAN BY <1>2 DEF StartRun
  <2>. QED BY <1>2, <2>1, <2>2 DEF StartRun, disk, tailoring, collector
<1>3. ASSUME NEW p \in Writer, NEW rd, NEW names,
             left' = [left EXCEPT ![p] = IF names = {} THEN {} ELSE Writes(p, rd)]
      PROVE  left' \in [Writer -> SUBSET Control]
  <2>1. Writes(p, rd) \subseteq Control BY DEF Writes
  <2>. HIDE DEF Writes
  <2>. QED BY <1>3, <2>1
<1>4. CASE RunMerge
  <2>1. left' \in [Writer -> SUBSET Control]
    <3>1. "run" \in Writer BY DEF Writer
    <3>. QED BY <1>3, <1>4, <3>1, Zenon DEF RunMerge
  <2>. QED BY <1>4, <2>1 DEF RunMerge, disk, worker, tailoring, collector
<1>5. ASSUME NEW p \in Writer, Write(p) PROVE TypeOK'
  <2>1. PICK c \in left[p] :
          /\ evidence' = [evidence EXCEPT ![c] = [status |-> Rollup(read[p], c), by |-> p]]
          /\ left' = [left EXCEPT ![p] = left[p] \ {c}]
    BY <1>5 DEF Write
  <2>2. left' \in [Writer -> SUBSET Control] BY <2>1
  <2>3. \A d \in Control : /\ evidence'[d].status \in {"none", "pass", "fail", "manual_review"}
                           /\ evidence'[d].by \in Writer \cup {"none"}
    BY <2>1, RollupTyped
  <2>. QED BY <1>5, <2>2, <2>3 DEF Write, worker, tailoring, collector
<1>6. CASE Ends
  <2>1. /\ mode' \in {"fleet", "host"} /\ remediate' \in BOOLEAN /\ w' \in [Host -> Places]
        /\ res' \in [Host -> {"none", "ok", "not_ok", "error"}]
        /\ remote' \in [Host -> Results \cup {None}] /\ tailored' \in [Host -> BOOLEAN]
        /\ left' \in [Writer -> SUBSET Control] /\ UNCHANGED untailored
    <3>1. Forget BY <1>6, EndsForget
    <3>2. left' = [left EXCEPT !["run"] = {}] BY <3>1, Zenon DEF Forget
    <3>3. left' \in [Writer -> SUBSET Control] BY <3>2
    <3>. QED BY <3>1, <3>3 DEF Forget, Places
  <2>. QED BY <1>6, <2>1, EndsForget DEF disk, collector
<1>7. CASE StartCollect \/ CollectRead \/ CollectEnd
  <2>1. /\ todo' \subseteq File /\ cpc' \in {"idle", "reading", "writing"} /\ runs' \in 0..MaxRuns
        /\ UNCHANGED <<failing, disk, mode, remediate, rpc, worker, left, task, faults>>
    <3>1. CASE StartCollect BY <3>1 DEF StartCollect
    <3>2. CASE CollectRead
      <4>1. todo' \subseteq todo BY <3>2 DEF CollectRead
      <4>. QED BY <3>2, <4>1 DEF CollectRead
    <3>3. CASE CollectEnd BY <3>3 DEF CollectEnd, collector
    <3>. QED BY <1>7, <3>1, <3>2, <3>3
  <2>. QED BY <2>1 DEF disk, worker, tailoring
<1>8. CASE CollectMerge
  <2>1. left' \in [Writer -> SUBSET Control]
    <3>1. "collect" \in Writer BY DEF Writer
    <3>. QED BY <1>3, <1>8, <3>1, Zenon DEF CollectMerge
  <2>. QED BY <1>8, <2>1 DEF CollectMerge, disk, worker, tailoring
<1>9. CASE UNCHANGED vars BY <1>9 DEF vars, disk, worker, tailoring, collector
<1>10. "run" \in Writer /\ "collect" \in Writer BY DEF Writer
<1>. HIDE DEF TypeOK
<1>. QED BY <1>1, <1>2, <1>4, <1>5, <1>6, <1>7, <1>8, <1>9, <1>10, ScanSteps, Zenon DEF Collects

\* What a step of the other kinds does to the threads.
LEMMA OthersLeave ==
  ASSUME TypeOK, Held, RunMerge \/ Write("run") \/ Write("collect") \/ Collects
  PROVE  /\ UNCHANGED <<file, mode, w, res, remote, tailored, untailored>>
         /\ DOMAIN read' = Writer
         /\ rpc' = "idle" => rpc = "idle"
<1>. USE DEF Held, worker, tailoring, disk
<1>1. CASE RunMerge BY <1>1 DEF RunMerge
<1>2. CASE Write("run") \/ Write("collect") BY <1>2 DEF Write
<1>3. CASE StartCollect BY <1>3 DEF StartCollect
<1>4. CASE CollectRead BY <1>4 DEF CollectRead
<1>5. CASE CollectMerge BY <1>5 DEF CollectMerge
<1>6. CASE CollectEnd BY <1>6 DEF CollectEnd
<1>. HIDE DEF Held
<1>. QED BY <1>1, <1>2, <1>3, <1>4, <1>5, <1>6, Zenon DEF Collects

LEMMA HeldKept ==
  ASSUME TypeOK, Held, [Next]_vars
  PROVE  Held'
<1>1. ASSUME NEW h \in Host, ThreadStep(h) PROVE Held'
  <2>1. PICK p \in Places, x \in Results \cup {None} :
          /\ w' = [w EXCEPT ![h] = p] /\ remote' = [remote EXCEPT ![h] = x]
          /\ p \in Evaluated => x \in Results
          /\ p \notin Evaluated => x = None
    BY <1>1, ThreadHolds
  <2>2. rpc' = "scanning" /\ read' = read BY <1>1, ThreadLeaves
  <2>3. \A g \in Host : tailored'[g] \/ g \in untailored'
    BY <1>1, ThreadLeaves DEF tailoring, Held, TypeOK
  <2>4. \A g \in Host : /\ w'[g] \in Evaluated => remote'[g] \in Results
                        /\ w'[g] \notin Evaluated => remote'[g] = None
    BY <2>1 DEF Held, TypeOK
  <2>. QED BY <2>2, <2>3, <2>4 DEF Held
<1>2. CASE StartRun
  <2>1. /\ read' = read /\ rpc' = "scanning" /\ remote' = remote
        /\ tailored' = tailored /\ untailored' = untailored
    BY <1>2 DEF StartRun, tailoring
  <2>2. \A g \in Host : w'[g] \in {"idle", "start"} BY <1>2 DEF StartRun
  <2>3. \A g \in Host : w[g] = "idle" BY <1>2 DEF StartRun, Held
  <2>. QED BY <2>1, <2>2, <2>3 DEF Held, Evaluated
<1>3. CASE RunMerge \/ Write("run") \/ Write("collect") \/ Collects
  BY <1>3, OthersLeave DEF Held
<1>4. CASE Ends
  <2>1. Forget BY <1>4, EndsForget
  <2>. QED BY <2>1 DEF Forget, Held, Evaluated
<1>5. CASE UNCHANGED vars BY <1>5 DEF vars, worker, tailoring, Held
<1>. QED BY <1>1, <1>2, <1>3, <1>4, <1>5, ScanSteps

LEMMA RemoteCleanKept ==
  ASSUME TypeOK, Held, RemoteClean, [Next]_vars
  PROVE  RemoteClean'
<1>1. ASSUME NEW h \in Host, ThreadStep(h) PROVE RemoteClean'
  <2>1. PICK p \in Places, x \in Results \cup {None} :
          /\ remote' = [remote EXCEPT ![h] = x]
          /\ x \in {None, remote[h]} \/ (x = Eval(h, TRUE) /\ UNCHANGED tailoring)
    BY <1>1, ThreadHolds
  <2>2. \A g \in Host : tailored'[g] => tailored[g]
    BY <1>1, ThreadLeaves DEF tailoring, TypeOK
  <2>. SUFFICES ASSUME NEW g \in Host, tailored'[g], remote'[g] # None
                PROVE  Clean(remote'[g], g)
    BY DEF RemoteClean
  <2>3. CASE g # h \/ x = remote[h]
    <3>1. remote'[g] = remote[g] BY <2>1, <2>3 DEF TypeOK
    <3>. QED BY <2>2, <3>1 DEF RemoteClean
  <2>4. CASE g = h /\ x = Eval(h, TRUE)
    <3>1. remote'[g] = Eval(h, TRUE) BY <2>1, <2>4 DEF TypeOK
    <3>. QED BY <2>2, <2>4, <3>1, EvalTyped
  <2>5. CASE g = h /\ x = None BY <2>1, <2>5 DEF TypeOK
  <2>. QED BY <2>1, <2>3, <2>4, <2>5
<1>2. CASE StartRun BY <1>2 DEF StartRun, tailoring, RemoteClean, Clean
<1>3. CASE RunMerge \/ Write("run") \/ Write("collect") \/ Collects
  BY <1>3, OthersLeave DEF RemoteClean, Clean
<1>4. CASE Ends
  <2>1. Forget BY <1>4, EndsForget
  <2>. QED BY <2>1 DEF Forget, RemoteClean
<1>5. CASE UNCHANGED vars BY <1>5 DEF vars, worker, tailoring, RemoteClean, Clean
<1>. QED BY <1>1, <1>2, <1>3, <1>4, <1>5, ScanSteps

LEMMA FileCleanKept ==
  ASSUME TypeOK, Held, RemoteClean, FileClean, [Next]_vars
  PROVE  FileClean'
<1>1. ASSUME NEW h \in Host, ThreadStep(h) PROVE FileClean'
  <2>. SUFFICES ASSUME NEW f \in File, file'[f] \notin {None, Torn}, f[1] \notin untailored'
                PROVE  Clean(file'[f], f[1])
    BY DEF FileClean, Readable
  <2>1. f[1] \notin untailored BY <1>1, ThreadLeaves DEF tailoring
  <2>2. CASE file'[f] = file[f] BY <2>1, <2>2 DEF FileClean, Readable
  <2>3. CASE file'[f] # file[f]
    <3>1. /\ file'[f] \in {Torn, remote[h], Eval(h, FALSE)}
          /\ f \in {<<h, "now">>, <<h, "pre">>}
      <4>1. ASSUME NEW n \in File, NEW rows, Store(n, rows)
            PROVE  f = n /\ file'[f] = rows
        BY <2>3, <4>1 DEF Store, TypeOK
      <4>2. <<h, "now">> \in File /\ <<h, "pre">> \in File BY DEF File
      <4>3. CASE UNCHANGED file BY <2>3, <4>3
      <4>4. CASE \E n \in {<<h, "now">>, <<h, "pre">>} : \E rows \in {Torn, remote[h]} : Store(n, rows)
        BY <4>1, <4>2, <4>4
      <4>5. CASE Store(<<h, "now">>, Eval(h, FALSE)) BY <4>1, <4>2, <4>5
      <4>. QED BY <1>1, <4>3, <4>4, <4>5, ThreadStores
    <3>2. f[1] = h BY <3>1
    <3>3. tailored[h] BY <2>1, <3>2 DEF Held
    <3>4. CASE file'[f] = remote[h] BY <3>2, <3>3, <3>4 DEF RemoteClean
    <3>5. CASE file'[f] = Eval(h, FALSE) BY <3>2, <3>3, <3>5, EvalTyped
    <3>. QED BY <3>1, <3>4, <3>5
  <2>. QED BY <2>2, <2>3
<1>2. CASE StartRun BY <1>2 DEF StartRun, tailoring, disk, FileClean, Clean, Readable
<1>3. CASE RunMerge \/ Write("run") \/ Write("collect") \/ Collects
  BY <1>3, OthersLeave DEF FileClean, Clean, Readable
<1>4. CASE Ends
  <2>1. Forget /\ UNCHANGED disk BY <1>4, EndsForget
  <2>. QED BY <2>1 DEF Forget, disk, FileClean, Clean, Readable
<1>5. CASE UNCHANGED vars BY <1>5 DEF vars, worker, disk, tailoring, FileClean, Clean, Readable
<1>. QED BY <1>1, <1>2, <1>3, <1>4, <1>5, ScanSteps

LEMMA MergedKept ==
  ASSUME TypeOK, Held, Merged, [Next]_vars
  PROVE  Merged'
<1>. USE DEF Merged, RunFiles, Fails, Readable, Violates
<1>0. ASSUME UNCHANGED <<file, mode, res, rpc, evidence>>, read'["run"] = read["run"],
             left'["run"] = left["run"]
      PROVE  Merged'
  BY <1>0
<1>1. ASSUME NEW h \in Host, ThreadStep(h) PROVE Merged' BY <1>1, ThreadLeaves
<1>2. CASE StartRun BY <1>2 DEF StartRun
<1>3. CASE RunMerge
  <2>. DEFINE rd == [f \in RunFiles |-> file[f]]
  <2>1. read' = [read EXCEPT !["run"] = rd] BY <1>3 DEF RunMerge
  <2>2. UNCHANGED <<file, evidence, mode, res>> BY <1>3 DEF RunMerge, disk, worker
  <2>3. read'["run"] = rd
    <3>1. "run" \in DOMAIN read BY DEF Held, Writer
    <3>. QED BY <2>1, <3>1
  <2>4. ASSUME NEW c \in Control, Fails(c) PROVE c \in left'["run"]
    <3>1. PICK f \in RunFiles : Violates(file[f], c) BY <2>4
    <3>2. f \in DOMAIN rd /\ Violates(rd[f], c) BY <3>1
    <3>. HIDE DEF rd
    <3>3. c \in Writes("run", rd) BY <3>2, OneFails
    <3>4. left' = [left EXCEPT !["run"] = Writes("run", rd)]
      <4>1. left' = [left EXCEPT !["run"] = IF RunFiles = {} THEN {} ELSE Writes("run", rd)]
        BY <1>3, Zenon DEF RunMerge, rd
      <4>. QED BY <3>1, <4>1
    <3>5. "run" \in DOMAIN left BY DEF TypeOK, Writer
    <3>. QED BY <3>3, <3>4, <3>5
  <2>5. (\A c \in Control : Fails(c)' = Fails(c)) /\ RunFiles' = RunFiles /\ rd' = rd BY <2>2
  <2>. QED BY <2>2, <2>3, <2>4, <2>5
<1>4. CASE Write("run")
  <2>1. PICK c \in left["run"] :
          /\ evidence' = [evidence EXCEPT ![c] = [status |-> Rollup(read["run"], c), by |-> "run"]]
          /\ left' = [left EXCEPT !["run"] = left["run"] \ {c}]
    BY <1>4 DEF Write
  <2>2. UNCHANGED <<file, mode, rpc, res, read>> BY <1>4 DEF Write, worker
  <2>3. left'["run"] = left["run"] \ {c} BY <2>1 DEF TypeOK, Writer
  <2>4. ASSUME NEW d \in Control, rpc = "writing", mode = "fleet", evidence'[d].by = "run", Fails(d)
        PROVE  d \in left'["run"] \/ evidence'[d].status = "fail"
    <3>1. CASE d # c BY <2>1, <2>3, <2>4, <3>1 DEF TypeOK
    <3>2. CASE d = c
      <4>1. PICK f \in RunFiles : Violates(file[f], d) BY <2>4
      <4>2. f \in DOMAIN read["run"] /\ Violates(read["run"][f], d) BY <2>4, <4>1
      <4>3. Rollup(read["run"], d) = "fail"
        <5>. DEFINE rd == read["run"]
        <5>1. f \in DOMAIN rd /\ Violates(rd[f], d) BY <4>2
        <5>. HIDE DEF rd, Violates
        <5>2. Rollup(rd, d) = "fail" BY <5>1, OneFails
        <5>. QED BY <5>2 DEF rd
      <4>. QED BY <2>1, <3>2, <4>3 DEF TypeOK
    <3>. QED BY <3>1, <3>2
  <2>. QED BY <2>2, <2>4
<1>5. CASE Write("collect")
  <2>1. PICK c \in left["collect"] :
          /\ evidence' = [evidence EXCEPT ![c] = [status |-> Rollup(read["collect"], c),
                                                  by |-> "collect"]]
          /\ left' = [left EXCEPT !["collect"] = left["collect"] \ {c}]
    BY <1>5 DEF Write
  <2>2. UNCHANGED <<file, mode, rpc, res, read>> BY <1>5 DEF Write, worker
  <2>3. left'["run"] = left["run"] BY <2>1 DEF TypeOK, Writer
  <2>4. \A d \in Control : evidence'[d].by = "run" => evidence'[d] = evidence[d]
    BY <2>1 DEF TypeOK
  <2>. QED BY <2>2, <2>3, <2>4
<1>6. CASE Collects
  <2>1. UNCHANGED <<file, mode, res, rpc, evidence>>
    BY <1>6 DEF Collects, StartCollect, CollectRead, CollectMerge, CollectEnd, disk, worker
  <2>2. read'["run"] = read["run"]
    BY <1>6 DEF Collects, StartCollect, CollectRead, CollectMerge, CollectEnd, Held, Writer
  <2>3. left'["run"] = left["run"]
    BY <1>6 DEF Collects, StartCollect, CollectRead, CollectMerge, CollectEnd, TypeOK, Writer
  <2>. QED BY <1>0, <2>1, <2>2, <2>3
<1>7. CASE Ends BY <1>7, EndsForget
<1>8. CASE UNCHANGED vars
  <2>1. UNCHANGED <<file, mode, res, rpc, evidence, read, left>> BY <1>8 DEF vars, disk, worker
  <2>. QED BY <1>0, <2>1
<1>. HIDE DEF Merged
<1>. QED BY <1>1, <1>2, <1>3, <1>4, <1>5, <1>6, <1>7, <1>8, ScanSteps

LEMMA Inductive == ScanInv /\ [Next]_vars => ScanInv'
BY TypeOKKept, HeldKept, RemoteCleanKept, FileCleanKept, MergedKept, Zenon DEF ScanInv

LEMMA ScanInvariant == Spec => []ScanInv
BY InitInductive, Inductive, PTL DEF Spec

-----------------------------------------------------------------------------
\* The variables keep their types.
THEOREM TypeCorrect == Spec => []TypeOK
<1>1. ScanInv => TypeOK BY DEF ScanInv
<1>. QED BY <1>1, ScanInvariant, PTL

\* Whatever the mode of a scan and wherever it is cut off, no results file
\* grades a rule on a host that is excluded from it.
THEOREM ExclusionsHold == Spec => []IgnoredStaysOut
<1>1. ScanInv => IgnoredStaysOut BY DEF ScanInv, FileClean, Clean, IgnoredStaysOut
<1>. QED BY <1>1, ScanInvariant, PTL

\* A control that one host violates is failing when the run has written it,
\* whatever the others' results are and in whatever order their threads end.
THEOREM OneHostIsEnough == Spec => []OneHostFails
<1>1. ASSUME ScanInv PROVE OneHostFails
  <2>. SUFFICES ASSUME rpc = "writing", left["run"] = {}, mode = "fleet",
                       NEW c \in Control, NEW h \in Host, evidence[c].by = "run",
                       res[h] = "ok", Readable(<<h, "now">>), Violates(file[<<h, "now">>], c)
                PROVE  evidence[c].status = "fail"
    BY Zenon DEF OneHostFails
  <2>1. <<h, "now">> \in RunFiles BY DEF RunFiles, File
  <2>2. Fails(c) BY <2>1 DEF Fails
  <2>. QED BY <1>1, <2>2 DEF ScanInv, Merged
<1>. QED BY <1>1, ScanInvariant, PTL

\* No remediation changes what an excluded rule is about, on a host whose scan
\* has its exclusions.
THEOREM RemediationSpares == Spec => ExcludedUntouched
<1>. DEFINE Spares == \A e \in Ignored : tailored[e[1]] =>
              (e[2] \in failing[e[1]]) = (e[2] \in failing'[e[1]])
<1>1. ASSUME ScanInv, [Next]_vars PROVE [Spares]_failing
  <2>1. ASSUME NEW h \in Host, OscapRemediate(h) PROVE Spares
    <3>1. PICK fixed \in SUBSET {r \in Rule : remote[h][r] = "fail"} :
            failing' = [failing EXCEPT ![h] = failing[h] \ fixed]
      BY <2>1 DEF OscapRemediate
    <3>2. w[h] = "remediate" BY <2>1 DEF OscapRemediate
    <3>3. remote[h] \in Results BY <1>1, <3>2 DEF ScanInv, Held, Evaluated
    <3>4. tailored[h] => \A r \in Rule : <<h, r>> \in Ignored => r \notin fixed
      BY <1>1, <3>1, <3>3, NotRows DEF ScanInv, RemoteClean, Clean
    <3>. SUFFICES ASSUME NEW e \in Ignored, tailored[e[1]]
                  PROVE  (e[2] \in failing[e[1]]) = (e[2] \in failing'[e[1]])
      OBVIOUS
    <3>5. e[1] \in Host /\ e[2] \in Rule /\ e = <<e[1], e[2]>> BY ScanAssumption
    <3>6. failing \in [Host -> SUBSET Rule] BY <1>1 DEF ScanInv, TypeOK
    <3>7. CASE e[1] = h BY <3>1, <3>4, <3>5, <3>6, <3>7
    <3>8. CASE e[1] # h BY <3>1, <3>5, <3>6, <3>8
    <3>. QED BY <3>7, <3>8
  <2>2. ASSUME NEW h \in Host, ThreadStep(h), ~OscapRemediate(h) PROVE failing' = failing
    BY <2>2 DEF ThreadStep, ScanStep, LoadIgnoreList, Probe, ScanFails, RootEval, OpenResults,
       FetchResults, FetchFails, FetchPre, PostEval, FetchPost, UserEval
  <2>3. CASE StartRun \/ RunMerge \/ Write("run") \/ Write("collect") \/ Collects
    BY <2>3 DEF StartRun, RunMerge, Write, Collects, StartCollect, CollectRead, CollectMerge, CollectEnd
  <2>4. CASE Ends BY <1>1, <2>4, EndsForget DEF ScanInv
  <2>5. CASE UNCHANGED vars BY <2>5 DEF vars
  <2>. HIDE DEF Spares
  <2>. QED BY <1>1, <2>1, <2>2, <2>3, <2>4, <2>5, ScanSteps
<1>. QED BY <1>1, ScanInvariant, PTL DEF Spec, ExcludedUntouched
=============================================================================
