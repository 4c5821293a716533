--------------------------- MODULE RemediationProofs ---------------------------
(***************************************************************************)
(* What overlapping runs of the remediation tools keep, for any routing    *)
(* files, tenants, hosts and controls, wherever they are killed and rolled *)
(* back: the snapshot that comes first, the gate, and a trail that agrees  *)
(* with what was answered.                                                 *)
(***************************************************************************)
EXTENDS Remediation, TLAPS

-----------------------------------------------------------------------------
(* The routing file.                                                       *)

\* A config that has loaded gives every tenant the policy of its block.
LEMMA LoadGives ==
  ASSUME NEW f \in File, Loadable(f)
  PROVE  /\ Load(f) = [t \in DOMAIN f.tenants |-> PolicyOf(Block(f, t))]
         /\ Load(f) \in Configs /\ Load(f) # None
<1>1. Load(f) = [t \in DOMAIN f.tenants |-> PolicyOf(Block(f, t))] BY DEF Load
<1>2. DOMAIN f.tenants \subseteq Tenant BY DistinctAssumption DEF Loadable
<1>3. \A t \in DOMAIN f.tenants : PolicyOf(Block(f, t)) \in Policy
  <2>. SUFFICES ASSUME NEW t \in DOMAIN f.tenants PROVE PolicyOf(Block(f, t)) \in Policy
    OBVIOUS
  <2>1. Valid(Block(f, t)) BY DEF Loadable
  <2>. DEFINE m == Block(f, t)
  <2>. HIDE DEF m
  <2>2. Valid(m) BY <2>1 DEF m
  <2>3. m["threshold"] \in 0..Top BY <2>2, RoutingAssumption DEF Valid, Leaf
  <2>4. Leaf(m, "severities", {}) \subseteq Severity /\ Leaf(m, "actions", {}) \subseteq Action
    BY <2>2 DEF Valid
  <2>5. PolicyOf(m) \in Policy BY <2>3, <2>4 DEF PolicyOf, Policy
  <2>. QED BY <2>5 DEF m
<1>4. Load(f) \in [DOMAIN f.tenants -> Policy] BY <1>1, <1>3
<1>5. Load(f) \in Configs BY <1>2, <1>4 DEF Configs
<1>6. Load(f) # None BY <1>5, DistinctAssumption
<1>. QED BY <1>1, <1>5, <1>6

\* What the gate lets pass, the content permits that the config was made of.
LEMMA GatePermits ==
  ASSUME NEW f \in File, NEW a, a.confidence \in 0..Top,
         NEW cfg,
         \/ Loadable(f) /\ cfg = Load(f) /\ a.tenant # None
         \/ cfg = None /\ (a.tenant = None \/ ~Loadable(f)),
         ~Refuses(cfg, a)
  PROVE  Permits(f, a)
<1>1. Floor \in 0..Top /\ Top \in Nat BY ConstantsAssumption, RoutingAssumption
<1>2. CASE cfg = None
  <2>1. a.confidence >= Floor BY <1>1, <1>2 DEF Refuses, Knows
  <2>. QED BY <1>2, <2>1, LoadGives DEF Permits
<1>3. CASE cfg # None
  <2>1. /\ Loadable(f) /\ cfg = [t \in DOMAIN f.tenants |-> PolicyOf(Block(f, t))]
        /\ a.tenant # None
    BY <1>3, LoadGives
  <2>2. CASE a.tenant \in DOMAIN f.tenants
    <3>. DEFINE m == Block(f, a.tenant)
    <3>1. Valid(m) BY <2>1, <2>2 DEF Loadable
    <3>2. cfg[a.tenant] = PolicyOf(m) BY <2>1, <2>2
    <3>. HIDE DEF m
    <3>3. CanAutoRemediate(PolicyOf(m), a.confidence, SeverityOf[a.control])
      BY <1>3, <2>1, <2>2, <3>2 DEF Refuses, Knows
    <3>4. /\ "auto_remediate" \in Leaf(m, "actions", {})
          /\ SeverityOf[a.control] \in Leaf(m, "severities", {})
          /\ m["threshold"] <= a.confidence
      <4>1. m["threshold"] \in 0..Top BY <3>1, RoutingAssumption DEF Valid, Leaf
      <4>. QED BY <1>1, <3>3, <4>1 DEF CanAutoRemediate, PolicyOf
    <3>. QED BY <2>1, <2>2, <3>4 DEF Permits, m
  <2>3. CASE a.tenant \notin DOMAIN f.tenants
    <3>1. a.confidence >= Floor BY <1>1, <2>1, <2>3 DEF Refuses, Knows
    <3>. QED BY <2>3, <3>1 DEF Permits
  <2>. QED BY <2>2, <2>3
<1>. QED BY <1>2, <1>3

-----------------------------------------------------------------------------
(* The invariant.                                                          *)

Rows(r) == {row \in audit : row.run = r}
Lines(r) == {row \in remlog : row.run = r}
Working == {"probe", "apply", "audit", "amend", "amending", "log"}

\* A process has cached what a content of the file gave since it started.
Cached == \A p \in Process :
  /\ file \in seen[p]
  /\ config[p] # None => \E f \in seen[p] \cap File : Loadable(f) /\ config[p] = Load(f)

\* Where a run works, or its fix has been executed, it had passed the gate.
Allowed(r) ==
  /\ pc[r] # "idle" => ask[r] \in Ask
  /\ pc[r] \in Working \/ executed[r] > 0 =>
       /\ ask[r].tool = "remediate" /\ ask[r].control \in Fixable
       /\ \E f \in basis[r] : Permits(f, ask[r])
  /\ pc[r] \in {"apply", "audit", "amend", "amending"} \/ executed[r] > 0 => ~ask[r].dry

\* The host executes the fix once per attempt.
Counted(r) ==
  /\ pc[r] \in {"idle", "probe"} => executed[r] = 0 /\ attempt[r] = 0
  /\ pc[r] = "apply" => executed[r] <= attempt[r] /\ (attempt[r] = 1 => ask[r].host # Local)
  /\ executed[r] <= IF ask[r].host = Local THEN 1 ELSE 2

\* Before the fix has returned a run has left nothing behind but its snapshot.
Untold(r) ==
  /\ pc[r] # "done" => status[r] = None
  /\ pc[r] \in {"idle", "probe", "apply", "audit"} =>
       Rows(r) = {} /\ Lines(r) = {} /\ rollback[r] = None
  /\ pc[r] \in {"apply", "audit"} => Readable(r) /\ snapshot[r].apply = None
  /\ pc[r] = "audit" => rc[r] \in RC /\ (rc[r] = "ok" => executed[r] > 0)

Saved(r) ==
  (\/ pc[r] \in Working \ {"probe"} \/ executed[r] > 0
   \/ \E row \in Rows(r) : row.kind = "applied") => snapshot[r] # None

\* From then on its rows and its snapshot, or the copy of it that a rollback is
\* about to put back, say what the fix returned.
Told(r) == (pc[r] \in {"amend", "amending", "log"} /\ ~ask[r].dry) \/ status[r] \in {"applied", "failed"}
Traced(r) == Told(r) =>
  /\ rc[r] \in RC /\ (rc[r] = "ok" => executed[r] > 0)
  /\ \E row \in Rows(r) : row.kind = "applied"
  /\ \A row \in Rows(r) : row.kind = "applied" => row.rc = rc[r]
  /\ Readable(r) => snapshot[r].apply \in {None, rc[r]}
  /\ rollback[r] # None => rollback[r].apply \in {None, rc[r]}
  /\ pc[r] \notin {"amend", "amending"} /\ Readable(r) /\ ~snapshot[r].rolled_back =>
       snapshot[r].apply = rc[r]

\* Whoever has the temporary file: both only while both are about to move it,
\* and the snapshot is garbled only where both have had it.
Held(r) ==
  /\ pc[r] \in {"apply", "audit", "amend", "amending"} => copy[r] # None
  /\ Amending(r) => copy[r].apply = rc[r]
  /\ tmp[r] = "shared" => Marking(r) /\ copy[r] # None /\ (Amending(r) \/ pc[r] = "died")
  /\ snapshot[r] = Garbled => tmp[r] # "own"

Answered(r) == status[r] \in {"applied", "failed"} =>
  /\ pc[r] = "done"
  /\ status[r] = "applied" <=> rc[r] = "ok"
  /\ \E line \in Lines(r) : line.status = status[r]

RunInv(r) ==
  Allowed(r) /\ Counted(r) /\ Untold(r) /\ Saved(r) /\ Traced(r) /\ Held(r) /\ Answered(r)

Inv == TypeOK /\ Cached /\ \A r \in Run : RunInv(r)

-----------------------------------------------------------------------------
LEMMA NoneIsApart ==
  /\ None \notin Snapshot /\ None \notin Status /\ None \notin RC /\ None \notin Configs
  /\ None \notin Tenant /\ Garbled \notin Snapshot /\ Garbled # None
BY DistinctAssumption, ConstantsAssumption

LEMMA ShotTyped ==
  ASSUME NEW k \in {"pre_remediation", "check_only"}, NEW p \in RC \cup {None},
         NEW x \in RC \cup {None}
  PROVE  /\ Shot(k, p, x) \in Snapshot /\ Shot(k, p, x) \notin {None, Garbled}
         /\ Shot(k, p, x).apply = x /\ ~Shot(k, p, x).rolled_back
<1>1. Shot(k, p, x) \in Snapshot BY DEF Shot, Snapshot
<1>. QED BY <1>1, NoneIsApart DEF Shot

LEMMA InitInv == Init => Inv
<1>. SUFFICES ASSUME Init PROVE Inv OBVIOUS
<1>1. TypeOK
  <2>1. edits \in 0..MaxEdits /\ file \in File BY ConstantsAssumption DEF Init
  <2>2. attempt \in [Run -> 0..1] /\ executed \in [Run -> Nat] /\ rollbacks \in 0..MaxRollbacks
    BY ConstantsAssumption DEF Init
  <2>3. compliant \subseteq Host \X Control BY ConstantsAssumption DEF Init
  <2>4. seen \in [Process -> SUBSET File] /\ basis \in [Run -> SUBSET File]
    BY ConstantsAssumption DEF Init
  <2>. QED BY <2>1, <2>2, <2>3, <2>4 DEF Init, TypeOK, Place
<1>2. Cached BY DEF Init, Cached
<1>3. ASSUME NEW r \in Run PROVE RunInv(r)
  <2>1. /\ pc[r] = "idle" /\ executed[r] = 0 /\ attempt[r] = 0 /\ status[r] = None
        /\ rollback[r] = None /\ tmp[r] = "own" /\ snapshot[r] # Garbled
        /\ Rows(r) = {} /\ Lines(r) = {}
    BY <1>3, NoneIsApart DEF Init, Rows, Lines
  <2>2. status[r] \notin {"applied", "failed"} BY <2>1, NoneIsApart DEF Status
  <2>. QED BY <2>1, <2>2 DEF RunInv, Allowed, Counted, Untold, Saved, Traced, Told, Held, Amending,
                             Answered, Working
<1>. QED BY <1>1, <1>2, <1>3 DEF Inv

\* What a run does not touch of another keeps its invariant.
Own(r) == <<pc[r], ask[r], attempt[r], rc[r], executed[r], status[r], basis[r], snapshot[r],
            rollback[r], copy[r], tmp[r], Rows(r), Lines(r)>>

LEMMA Frame ==
  ASSUME NEW r \in Run, RunInv(r), UNCHANGED Own(r)
  PROVE  RunInv(r)'
BY DEF RunInv, Own, Allowed, Counted, Untold, Saved, Traced, Told, Held, Amending, Marking,
       Readable, Answered

-----------------------------------------------------------------------------
(* Types and the cache.                                                    *)

Begins(r, p, a) == Unresolved(r, p, a) \/ BeginRemediate(r, p, a) \/ CheckControl(r, p, a)

LEMMA GetConfigTyped ==
  ASSUME TypeOK, Cached, NEW p \in Process
  PROVE  \/ GetConfig(p) = None /\ ~Loadable(file)
         \/ \E f \in seen[p] \cap File : Loadable(f) /\ GetConfig(p) = Load(f)
<1>1. CASE config[p] # None BY <1>1 DEF Cached, GetConfig
<1>2. CASE config[p] = None /\ Loadable(file)
  <2>1. file \in seen[p] \cap File BY DEF Cached, TypeOK
  <2>. QED BY <1>2, <2>1 DEF GetConfig
<1>3. CASE config[p] = None /\ ~Loadable(file) BY <1>3 DEF GetConfig, Load
<1>. QED BY <1>1, <1>2, <1>3

\* What is cached afterwards.
LEMMA BeginCaches ==
  ASSUME TypeOK, Cached, NEW r \in Run, NEW p \in Process, NEW a \in Asks, Begins(r, p, a)
  PROVE  /\ UNCHANGED <<file, seen, edits>>
         /\ \/ UNCHANGED config
            \/ \E f \in seen[p] \cap File : Loadable(f) /\ config' = [config EXCEPT ![p] = Load(f)]
<1>1. CASE Unresolved(r, p, a) \/ CheckControl(r, p, a)
  BY <1>1 DEF Unresolved, CheckControl, routing
<1>2. CASE BeginRemediate(r, p, a)
  <2>1. UNCHANGED <<file, seen, edits>> BY <1>2 DEF BeginRemediate
  <2>2. CASE UNCHANGED config BY <2>1, <2>2
  <2>3. CASE ~UNCHANGED config
    <3>1. /\ config' = [config EXCEPT ![p] = TenantOrDefault(p, a.tenant)]
          /\ TenantOrDefault(p, a.tenant) # None
      BY <1>2, <2>3 DEF BeginRemediate
    <3>2. TenantOrDefault(p, a.tenant) = GetConfig(p) BY <3>1 DEF TenantOrDefault
    <3>. QED BY <2>1, <3>1, <3>2, GetConfigTyped
  <2>. QED BY <2>2, <2>3
<1>. QED BY <1>1, <1>2 DEF Begins

LEMMA CachedKept ==
  ASSUME TypeOK, Cached, [Next]_vars
  PROVE  Cached' /\ config' \in [Process -> Configs \cup {None}]
                 /\ seen' \in [Process -> SUBSET File] /\ file' \in File /\ edits' \in 0..MaxEdits
<1>. USE DEF TypeOK
<1>1. ASSUME NEW r \in Run, NEW p \in Process, NEW a \in Asks, Begins(r, p, a)
      PROVE  Cached' /\ config' \in [Process -> Configs \cup {None}]
  <2>1. UNCHANGED <<file, seen, edits>> BY <1>1, BeginCaches
  <2>2. CASE UNCHANGED config BY <2>1, <2>2 DEF Cached
  <2>3. CASE \E f \in seen[p] \cap File : Loadable(f) /\ config' = [config EXCEPT ![p] = Load(f)]
    <3>1. PICK f \in seen[p] \cap File : Loadable(f) /\ config' = [config EXCEPT ![p] = Load(f)]
      BY <2>3
    <3>2. Load(f) \in Configs BY <3>1, LoadGives
    <3>3. config' \in [Process -> Configs \cup {None}] BY <3>1, <3>2
    <3>4. Cached' BY <2>1, <3>1 DEF Cached
    <3>. QED BY <3>3, <3>4
  <2>. QED BY <1>1, <2>2, <2>3, BeginCaches
<1>2. ASSUME NEW f \in File, EditRouting(f)
      PROVE  /\ Cached' /\ UNCHANGED config /\ seen' \in [Process -> SUBSET File]
             /\ file' \in File /\ edits' \in 0..MaxEdits
  <2>1. /\ seen' = [p \in Process |-> seen[p] \cup {f}] /\ file' = f /\ UNCHANGED config
        /\ edits' \in 0..MaxEdits
    BY <1>2, ConstantsAssumption DEF EditRouting
  <2>. QED BY <2>1 DEF Cached
<1>3. ASSUME NEW p \in Process, Restart(p)
      PROVE  /\ Cached' /\ config' \in [Process -> Configs \cup {None}]
             /\ seen' \in [Process -> SUBSET File] /\ UNCHANGED <<file, edits>>
  <2>1. /\ config' = [config EXCEPT ![p] = None] /\ seen' = [seen EXCEPT ![p] = {file}]
        /\ UNCHANGED <<file, edits>>
    BY <1>3 DEF Restart
  <2>. QED BY <2>1 DEF Cached
<1>4. CASE UNCHANGED routing BY <1>4 DEF routing, Cached
<1>5. ASSUME NEW r \in Run, Step(r) \/ Rollback(r)
      PROVE  UNCHANGED routing
  BY <1>5 DEF Step, Probe, Apply, Audit, Reprobe, Amend, AmendRaises, Log, Die, Rollback, RollbackRead,
              RollbackOpen, RollbackWrite, RollbackRaises
<1>6. CASE UNCHANGED vars BY <1>4, <1>6 DEF vars
<1>. QED
  <2>1. CASE \E r \in Run, p \in Process, a \in Asks : Begins(r, p, a)
    BY <1>1, <2>1, BeginCaches
  <2>. QED BY <1>2, <1>3, <1>4, <1>5, <1>6, <2>1 DEF Next, Begins

-----------------------------------------------------------------------------
(* The steps of a run.                                                     *)

RunStep(r) ==
  (\E p \in Process, a \in Asks : Begins(r, p, a)) \/ Step(r) \/ Rollback(r)

LEMMA Steps ==
  ASSUME [Next]_vars
  PROVE  (\E r \in Run : RunStep(r)) \/ UNCHANGED <<compliant, runVars, executed, trail, rolling>>
<1>1. ASSUME NEW f \in File, EditRouting(f)
      PROVE  UNCHANGED <<compliant, runVars, executed, trail, rolling>>
  BY <1>1 DEF EditRouting
<1>2. ASSUME NEW p \in Process, Restart(p)
      PROVE  UNCHANGED <<compliant, runVars, executed, trail, rolling>>
  BY <1>2 DEF Restart
<1>3. CASE UNCHANGED vars BY <1>3 DEF vars
<1>. QED BY <1>1, <1>2, <1>3, Zenon DEF Next, RunStep, Begins

\* A run's step is about no other run.
LEMMA OthersFramed ==
  ASSUME TypeOK, NEW r \in Run, RunStep(r), NEW q \in Run \ {r}
  PROVE  UNCHANGED Own(q)
<1>. USE DEF TypeOK, Own, Rows, Lines, Goto, Return, trail, rolling
<1>1. ASSUME NEW p \in Process, NEW a \in Asks, Begins(r, p, a) PROVE UNCHANGED Own(q)
  <2>1. CASE Unresolved(r, p, a) BY <2>1 DEF Unresolved, Started
  <2>2. CASE BeginRemediate(r, p, a) BY <2>2 DEF BeginRemediate, Started
  <2>3. CASE CheckControl(r, p, a) BY <2>3 DEF CheckControl, Started
  <2>. QED BY <1>1, <2>1, <2>2, <2>3 DEF Begins
<1>2. CASE Probe(r) BY <1>2 DEF Probe
<1>3. CASE Apply(r) BY <1>3 DEF Apply
<1>4. CASE Audit(r) BY <1>4 DEF Audit
<1>5. CASE Reprobe(r) BY <1>5 DEF Reprobe, Opened
<1>6. CASE Amend(r) BY <1>6 DEF Amend, Replaced
<1>7. CASE AmendRaises(r) BY <1>7 DEF AmendRaises, ReplaceRaises
<1>8. CASE Log(r) BY <1>8 DEF Log
<1>9. CASE Die(r) BY <1>9 DEF Die
<1>10. CASE RollbackRead(r) BY <1>10 DEF RollbackRead, runVars
<1>11. CASE RollbackOpen(r) BY <1>11 DEF RollbackOpen, runVars, Opened
<1>12. CASE RollbackWrite(r) BY <1>12 DEF RollbackWrite, runVars, Replaced
<1>13. CASE RollbackRaises(r) BY <1>13 DEF RollbackRaises, runVars, ReplaceRaises
<1>. HIDE DEF TypeOK, Own, Rows, Lines, Goto, Return, trail, rolling
<1>. QED BY <1>1, <1>2, <1>3, <1>4, <1>5, <1>6, <1>7, <1>8, <1>9, <1>10, <1>11, <1>12, <1>13, Zenon
         DEF RunStep, Step, Rollback

\* What the routing file and the caches are not about.
RunsTyped ==
  /\ compliant \subseteq Host \X Control
  /\ pc \in [Run -> Place]
  /\ ask \in [Run -> Ask \cup {None}]
  /\ attempt \in [Run -> 0..1] /\ rc \in [Run -> RC \cup {None}]
  /\ executed \in [Run -> Nat] /\ status \in [Run -> Status \cup {None}]
  /\ copy \in [Run -> Snapshot \cup {None}]
  /\ snapshot \in [Run -> Snapshot \cup {None, Garbled}]
  /\ tmp \in [Run -> {"own", "shared", "moved", "past"}]
  /\ audit \subseteq AuditRow /\ remlog \subseteq LogRow
  /\ rollback \in [Run -> Snapshot \cup {None}] /\ rollbacks \in 0..MaxRollbacks
  /\ where \in [Run -> Process \cup {None}] /\ basis \in [Run -> SUBSET File]

LEMMA BeginTyped ==
  ASSUME TypeOK, NEW r \in Run, NEW p \in Process, NEW a \in Asks, Begins(r, p, a)
  PROVE  RunsTyped'
<1>. USE DEF TypeOK, Goto, Return, trail, rolling, Place
<1>1. a \in Ask BY ConstantsAssumption
<1>2. ASSUME Started(r, p, a)
      PROVE  /\ ask' \in [Run -> Ask \cup {None}] /\ where' \in [Run -> Process \cup {None}]
             /\ basis' \in [Run -> SUBSET File]
  BY <1>1, <1>2 DEF Started
<1>3. CASE Unresolved(r, p, a)
  BY <1>2, <1>3 DEF Unresolved, RunsTyped
<1>4. CASE BeginRemediate(r, p, a)
  <2>1. status' \in [Run -> Status \cup {None}] BY <1>4 DEF BeginRemediate, Status
  <2>2. audit' \subseteq AuditRow BY <1>4 DEF BeginRemediate, AuditRow, RC
  <2>3. pc' \in [Run -> Place]
    BY <1>4 DEF BeginRemediate
  <2>4. /\ UNCHANGED <<compliant, attempt, rc, executed, copy, snapshot, remlog, rolling>>
        /\ Started(r, p, a)
    BY <1>4 DEF BeginRemediate
  <2>. QED BY <1>2, <2>1, <2>2, <2>3, <2>4 DEF RunsTyped
<1>5. CASE CheckControl(r, p, a)
  <2>1. status' \in [Run -> Status \cup {None}] BY <1>5 DEF CheckControl, Status
  <2>2. snapshot' \in [Run -> Snapshot \cup {None, Garbled}]
    <3>1. Shot("check_only", None, None) \in Snapshot BY ShotTyped
    <3>2. \/ snapshot' = snapshot
          \/ snapshot' = [snapshot EXCEPT ![r] = Shot("check_only", None, None)]
      BY <1>5 DEF CheckControl
    <3>. QED BY <3>1, <3>2
  <2>3. pc' \in [Run -> Place]
    BY <1>5 DEF CheckControl
  <2>4. /\ UNCHANGED <<compliant, attempt, rc, executed, copy, audit, remlog, rolling>>
        /\ Started(r, p, a)
    BY <1>5 DEF CheckControl
  <2>. QED BY <1>2, <2>1, <2>2, <2>3, <2>4 DEF RunsTyped
<1>. QED BY <1>3, <1>4, <1>5 DEF Begins

LEMMA StepTyped ==
  ASSUME TypeOK, NEW r \in Run, RunInv(r), Step(r) \/ Rollback(r)
  PROVE  RunsTyped'
<1>. USE DEF TypeOK, Goto, Return, trail, rolling, RunsTyped, Place
<1>1. CASE Probe(r)
  <2>1. PICK x \in ProbeResult(ask[r]) :
          /\ copy' = [copy EXCEPT ![r] = Shot("pre_remediation", x, None)]
          /\ snapshot' = [snapshot EXCEPT ![r] = Shot("pre_remediation", x, None)]
    BY <1>1 DEF Probe
  <2>2. x \in RC \cup {None} BY DEF ProbeResult, CheckResult, RC
  <2>3. Shot("pre_remediation", x, None) \in Snapshot BY <2>2, ShotTyped
  <2>4. /\ copy' \in [Run -> Snapshot \cup {None}]
        /\ snapshot' \in [Run -> Snapshot \cup {None, Garbled}]
    BY <2>1, <2>3
  <2>. QED BY <1>1, <2>4 DEF Probe
<1>2. CASE Apply(r)
  <2>1. ask[r] \in Ask /\ ask[r].tool = "remediate"
    BY <1>2 DEF Apply, RunInv, Allowed, Working
  <2>2. ask[r].host \in Host /\ ask[r].control \in Control BY <2>1 DEF Ask
  <2>3. compliant' \subseteq Host \X Control BY <1>2, <2>2 DEF Apply
  <2>4. rc' \in [Run -> RC \cup {None}] BY <1>2 DEF Apply
  <2>5. executed' \in [Run -> Nat] BY <1>2 DEF Apply
  <2>6. /\ pc' \in [Run -> Place]
        /\ attempt' \in [Run -> 0..1]
    BY <1>2 DEF Apply
  <2>7. UNCHANGED <<ask, where, basis, status, copy, trail, rolling>> BY <1>2 DEF Apply
  <2>. QED BY <2>3, <2>4, <2>5, <2>6, <2>7
<1>3. CASE Audit(r)
  <2>1. rc[r] \in RC BY <1>3 DEF Audit, RunInv, Untold
  <2>2. audit' \subseteq AuditRow BY <1>3, <2>1 DEF Audit, AuditRow
  <2>. QED BY <1>3, <2>2 DEF Audit
<1>4. CASE Reprobe(r)
  <2>1. copy[r] \in Snapshot /\ rc[r] \in RC \cup {None} BY <1>4 DEF Reprobe, RunInv, Held
  <2>2. [copy[r] EXCEPT !.apply = rc[r]] \in Snapshot BY <2>1 DEF Snapshot
  <2>3. copy' \in [Run -> Snapshot \cup {None}] BY <1>4, <2>2 DEF Reprobe
  <2>. QED BY <1>4, <2>3 DEF Reprobe, Opened
<1>5. CASE Amend(r)
  <2>1. copy[r] \in Snapshot /\ (tmp[r] = "shared" => rollback[r] \in Snapshot)
    BY <1>5 DEF Amend, Amending, RunInv, Held, Marking
  <2>2. snapshot' \in [Run -> Snapshot \cup {None, Garbled}]
    BY <1>5, <2>1 DEF Amend, Replaced, Mixed
  <2>3. tmp' \in [Run -> {"own", "shared", "moved", "past"}] BY <1>5 DEF Amend, Replaced
  <2>. QED BY <1>5, <2>2, <2>3 DEF Amend
<1>6. CASE AmendRaises(r)
  <2>1. copy[r] \in Snapshot BY <1>6 DEF AmendRaises, Amending, RunInv, Held
  <2>2. snapshot' \in [Run -> Snapshot \cup {None, Garbled}]
    BY <1>6, <2>1 DEF AmendRaises, ReplaceRaises, Mixed
  <2>3. tmp' \in [Run -> {"own", "shared", "moved", "past"}] BY <1>6 DEF AmendRaises, ReplaceRaises
  <2>. QED BY <1>6, <2>2, <2>3 DEF AmendRaises
<1>7. CASE Log(r)
  <2>1. Verdict(r) \in {"applied", "failed", "dry_run"} BY DEF Verdict
  <2>2. remlog' \subseteq LogRow /\ status' \in [Run -> Status \cup {None}]
    BY <1>7, <2>1 DEF Log, LogRow, Status
  <2>. QED BY <1>7, <2>2 DEF Log
<1>8. CASE Die(r) BY <1>8 DEF Die
<1>9. CASE RollbackRead(r)
  <2>1. rollback' \in [Run -> Snapshot \cup {None}] BY <1>9 DEF RollbackRead, Readable
  <2>2. rollbacks' \in 0..MaxRollbacks BY <1>9, ConstantsAssumption DEF RollbackRead
  <2>. QED BY <1>9, <2>1, <2>2 DEF RollbackRead, runVars
<1>10. CASE RollbackOpen(r)
  <2>1. rollback[r] \in Snapshot BY <1>10 DEF RollbackOpen
  <2>2. [rollback[r] EXCEPT !.rolled_back = TRUE] \in Snapshot BY <2>1 DEF Snapshot
  <2>3. rollback' \in [Run -> Snapshot \cup {None}] BY <1>10, <2>2 DEF RollbackOpen
  <2>. QED BY <1>10, <2>3 DEF RollbackOpen, runVars, Opened
<1>11. CASE RollbackWrite(r)
  <2>1. rollback[r] \in Snapshot /\ (tmp[r] = "shared" => copy[r] \in Snapshot \cup {None})
    BY <1>11 DEF RollbackWrite, Marking
  <2>2. /\ snapshot' \in [Run -> Snapshot \cup {None, Garbled}]
        /\ tmp' \in [Run -> {"own", "shared", "moved", "past"}]
    BY <1>11, <2>1 DEF RollbackWrite, Replaced, Mixed
  <2>3. remlog' \subseteq LogRow BY <1>11 DEF RollbackWrite, LogRow
  <2>4. audit' \subseteq AuditRow BY <1>11 DEF RollbackWrite, AuditRow, RC
  <2>5. rollback' \in [Run -> Snapshot \cup {None}] BY <1>11 DEF RollbackWrite
  <2>. QED BY <1>11, <2>2, <2>3, <2>4, <2>5 DEF RollbackWrite, runVars
<1>12. CASE RollbackRaises(r)
  <2>1. rollback[r] \in Snapshot BY <1>12 DEF RollbackRaises, Marking
  <2>2. /\ snapshot' \in [Run -> Snapshot \cup {None, Garbled}]
        /\ tmp' \in [Run -> {"own", "shared", "moved", "past"}]
    BY <1>12, <2>1 DEF RollbackRaises, ReplaceRaises, Mixed
  <2>3. rollback' \in [Run -> Snapshot \cup {None}] BY <1>12 DEF RollbackRaises
  <2>. QED BY <1>12, <2>2, <2>3 DEF RollbackRaises, runVars
<1>. HIDE DEF RunsTyped
<1>. QED BY <1>1, <1>2, <1>3, <1>4, <1>5, <1>6, <1>7, <1>8, <1>9, <1>10, <1>11, <1>12
         DEF Step, Rollback

LEMMA BeginKeeps ==
  ASSUME TypeOK, Cached, NEW r \in Run, RunInv(r),
         NEW p \in Process, NEW a \in Asks, Begins(r, p, a)
  PROVE  RunInv(r)'
<1>. USE DEF TypeOK, Goto, Return, trail, rolling
<1>1. a \in Ask BY ConstantsAssumption
<1>2. /\ pc[r] = "idle" /\ executed[r] = 0 /\ attempt[r] = 0 /\ status[r] = None
      /\ Rows(r) = {} /\ Lines(r) = {} /\ rollback[r] = None
      /\ tmp[r] # "shared" /\ (snapshot[r] = Garbled => tmp[r] # "own")
  BY DEF Begins, Unresolved, BeginRemediate, CheckControl, Started, RunInv, Counted, Untold, Held,
         Amending
<1>3. /\ ask'[r] = a /\ basis'[r] = seen[p]
  BY DEF Begins, Unresolved, BeginRemediate, CheckControl, Started
<1>4. executed'[r] = 0 /\ attempt'[r] = 0 /\ rollback'[r] = None /\ Lines(r)' = {}
  BY <1>2 DEF Begins, Unresolved, BeginRemediate, CheckControl, Lines
<1>12. Held(r)'
  <2>1. tmp'[r] = tmp[r] BY DEF Begins, Unresolved, BeginRemediate, CheckControl
  <2>2. snapshot'[r] = snapshot[r] \/ snapshot'[r] # Garbled
    <3>1. Shot("check_only", None, None) # Garbled BY ShotTyped
    <3>. QED BY <3>1 DEF Begins, Unresolved, BeginRemediate, CheckControl
  <2>3. pc'[r] \in {"probe", "done", "died"}
    BY DEF Begins, Unresolved, BeginRemediate, CheckControl
  <2>. QED BY <1>2, <2>1, <2>2, <2>3 DEF Held, Amending
<1>5. CASE pc'[r] \in {"done", "died"}
  <2>1. \A row \in Rows(r)' : row.kind = "refused"
    BY <1>2 DEF Begins, Unresolved, BeginRemediate, CheckControl, Rows
  <2>2. status'[r] \in {None, "refused", "manual_review", "checked"}
    BY <1>2 DEF Begins, Unresolved, BeginRemediate, CheckControl
  <2>3. pc'[r] # "done" => status'[r] = None
    BY <1>2 DEF Begins, Unresolved, BeginRemediate, CheckControl
  <2>4. status'[r] \notin {"applied", "failed"} BY <2>2, NoneIsApart DEF Status
  <2>. QED BY <1>1, <1>3, <1>4, <1>5, <1>12, <2>1, <2>3, <2>4
           DEF RunInv, Allowed, Counted, Untold, Saved, Traced, Told, Answered, Working
<1>6. CASE pc'[r] \notin {"done", "died"}
  <2>1. /\ BeginRemediate(r, p, a) /\ a.control \in Fixable /\ a.tool = "remediate"
        /\ ~Refuses(TenantOrDefault(p, a.tenant), a) /\ pc'[r] = "probe"
        /\ status'[r] = None /\ Rows(r)' = {}
    BY <1>2, <1>6 DEF Begins, Unresolved, BeginRemediate, CheckControl, Rows
  <2>2. a.confidence \in 0..Top BY <1>1, <2>1 DEF Ask
  <2>3. \E f \in seen[p] : Permits(f, a)
    <3>1. CASE a.tenant = None
      <4>1. TenantOrDefault(p, a.tenant) = None BY <3>1 DEF TenantOrDefault
      <4>2. file \in seen[p] /\ file \in File BY DEF Cached
      <4>. QED BY <2>1, <2>2, <3>1, <4>1, <4>2, GatePermits
    <3>2. CASE a.tenant # None
      <4>1. TenantOrDefault(p, a.tenant) = GetConfig(p) BY <3>2 DEF TenantOrDefault
      <4>2. CASE GetConfig(p) = None /\ ~Loadable(file)
        <5>1. file \in seen[p] /\ file \in File BY DEF Cached
        <5>. QED BY <2>1, <2>2, <4>1, <4>2, <5>1, GatePermits
      <4>3. CASE \E f \in seen[p] \cap File : Loadable(f) /\ GetConfig(p) = Load(f)
        BY <2>1, <2>2, <3>2, <4>1, <4>3, GatePermits
      <4>. QED BY <4>2, <4>3, GetConfigTyped
    <3>. QED BY <3>1, <3>2
  <2>4. (\E f \in basis[r] : Permits(f, ask[r]))' BY <1>3, <2>3 DEF Permits
  <2>5. status'[r] \notin {"applied", "failed"} BY <2>1, NoneIsApart DEF Status
  <2>. QED BY <1>1, <1>3, <1>4, <1>12, <2>1, <2>4, <2>5
           DEF RunInv, Allowed, Counted, Untold, Saved, Traced, Told, Answered, Working
<1>. QED BY <1>5, <1>6

LEMMA ProbeKeeps ==
  ASSUME TypeOK, NEW r \in Run, RunInv(r), Probe(r)
  PROVE  RunInv(r)'
<1>1. /\ pc[r] = "probe" /\ pc'[r] = IF ask[r].dry THEN "log" ELSE "apply"
      /\ UNCHANGED <<ask, attempt, rc, executed, status, basis, audit, remlog, rollback, tmp>>
  BY DEF Probe, Goto, TypeOK, rolling
<1>2. /\ snapshot'[r] \notin {None, Garbled} /\ snapshot'[r].apply = None
      /\ copy'[r] # None
  <2>1. PICK x \in ProbeResult(ask[r]) :
          /\ copy' = [copy EXCEPT ![r] = Shot("pre_remediation", x, None)]
          /\ snapshot' = [snapshot EXCEPT ![r] = Shot("pre_remediation", x, None)]
    BY DEF Probe
  <2>2. x \in RC \cup {None} BY DEF ProbeResult, CheckResult, RC
  <2>. QED BY <2>1, <2>2, ShotTyped DEF TypeOK
<1>3. Rows(r)' = {} /\ Lines(r)' = {} BY <1>1 DEF RunInv, Untold, Rows, Lines
<1>4. status'[r] \notin {"applied", "failed"} BY <1>1, NoneIsApart DEF Status, RunInv, Untold
<1>5. Allowed(r)' BY <1>1 DEF RunInv, Allowed, Counted, Working
<1>6. Counted(r)' BY <1>1 DEF RunInv, Counted
<1>7. Untold(r)' BY <1>1, <1>2, <1>3 DEF RunInv, Untold, Readable
<1>8. Saved(r)' BY <1>2 DEF Saved
<1>9. Traced(r)' /\ Answered(r)' BY <1>1, <1>4 DEF Traced, Told, Answered
<1>10. Held(r)' BY <1>1, <1>2 DEF RunInv, Held, Amending, Marking
<1>. QED BY <1>5, <1>6, <1>7, <1>8, <1>9, <1>10 DEF RunInv

LEMMA ApplyKeeps ==
  ASSUME TypeOK, NEW r \in Run, RunInv(r), Apply(r)
  PROVE  RunInv(r)'
<1>1. PICK result \in RC, ran, effective \in BOOLEAN :
        /\ result = "ok" => ran
        /\ executed' = [executed EXCEPT ![r] = IF ran THEN executed[r] + 1 ELSE executed[r]]
        /\ rc' = [rc EXCEPT ![r] = result]
        /\ IF Retries(r, result)
             THEN attempt' = [attempt EXCEPT ![r] = 1] /\ UNCHANGED pc
             ELSE attempt' = [attempt EXCEPT ![r] = 0] /\ Goto(r, "audit")
  BY DEF Apply
<1>2. /\ pc[r] = "apply"
      /\ UNCHANGED <<ask, status, basis, copy, snapshot, audit, remlog, rollback, tmp>>
  BY DEF Apply, trail, rolling
<1>3. /\ executed[r] \in Nat /\ attempt[r] \in 0..1 /\ rc'[r] = result
      /\ executed'[r] = IF ran THEN executed[r] + 1 ELSE executed[r]
  BY <1>1 DEF TypeOK
<1>4. /\ pc'[r] \in {"apply", "audit"}
      /\ pc'[r] = "apply" => attempt'[r] = 1 /\ attempt[r] = 0 /\ ask[r].host # Local
  BY <1>1, <1>2 DEF Goto, Retries, TypeOK
<1>5. Rows(r)' = {} /\ Lines(r)' = {} BY <1>2 DEF RunInv, Untold, Rows, Lines
<1>6. status'[r] \notin {"applied", "failed"} BY <1>2, NoneIsApart DEF Status, RunInv, Untold
<1>7. Allowed(r)' BY <1>2, <1>4 DEF RunInv, Allowed, Working
<1>8. Counted(r)'
  <2>1. executed[r] <= attempt[r] /\ (attempt[r] = 1 => ask[r].host # Local)
    BY <1>2 DEF RunInv, Counted
  <2>2. executed'[r] <= attempt[r] + 1 BY <1>3, <2>1
  <2>3. pc'[r] = "apply" => executed'[r] <= 1 BY <1>3, <1>4, <2>2
  <2>4. executed'[r] <= IF ask[r].host = Local THEN 1 ELSE 2 BY <1>3, <2>1, <2>2
  <2>. QED BY <1>2, <1>4, <2>3, <2>4 DEF Counted
<1>9. Untold(r)'
  <2>1. result = "ok" => executed'[r] > 0 BY <1>1, <1>3
  <2>. QED BY <1>2, <1>3, <1>4, <1>5, <2>1 DEF RunInv, Untold, Readable
<1>12. Held(r)' BY <1>2, <1>4 DEF RunInv, Held, Amending, Marking
<1>10. Saved(r)' BY <1>2 DEF RunInv, Saved, Working
<1>11. Traced(r)' /\ Answered(r)' BY <1>4, <1>6 DEF Traced, Told, Answered
<1>. QED BY <1>7, <1>8, <1>9, <1>10, <1>11, <1>12 DEF RunInv

LEMMA AuditKeeps ==
  ASSUME TypeOK, NEW r \in Run, RunInv(r), Audit(r)
  PROVE  RunInv(r)'
<1>1. /\ pc[r] = "audit" /\ pc'[r] = "amend"
      /\ UNCHANGED <<ask, attempt, rc, executed, status, basis, copy, snapshot, remlog, rollback,
                     tmp>>
      /\ audit' = audit \cup {[run |-> r, kind |-> "applied", rc |-> rc[r]]}
  BY DEF Audit, Goto, TypeOK, rolling
<1>2. Rows(r)' = {[run |-> r, kind |-> "applied", rc |-> rc[r]]}
  BY <1>1 DEF RunInv, Untold, Rows
<1>3. status'[r] \notin {"applied", "failed"} BY <1>1, NoneIsApart DEF Status, RunInv, Untold
<1>4. /\ rc[r] \in RC /\ (rc[r] = "ok" => executed[r] > 0)
      /\ Readable(r) /\ snapshot[r].apply = None /\ rollback[r] = None
  BY <1>1 DEF RunInv, Untold
<1>5. Allowed(r)' BY <1>1 DEF RunInv, Allowed, Working
<1>6. Counted(r)' BY <1>1 DEF RunInv, Counted
<1>7. Untold(r)' BY <1>1 DEF RunInv, Untold
<1>8. Saved(r)' BY <1>1 DEF RunInv, Saved, Working
<1>9. Traced(r)'
  <2>1. \E row \in Rows(r)' : row.kind = "applied" BY <1>2
  <2>2. \A row \in Rows(r)' : row.rc = rc[r] BY <1>2
  <2>. QED BY <1>1, <1>4, <2>1, <2>2 DEF Traced
<1>10. Answered(r)' BY <1>3 DEF Answered
<1>11. Held(r)' BY <1>1 DEF RunInv, Held, Amending, Marking
<1>. QED BY <1>5, <1>6, <1>7, <1>8, <1>9, <1>10, <1>11 DEF RunInv

LEMMA ReprobeKeeps ==
  ASSUME TypeOK, NEW r \in Run, RunInv(r), Reprobe(r)
  PROVE  RunInv(r)'
<1>1. /\ pc[r] = "amend" /\ pc'[r] = "amending"
      /\ UNCHANGED <<ask, attempt, rc, executed, status, basis, snapshot, audit, remlog, rollback>>
      /\ copy'[r] = [copy[r] EXCEPT !.apply = rc[r]]
      /\ tmp'[r] = IF Marking(r) THEN "shared" ELSE IF tmp[r] = "own" THEN "own" ELSE "past"
  BY DEF Reprobe, Opened, Goto, TypeOK, trail
<1>2. Told(r) /\ Traced(r) BY <1>1 DEF Told, RunInv, Allowed
<1>3. copy'[r] # None /\ copy'[r].apply = rc[r]
  <2>1. copy[r] \in Snapshot BY <1>1 DEF RunInv, Held, TypeOK
  <2>2. rc[r] \in RC BY <1>2 DEF Traced
  <2>3. [copy[r] EXCEPT !.apply = rc[r]] \in Snapshot BY <2>1, <2>2 DEF Snapshot
  <2>. QED BY <1>1, <2>1, <2>3, NoneIsApart DEF Snapshot
<1>4. Rows(r)' = Rows(r) BY <1>1 DEF Rows
<1>5. status'[r] \notin {"applied", "failed"} BY <1>1, NoneIsApart DEF Status, RunInv, Untold
<1>6. Allowed(r)' BY <1>1 DEF RunInv, Allowed, Working
<1>7. Counted(r)' BY <1>1 DEF RunInv, Counted
<1>8. Untold(r)' BY <1>1 DEF RunInv, Untold
<1>9. Saved(r)' BY <1>1, <1>4 DEF RunInv, Saved, Working
<1>10. Traced(r)' BY <1>1, <1>2, <1>4 DEF Traced, Readable
<1>11. Held(r)'
  <2>1. snapshot[r] = Garbled => tmp'[r] # "own" BY <1>1 DEF RunInv, Held
  <2>2. Marking(r)' = Marking(r) BY <1>1 DEF Marking
  <2>. QED BY <1>1, <1>3, <2>1, <2>2 DEF Held, Amending
<1>12. Answered(r)' BY <1>5 DEF Answered
<1>. QED BY <1>6, <1>7, <1>8, <1>9, <1>10, <1>11, <1>12 DEF RunInv

\* Whatever the move of the temporary file leaves agrees with what the fix returned.
LEMMA AmendKeeps ==
  ASSUME TypeOK, NEW r \in Run, RunInv(r), Amend(r)
  PROVE  RunInv(r)'
<1>1. /\ pc[r] = "amending" /\ pc'[r] = "log"
      /\ UNCHANGED <<ask, attempt, rc, executed, status, basis, copy, audit, remlog, rollback>>
  BY DEF Amend, Amending, Goto, TypeOK
<1>2. Told(r) /\ Traced(r) BY <1>1 DEF Told, RunInv, Allowed
<1>3. /\ copy[r] \in Snapshot /\ copy[r].apply = rc[r]
      /\ tmp[r] = "shared" => Marking(r)
  BY <1>1 DEF RunInv, Held, Amending, TypeOK
<1>4. \/ snapshot'[r] = copy[r] /\ tmp'[r] \in {"own", "past", "moved"}
      \/ Marking(r) /\ snapshot'[r] = rollback[r] /\ tmp'[r] = "moved"
      \/ snapshot'[r] = Garbled /\ tmp'[r] = "moved"
  BY <1>3 DEF Amend, Replaced, Mixed, TypeOK
<1>5. /\ snapshot'[r] # None
      /\ snapshot'[r] # Garbled =>
           /\ snapshot'[r].apply \in {None, rc[r]}
           /\ snapshot'[r].apply = rc[r] \/ snapshot'[r].rolled_back
      /\ snapshot'[r] = Garbled => tmp'[r] # "own"
      /\ tmp'[r] # "shared"
  <2>1. CASE snapshot'[r] = copy[r] BY <1>3, <1>4, <2>1, NoneIsApart
  <2>2. CASE Marking(r) /\ snapshot'[r] = rollback[r]
    BY <1>2, <1>4, <2>2, NoneIsApart DEF Traced, Marking, TypeOK
  <2>3. CASE snapshot'[r] = Garbled BY <1>3, <1>4, <2>3, NoneIsApart
  <2>. QED BY <1>4, <2>1, <2>2, <2>3
<1>6. Rows(r)' = Rows(r) BY <1>1 DEF Rows
<1>7. status'[r] \notin {"applied", "failed"} BY <1>1, NoneIsApart DEF Status, RunInv, Untold
<1>8. Allowed(r)' BY <1>1 DEF RunInv, Allowed, Working
<1>9. Counted(r)' BY <1>1 DEF RunInv, Counted
<1>10. Untold(r)' BY <1>1 DEF RunInv, Untold
<1>11. Saved(r)' BY <1>5 DEF Saved
<1>12. Traced(r)' BY <1>1, <1>2, <1>5, <1>6 DEF Traced, Readable
<1>13. Held(r)' BY <1>1, <1>5 DEF Held, Amending
<1>14. Answered(r)' BY <1>7 DEF Answered
<1>. QED BY <1>8, <1>9, <1>10, <1>11, <1>12, <1>13, <1>14 DEF RunInv

LEMMA AmendRaisesKeeps ==
  ASSUME TypeOK, NEW r \in Run, RunInv(r), AmendRaises(r)
  PROVE  RunInv(r)'
<1>1. /\ pc[r] = "amending" /\ pc'[r] = "died" /\ tmp'[r] = "past"
      /\ UNCHANGED <<ask, attempt, rc, executed, status, basis, copy, audit, remlog, rollback>>
      /\ snapshot'[r] \in {copy[r], snapshot[r], Garbled}
  BY DEF AmendRaises, ReplaceRaises, Mixed, Amending, Goto, TypeOK
<1>2. snapshot'[r] # None
  BY <1>1, NoneIsApart DEF RunInv, Held, Saved, Working
<1>3. Rows(r)' = Rows(r) BY <1>1 DEF Rows
<1>4. status'[r] \notin {"applied", "failed"} BY <1>1, NoneIsApart DEF Status, RunInv, Untold
<1>5. Allowed(r)' BY <1>1 DEF RunInv, Allowed, Working
<1>6. Counted(r)' BY <1>1 DEF RunInv, Counted
<1>7. Untold(r)' BY <1>1 DEF RunInv, Untold
<1>8. Saved(r)' BY <1>2 DEF Saved
<1>9. Traced(r)' /\ Answered(r)' BY <1>1, <1>4 DEF Traced, Told, Answered
<1>10. Held(r)' BY <1>1 DEF Held, Amending
<1>. QED BY <1>5, <1>6, <1>7, <1>8, <1>9, <1>10 DEF RunInv

LEMMA LogKeeps ==
  ASSUME TypeOK, NEW r \in Run, RunInv(r), Log(r)
  PROVE  RunInv(r)'
<1>1. /\ pc[r] = "log" /\ pc'[r] = "done" /\ status'[r] = Verdict(r)
      /\ UNCHANGED <<ask, attempt, rc, executed, basis, copy, snapshot, audit, rollback, tmp>>
      /\ remlog' = remlog \cup {[run |-> r, status |-> Verdict(r)]}
  BY DEF Log, Goto, Return, TypeOK, rolling
<1>2. Rows(r)' = Rows(r) BY <1>1 DEF Rows
<1>3. [run |-> r, status |-> Verdict(r)] \in Lines(r)' BY <1>1 DEF Lines
<1>4. status'[r] \in {"applied", "failed"} =>
        ~ask[r].dry /\ (status'[r] = "applied" <=> rc[r] = "ok")
  BY <1>1 DEF Verdict
<1>5. Allowed(r)' BY <1>1 DEF RunInv, Allowed, Working
<1>6. Counted(r)' BY <1>1 DEF RunInv, Counted
<1>7. Untold(r)' BY <1>1 DEF RunInv, Untold
<1>8. Saved(r)' BY <1>1, <1>2 DEF RunInv, Saved, Working
<1>9. Traced(r)' BY <1>1, <1>2, <1>4 DEF RunInv, Traced, Told, Readable
<1>10. Answered(r)'
  <2>1. \E line \in Lines(r)' : line.status = status'[r] BY <1>1, <1>3
  <2>. QED BY <1>1, <1>4, <2>1 DEF Answered
<1>11. Held(r)' BY <1>1 DEF RunInv, Held, Amending
<1>. QED BY <1>5, <1>6, <1>7, <1>8, <1>9, <1>10, <1>11 DEF RunInv

LEMMA DieKeeps ==
  ASSUME TypeOK, NEW r \in Run, RunInv(r), Die(r)
  PROVE  RunInv(r)'
<1>1. /\ pc[r] \notin {"idle", "done"} /\ pc'[r] = "died"
      /\ UNCHANGED <<ask, attempt, rc, executed, status, basis, copy, snapshot, audit, remlog,
                     rollback, tmp>>
  BY DEF Die, Goto, TypeOK, trail, rolling
<1>2. Rows(r)' = Rows(r) BY <1>1 DEF Rows
<1>3. status'[r] \notin {"applied", "failed"} BY <1>1, NoneIsApart DEF Status, RunInv, Untold
<1>4. Allowed(r)' BY <1>1 DEF RunInv, Allowed, Working
<1>5. Counted(r)' BY <1>1 DEF RunInv, Counted
<1>6. Untold(r)' BY <1>1 DEF RunInv, Untold
<1>7. Saved(r)' BY <1>1, <1>2 DEF RunInv, Saved, Working
<1>8. Traced(r)' /\ Answered(r)' BY <1>1, <1>3 DEF Traced, Told, Answered
<1>9. Held(r)' BY <1>1 DEF RunInv, Held, Amending, Marking
<1>. QED BY <1>4, <1>5, <1>6, <1>7, <1>8, <1>9 DEF RunInv

LEMMA RollbackReadKeeps ==
  ASSUME TypeOK, NEW r \in Run, RunInv(r), RollbackRead(r)
  PROVE  RunInv(r)'
<1>1. /\ rollback[r] = None /\ rollback'[r] = snapshot[r] /\ Readable(r)
      /\ UNCHANGED <<pc, ask, attempt, rc, executed, status, basis, copy, snapshot, audit, remlog,
                     tmp>>
  BY DEF RollbackRead, runVars, trail, TypeOK
<1>2. pc[r] \notin {"idle", "probe", "apply", "audit"}
  BY DEF RollbackRead, RunInv, Untold, Rows, Lines
<1>3. Rows(r)' = Rows(r) /\ Lines(r)' = Lines(r) BY <1>1 DEF Rows, Lines
<1>4. Allowed(r)' /\ Counted(r)' BY <1>1 DEF RunInv, Allowed, Counted
<1>5. Untold(r)' BY <1>1, <1>2 DEF RunInv, Untold
<1>6. Saved(r)' /\ Answered(r)' BY <1>1, <1>3 DEF RunInv, Saved, Answered
<1>7. Traced(r)' BY <1>1, <1>3 DEF RunInv, Traced, Told, Readable
<1>8. Held(r)' BY <1>1 DEF RunInv, Held, Amending, Marking
<1>. QED BY <1>4, <1>5, <1>6, <1>7, <1>8 DEF RunInv

LEMMA RollbackOpenKeeps ==
  ASSUME TypeOK, NEW r \in Run, RunInv(r), RollbackOpen(r)
  PROVE  RunInv(r)'
<1>1. /\ rollback[r] \in Snapshot /\ rollback'[r] = [rollback[r] EXCEPT !.rolled_back = TRUE]
      /\ tmp'[r] = IF Amending(r) THEN "shared" ELSE IF tmp[r] = "own" THEN "own" ELSE "past"
      /\ UNCHANGED <<pc, ask, attempt, rc, executed, status, basis, copy, snapshot, audit, remlog>>
  BY DEF RollbackOpen, Opened, runVars, trail, TypeOK
<1>2. pc[r] \notin {"idle", "probe", "apply", "audit"} BY <1>1, NoneIsApart DEF RunInv, Untold
<1>3. /\ rollback'[r] # None /\ rollback'[r].rolled_back
      /\ rollback'[r].apply = rollback[r].apply
  <2>1. [rollback[r] EXCEPT !.rolled_back = TRUE] \in Snapshot BY <1>1 DEF Snapshot
  <2>. QED BY <1>1, <2>1, NoneIsApart DEF Snapshot
<1>4. Rows(r)' = Rows(r) /\ Lines(r)' = Lines(r) BY <1>1 DEF Rows, Lines
<1>5. Allowed(r)' /\ Counted(r)' BY <1>1 DEF RunInv, Allowed, Counted
<1>6. Untold(r)' BY <1>1, <1>2 DEF RunInv, Untold
<1>7. Saved(r)' /\ Answered(r)' BY <1>1, <1>4 DEF RunInv, Saved, Answered
<1>8. Traced(r)' BY <1>1, <1>3, <1>4, NoneIsApart DEF RunInv, Traced, Told, Readable
<1>9. Held(r)' BY <1>1, <1>3 DEF RunInv, Held, Amending, Marking
<1>. QED BY <1>5, <1>6, <1>7, <1>8, <1>9 DEF RunInv

LEMMA RollbackWriteKeeps ==
  ASSUME TypeOK, NEW r \in Run, RunInv(r), RollbackWrite(r)
  PROVE  RunInv(r)'
<1>1. /\ Marking(r) /\ rollback[r] \in Snapshot /\ rollback'[r] = None
      /\ UNCHANGED <<pc, ask, attempt, rc, executed, status, basis, copy>>
      /\ remlog \subseteq remlog'
      /\ \A row \in Rows(r)' : row \in Rows(r) \/ row.kind = "rolled_back"
      /\ Rows(r) \subseteq Rows(r)'
  BY DEF RollbackWrite, Marking, runVars, TypeOK, Rows
<1>2. pc[r] \notin {"idle", "probe", "apply", "audit"}
  BY <1>1, NoneIsApart DEF RunInv, Untold
<1>3. \/ /\ snapshot'[r] = rollback[r]
         /\ tmp'[r] \in {"own", "past", "moved"}
      \/ /\ tmp[r] = "shared" /\ tmp'[r] \in {"past", "moved"}
         /\ snapshot'[r] \in {copy[r], Garbled}
  BY DEF RollbackWrite, Replaced, Mixed, TypeOK
<1>4. /\ snapshot'[r] # None /\ tmp'[r] # "shared"
      /\ snapshot'[r] = Garbled => tmp'[r] # "own"
      /\ Told(r) /\ snapshot'[r] # Garbled =>
           /\ snapshot'[r].apply \in {None, rc[r]}
           /\ snapshot'[r].apply = rc[r] \/ snapshot'[r].rolled_back
  <2>1. CASE snapshot'[r] = rollback[r] /\ tmp'[r] \in {"own", "past", "moved"}
    BY <1>1, <2>1, NoneIsApart DEF RunInv, Traced, Marking
  <2>2. CASE tmp[r] = "shared" /\ tmp'[r] \in {"past", "moved"} /\ snapshot'[r] \in {copy[r], Garbled}
    <3>1. copy[r] # None /\ (Amending(r) \/ pc[r] = "died") BY <2>2 DEF RunInv, Held
    <3>2. pc[r] = "died" => ~Told(r) BY NoneIsApart DEF Told, RunInv, Untold, Status
    <3>3. Told(r) => copy[r].apply = rc[r] BY <3>1, <3>2 DEF RunInv, Held
    <3>. QED BY <2>2, <3>1, <3>3, NoneIsApart
  <2>. QED BY <1>3, <2>1, <2>2
<1>5. Allowed(r)' /\ Counted(r)' BY <1>1 DEF RunInv, Allowed, Counted
<1>6. Untold(r)' BY <1>1, <1>2 DEF RunInv, Untold
<1>7. Saved(r)' BY <1>4 DEF Saved
<1>8. Answered(r)' BY <1>1 DEF RunInv, Answered, Lines
<1>9. Traced(r)' BY <1>1, <1>4 DEF RunInv, Traced, Told, Readable
<1>10. Held(r)' BY <1>1, <1>4 DEF RunInv, Held, Amending
<1>. QED BY <1>5, <1>6, <1>7, <1>8, <1>9, <1>10 DEF RunInv

LEMMA RollbackRaisesKeeps ==
  ASSUME TypeOK, NEW r \in Run, RunInv(r), RollbackRaises(r)
  PROVE  RunInv(r)'
<1>1. /\ Marking(r) /\ rollback[r] \in Snapshot /\ rollback'[r] = None
      /\ tmp[r] = "moved" /\ tmp'[r] = "past"
      /\ UNCHANGED <<pc, ask, attempt, rc, executed, status, basis, copy, audit, remlog>>
      /\ snapshot'[r] \in {rollback[r], snapshot[r], Garbled}
  BY DEF RollbackRaises, ReplaceRaises, Mixed, Marking, runVars, TypeOK
<1>2. pc[r] \notin {"idle", "probe", "apply", "audit"}
  BY <1>1, NoneIsApart DEF RunInv, Untold
<1>3. Rows(r)' = Rows(r) /\ Lines(r)' = Lines(r) BY <1>1 DEF Rows, Lines
<1>4. snapshot'[r] = None => snapshot[r] = None BY <1>1, NoneIsApart
<1>5. Allowed(r)' /\ Counted(r)' BY <1>1 DEF RunInv, Allowed, Counted
<1>6. Untold(r)' BY <1>1, <1>2 DEF RunInv, Untold
<1>7. Saved(r)' /\ Answered(r)' BY <1>1, <1>3, <1>4 DEF RunInv, Saved, Answered
<1>8. Traced(r)'
  <2>1. CASE snapshot'[r] = rollback[r]
    BY <1>1, <1>3, <2>1 DEF RunInv, Traced, Told, Readable, Marking
  <2>2. CASE snapshot'[r] = snapshot[r] BY <1>1, <1>3, <2>2 DEF RunInv, Traced, Told, Readable
  <2>3. CASE snapshot'[r] = Garbled BY <1>1, <1>3, <2>3 DEF RunInv, Traced, Told, Readable
  <2>. QED BY <1>1, <2>1, <2>2, <2>3
<1>9. Held(r)' BY <1>1 DEF RunInv, Held, Amending
<1>. QED BY <1>5, <1>6, <1>7, <1>8, <1>9 DEF RunInv

-----------------------------------------------------------------------------
LEMMA RunStepKeeps ==
  ASSUME Inv, NEW r \in Run, RunStep(r)
  PROVE  RunInv(r)' /\ RunsTyped'
<1>1. TypeOK /\ Cached /\ RunInv(r) BY DEF Inv
<1>2. CASE \E p \in Process, a \in Asks : Begins(r, p, a) BY <1>1, <1>2, BeginKeeps, BeginTyped
<1>3. CASE Step(r) \/ Rollback(r)
  <2>1. RunsTyped' BY <1>1, <1>3, StepTyped
  <2>2. RunInv(r)'
    BY <1>1, <1>3, ProbeKeeps, ApplyKeeps, AuditKeeps, ReprobeKeeps, AmendKeeps, AmendRaisesKeeps,
       LogKeeps, DieKeeps, RollbackReadKeeps, RollbackOpenKeeps, RollbackWriteKeeps,
       RollbackRaisesKeeps
    DEF Step, Rollback
  <2>. QED BY <2>1, <2>2
<1>. QED BY <1>2, <1>3 DEF RunStep

LEMMA Inductive == Inv /\ [Next]_vars => Inv'
<1>. SUFFICES ASSUME Inv, [Next]_vars PROVE Inv' OBVIOUS
<1>1. TypeOK /\ Cached BY DEF Inv
<1>2. /\ Cached' /\ config' \in [Process -> Configs \cup {None}]
      /\ seen' \in [Process -> SUBSET File] /\ file' \in File /\ edits' \in 0..MaxEdits
  BY <1>1, CachedKept
<1>3. ASSUME NEW r \in Run, RunStep(r) PROVE RunsTyped' /\ \A q \in Run : RunInv(q)'
  <2>1. RunInv(r)' /\ RunsTyped' BY <1>3, RunStepKeeps
  <2>2. ASSUME NEW q \in Run, q # r PROVE RunInv(q)'
    <3>1. UNCHANGED Own(q) BY <1>1, <1>3, <2>2, OthersFramed
    <3>2. RunInv(q) BY DEF Inv
    <3>. QED BY <3>1, <3>2, Frame
  <2>. QED BY <2>1, <2>2
<1>4. ASSUME UNCHANGED <<compliant, runVars, executed, trail, rolling>>
      PROVE  RunsTyped' /\ \A q \in Run : RunInv(q)'
  <2>1. ASSUME NEW q \in Run PROVE RunInv(q)'
    <3>1. UNCHANGED Own(q) BY <1>4 DEF Own, runVars, trail, rolling, Rows, Lines
    <3>2. RunInv(q) BY DEF Inv
    <3>. QED BY <3>1, <3>2, Frame
  <2>2. RunsTyped' BY <1>1, <1>4 DEF TypeOK, RunsTyped, runVars, trail, rolling
  <2>. QED BY <2>1, <2>2
<1>5. RunsTyped' /\ \A q \in Run : RunInv(q)' BY <1>3, <1>4, Steps
<1>6. TypeOK' BY <1>2, <1>5 DEF TypeOK, RunsTyped
<1>. QED BY <1>2, <1>5, <1>6 DEF Inv

LEMMA Invariant == Spec => []Inv
BY InitInv, Inductive, PTL DEF Spec

-----------------------------------------------------------------------------
\* The variables keep their types.
THEOREM TypeCorrect == Spec => []TypeOK
<1>1. Inv => TypeOK BY DEF Inv
<1>. QED BY <1>1, Invariant, PTL

\* "Snapshot first. Before any change": wherever a run is killed, a fix that a
\* host has executed has its snapshot, and one that can be read unless the run
\* and a rollback of it have written the temporary file together.
THEOREM SnapshotComesFirst == Spec => []SnapshotFirst
<1>1. Inv => SnapshotFirst BY DEF Inv, RunInv, Saved, Held, Readable, SnapshotFirst
<1>. QED BY <1>1, Invariant, PTL

\* No host executes a fix that no content of the routing file permits which the
\* run's process can have seen, however files are saved and cached.
THEOREM GateHolds == Spec => []Gated
<1>1. Inv => Gated BY DEF Inv, RunInv, Allowed, Counted, Gated
<1>. QED BY <1>1, Invariant, PTL

\* What a run answered agrees with its rows, and with its snapshot as the read
\* tools show it.
THEOREM TrailHolds == Spec => []TrailAgrees
<1>1. ASSUME Inv, NEW r \in Run, status[r] \in {"applied", "failed"}
      PROVE  /\ \E row \in ListRemediations(ask[r].tenant, status[r]) : row.run = r
             /\ \E shown \in GetRemediation(r) :
                  /\ shown.snapshot = None => tmp[r] # "own"
                  /\ shown.snapshot # None /\ shown.snapshot.apply # None =>
                       (shown.snapshot.apply = "ok" <=> status[r] = "applied")
             /\ \E row \in audit : row.run = r /\ row.kind = "applied"
             /\ \A row \in audit : row.run = r /\ row.kind = "applied" =>
                  (row.rc = "ok" <=> status[r] = "applied")
             /\ status[r] = "applied" => executed[r] > 0
  <2>1. Told(r) /\ Traced(r) /\ Answered(r) BY <1>1 DEF Inv, RunInv, Told
  <2>2. PICK line \in remlog : line.run = r /\ line.status = status[r]
    BY <1>1, <2>1 DEF Answered, Lines
  <2>3. line \in ListRemediations(ask[r].tenant, status[r])
    BY <1>1, <2>2 DEF ListRemediations
  <2>. DEFINE shown == [row |-> line, snapshot |-> IF Readable(r) THEN snapshot[r] ELSE None]
  <2>4. shown \in GetRemediation(r) BY <2>2 DEF GetRemediation
  <2>5. /\ shown.snapshot = None => tmp[r] # "own"
        /\ shown.snapshot # None /\ shown.snapshot.apply # None =>
             (shown.snapshot.apply = "ok" <=> status[r] = "applied")
    <3>1. \E row \in Rows(r) : row.kind = "applied" BY <2>1 DEF Traced
    <3>2. snapshot[r] # None /\ (snapshot[r] = Garbled => tmp[r] # "own")
      BY <1>1, <3>1 DEF Inv, RunInv, Saved, Held
    <3>3. ~Readable(r) => shown.snapshot = None /\ tmp[r] # "own" BY <3>2 DEF Readable
    <3>4. Readable(r) => /\ shown.snapshot = snapshot[r] /\ snapshot[r] # None
                         /\ snapshot[r].apply # None =>
                              (snapshot[r].apply = "ok" <=> status[r] = "applied")
      BY <1>1, <2>1 DEF Traced, Answered, Readable
    <3>. HIDE DEF shown
    <3>. QED BY <3>3, <3>4
  <2>6. \A row \in audit : row.run = r /\ row.kind = "applied" =>
          (row.rc = "ok" <=> status[r] = "applied")
    BY <1>1, <2>1 DEF Traced, Answered, Rows
  <2>7. \E row \in audit : row.run = r /\ row.kind = "applied" BY <2>1 DEF Traced, Rows
  <2>8. status[r] = "applied" => executed[r] > 0 BY <1>1, <2>1 DEF Traced, Answered
  <2>. HIDE DEF shown
  <2>. QED BY <2>2, <2>3, <2>4, <2>5, <2>6, <2>7, <2>8
<1>2. Inv => TrailAgrees BY <1>1 DEF TrailAgrees
<1>. QED BY <1>2, Invariant, PTL

\* A control whose every trace is a failed fix is graded fail.
THEOREM FailuresShow == Spec => []FailureShows
<1>1. ASSUME Inv, NEW c \in Control,
             NEW traced, traced = {r \in Run : Of(r, c) /\ snapshot[r] # None}, traced # {},
             \A r \in traced : status[r] = "failed" /\ rollback[r] = None
                               /\ (Readable(r) => ~snapshot[r].rolled_back)
      PROVE  Derived(c) = "fail"
  <2>1. ASSUME NEW r \in traced
        PROVE  /\ rc[r] # "ok" /\ (Readable(r) => SnapshotGrade(snapshot[r]) = "fail")
               /\ \A row \in Rows(r) : row.kind = "applied" => row.rc = rc[r]
               /\ \E row \in Rows(r) : row.kind = "applied"
    <3>1. r \in Run /\ status[r] = "failed" /\ (Readable(r) => ~snapshot[r].rolled_back)
      BY <1>1, <2>1
    <3>2. Told(r) /\ Traced(r) /\ Answered(r) BY <1>1, <3>1 DEF Inv, RunInv, Told
    <3>3. rc[r] \in RC /\ rc[r] # "ok" /\ pc[r] = "done" BY <3>1, <3>2 DEF Traced, Answered
    <3>4. Readable(r) => snapshot[r].apply = rc[r] /\ rc[r] # None
      BY <3>1, <3>2, <3>3, NoneIsApart DEF Traced
    <3>5. /\ \A row \in Rows(r) : row.kind = "applied" => row.rc = rc[r]
          /\ \E row \in Rows(r) : row.kind = "applied"
      BY <3>2 DEF Traced
    <3>. QED BY <3>3, <3>4, <3>5 DEF SnapshotGrade
  <2>2. "fail" \in Grades(c)
    <3>1. PICK r \in traced : TRUE BY <1>1
    <3>2. PICK row \in Rows(r) : row.kind = "applied" /\ row.rc # "ok" BY <2>1, <3>1
    <3>3. row \in {a \in audit : a.kind = "applied" /\ Of(a.run, c)}
      BY <1>1, <3>1, <3>2 DEF Rows
    <3>. QED BY <3>2, <3>3 DEF Grades
  <2>3. "ok" \notin Grades(c)
    <3>1. ASSUME NEW q \in Run, Readable(q), Of(q, c) PROVE SnapshotGrade(snapshot[q]) # "ok"
      <4>1. q \in traced BY <1>1, <3>1 DEF Readable
      <4>. QED BY <2>1, <3>1, <4>1
    <3>2. ASSUME NEW row \in audit, row.kind = "applied", Of(row.run, c) PROVE row.rc # "ok"
      <4>1. row.run \in Run BY <1>1 DEF Inv, TypeOK, AuditRow
      <4>2. row \in Rows(row.run) BY DEF Rows
      <4>3. snapshot[row.run] # None BY <1>1, <3>2, <4>1, <4>2 DEF Inv, RunInv, Saved
      <4>4. row.run \in traced BY <1>1, <3>2, <4>1, <4>3
      <4>. QED BY <2>1, <3>2, <4>2, <4>4
    <3>. QED BY <3>1, <3>2 DEF Grades
  <2>. QED BY <2>2, <2>3 DEF Derived
<1>2. Inv => FailureShows BY <1>1 DEF FailureShows
<1>. QED BY <1>2, Invariant, PTL
=============================================================================
