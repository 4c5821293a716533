----------------------------- MODULE AuditQueries -----------------------------
(***************************************************************************)
(* The read tools of services/soc-audit-mcp/server.py over the log that    *)
(* AuditLog describes, and the dashboard pages that show their answers.    *)
(* Every call reads the whole file anew.  A record is stamped before its   *)
(* writer opens the log and waits for the lock, so the lines need not be   *)
(* in the order of their timestamps; a client that pages through           *)
(* query_audit does so while records and annotations arrive.               *)
(***************************************************************************)
EXTENDS AuditLog, FiniteSets

CONSTANTS
  Meta,         \* per writer: the fields of its record
  Monitored,    \* the hosts that the manager lists
  DefaultTenant,
  Limit,        \* "limit": records of a page
  MaxLoad,      \* MAX_RECORDS_LOAD
  MaxClock      \* bound: the clock, in milliseconds

ASSUME QueryAssumption ==
  /\ DOMAIN Meta = Writer /\ {Limit, MaxLoad} \subseteq Nat \ {0} /\ MaxClock \in Nat
  /\ IsFiniteSet(Process) /\ None \notin Line /\ Monitored # None
  \* Records of one run and agent within a millisecond have the same address.
  /\ \A a \in Annotator : \A w \in Writer \ {Target[a]} :
       <<Meta[w].run, Meta[w].agent>> # <<Meta[Target[a]].run, Meta[Target[a]].agent>>

VARIABLES
  clock,
  stamp,     \* per writer: the ts of its record
  pager      \* a client of query_audit: where it is, what it has seen

readVars == <<clock, stamp, pager>>
qvars == <<vars, readVars>>

-----------------------------------------------------------------------------
(* The records: what the helpers of soc_audit and the remediation write.   *)

\* record_llm_call; decision and host are what the caller has put in extra.
LlmCall(run, agent, tenant, response, decision, host) ==
  [run |-> run, agent |-> agent,
   tenant |-> IF tenant = None THEN DefaultTenant ELSE tenant,
   outcome |-> IF response = "text" THEN "ok"
               ELSE IF response = "empty" THEN "no_text"
               ELSE IF response = "timeout" THEN "timeout" ELSE "error",
   decision |-> decision, host |-> host]

\* write_fix_verified and write_verification_failed: the run of the decision
\* becomes the record's tenant.
Verification(action, decision) ==
  [run |-> <<"verify", action>>, agent |-> "soc-safety-decider",
   tenant |-> IF decision = None THEN DefaultTenant ELSE decision,
   outcome |-> "ok", decision |-> None, host |-> None]

\* The row of remediate_control about a fix.
FixApplied(action, tenant, rc) ==
  [run |-> action, agent |-> "soc-stig-remediate",
   tenant |-> IF tenant = None THEN "unknown" ELSE tenant,
   outcome |-> IF rc = 0 THEN "ok" ELSE "error", decision |-> None, host |-> None]

(* The tools.  A query's answer is a set of places in the log: the numbers *)
(* of its lines.                                                           *)

RecordAt(i) == Meta[content[log][i].rec]
StampAt(i) == stamp[content[log][i].rec]

\* Seeded fault: the cap drops the record that would just fit.
LoadedShort == {i \in DOMAIN content[log] : i < MaxLoad}

\* _load_all: the first MaxLoad lines, the oldest.
Loaded == {i \in DOMAIN content[log] : i <= MaxLoad}

\* A query gives None for what it does not filter by.
All == [agent |-> None, tenant |-> None, since |-> None]

\* _match
Matches(i, q) ==
  /\ q.agent \in {None, RecordAt(i).agent}
  /\ q.tenant \in {None, RecordAt(i).tenant}
  /\ q.since # None => q.since <= StampAt(i) /\ StampAt(i) <= clock

Matched(q) == {i \in Loaded : Matches(i, q)}

\* matched.sort(key=ts, reverse=True) keeps the order of equal timestamps.
Precedes(j, i) == \/ StampAt(j) > StampAt(i)
                  \/ StampAt(j) = StampAt(i) /\ j < i

\* How many of the places come before i.
Rank(i, places) == Cardinality({j \in places : Precedes(j, i)})

\* matched[offset:offset + limit]
Page(places, offset) ==
  {i \in places : LET rank == Rank(i, places) IN offset <= rank /\ rank < offset + Limit}

\* _record_summary: of the annotations only their number.
Summary(line) == [rec |-> line.rec, notes |-> Cardinality(line.notes)]

QueryAudit(q, offset) ==
  LET matched == Matched(q)
  IN  [total |-> Cardinality(matched),
       hits |-> {Summary(content[log][i]) : i \in Page(matched, offset)}]

\* get_run: the records of the run; where it has none, those that name it as
\* the decision they carry out.
GetRun(run) ==
  LET own == {i \in Loaded : RecordAt(i).run = run}
      places == IF own # {} THEN own ELSE {i \in Loaded : RecordAt(i).decision = run}
  IN  {content[log][i] : i \in places}

\* get_record: the first line with these three fields.
GetRecord(ts, run, agent) ==
  LET at == {i \in Loaded : StampAt(i) = ts /\ RecordAt(i).run = run /\ RecordAt(i).agent = agent}
  IN  IF at = {} THEN None
      ELSE content[log][CHOOSE i \in at : \A j \in at : i <= j]

\* audit_stats: the counts by agent.
AuditStats(since) ==
  LET counted == Matched([All EXCEPT !.since = since])
  IN  [agent \in {RecordAt(i).agent : i \in counted} |->
         Cardinality({i \in counted : RecordAt(i).agent = agent})]

\* _fetch_monitored_hosts fails soft: C2's list, or nothing.
MonitoredHosts == {Monitored, {}}

\* query_stig_findings: the records that carry evidence about a host.
Findings(q, host) ==
  {i \in Matched(q) : RecordAt(i).host # None /\ host \in {None, RecordAt(i).host}}

\* Its by_host, with a zero for every host that the manager has listed.
ByHost(q, host, listed) ==
  LET found == Findings(q, host)
  IN  [h \in {RecordAt(i).host : i \in found} \cup listed |->
         Cardinality({i \in found : RecordAt(i).host = h})]

(* The dashboard's pages; their windows of 24 hours and more hold all.     *)

RunView(run) == GetRun(run)

TenantView(tenant) == QueryAudit([All EXCEPT !.tenant = tenant], 0)

\* The newest records of the agent, and how many of those shown are errors.
AgentView(agent) ==
  LET body == QueryAudit([All EXCEPT !.agent = agent], 0)
  IN  [total |-> body.total,
       errors |-> Cardinality({line \in body.hits : Meta[line.rec].outcome = "error"})]

Overview == AuditStats(None)

\* stig_overview counts the hosts without findings too.
StigOverview(listed) ==
  [total |-> Cardinality(Findings(All, None)),
   hosts |-> Cardinality(DOMAIN ByHost(All, None, listed))]

\* stig_host_view asks C2 for the status of the host; without an answer it
\* raises, and there is no page.
StigHostView(host, c2) ==
  IF c2 = None THEN None
  ELSE [total |-> Cardinality(Findings(All, host)),
        status |-> IF host \in c2 THEN "listed" ELSE "unknown"]

-----------------------------------------------------------------------------
QInit ==
  /\ Init
  /\ clock = 0 /\ stamp = [w \in Writer |-> 0]
  /\ pager = [offset |-> 0, seen |-> {}, due |-> {}, over |-> FALSE]

\* The record is built, stamped, and the log opened for it.
Build(w) ==
  /\ Open(w)
  /\ clock' \in {clock, clock + 1} /\ clock' <= MaxClock
  /\ stamp' = [stamp EXCEPT ![w] = clock']
  /\ UNCHANGED pager

\* The client asks for the next page until it has had "total" records; due is
\* what was in the log when it asked for the first.
NextPage ==
  /\ ~pager.over
  /\ LET body == QueryAudit(All, pager.offset)
         seen == pager.seen \cup {line.rec : line \in body.hits}
     IN  pager' = [offset |-> pager.offset + Limit,
                   seen |-> seen,
                   due |-> IF pager.offset = 0 THEN {content[log][i].rec : i \in Loaded}
                           ELSE pager.due,
                   over |-> pager.offset + Limit >= body.total]
  /\ UNCHANGED <<vars, clock, stamp>>

QNext ==
  \/ \E w \in Writer :
       \/ Build(w)
       \/ (Lock(w) \/ Write(w) \/ Close(w)) /\ UNCHANGED readVars
  \/ \E a \in Annotator :
       (Read(a) \/ OpenTmp(a) \/ Rewrite(a) \/ Replace(a)) /\ UNCHANGED readVars
  \/ \E p \in Process : Die(p) /\ UNCHANGED readVars
  \/ NextPage

QSpec == QInit /\ [][QNext /\ AnnotatesAlone']_qvars

-----------------------------------------------------------------------------
QTypeOK ==
  /\ TypeOK
  /\ clock \in 0..MaxClock /\ stamp \in [Writer -> 0..MaxClock]
  /\ pager \in [offset: Nat, seen: SUBSET Writer, due: SUBSET Writer, over: BOOLEAN]

\* The calls that have written and returned.
Landed == {w \in Writer : pc[w] = "done"}

\* Past MAX_RECORDS_LOAD lines the tools do not see the newest.
Overlong == Len(content[log]) > MaxLoad

\* "the record landed before the next pipeline step reads it back": what a
\* call has written and returned, every tool and page shows from then on, once:
\* on one page of query_audit, in its run and (where the decision has no records
\* of its own) under its decision, at its address, in the counts, and among the
\* findings of its host, whether or not the manager answers.
ReadBack ==
  Overlong \/ \A w \in Landed :
    LET rec == Meta[w]
        q == [agent |-> rec.agent, tenant |-> rec.tenant, since |-> stamp[w]]
        ofAgent == Cardinality({v \in Landed : Meta[v].agent = rec.agent})
        ofTenant == Cardinality({v \in Landed : Meta[v].tenant = rec.tenant})
        ofHost == Cardinality({v \in Landed : Meta[v].host = rec.host})
    IN  /\ Cardinality({k \in 0..Cardinality(Writer) :
                          \E line \in QueryAudit(q, k * Limit).hits : line.rec = w}) = 1
        /\ \E line \in RunView(rec.run) : line.rec = w
        /\ rec.decision # None => \E line \in RunView(rec.decision) :
             line.rec = w \/ Meta[line.rec].run = rec.decision
        /\ GetRecord(stamp[w], rec.run, rec.agent) # None
        /\ Overview[rec.agent] >= ofAgent /\ AgentView(rec.agent).total >= ofAgent
        /\ TenantView(rec.tenant).total >= ofTenant
        /\ rec.host # None =>
             /\ StigHostView(rec.host, Monitored).total >= ofHost
             /\ \A listed \in MonitoredHosts :
                  /\ StigOverview(listed).total >= ofHost
                  /\ ByHost(All, None, listed)[rec.host] >= ofHost

\* An annotation that was answered ok stays with its record: the record is
\* found at its address with it, and query_audit counts it.
NotesShown ==
  Overlong \/ \A a \in Annotator : pc[a] = "done" =>
    LET w == Target[a]
        line == GetRecord(stamp[w], Meta[w].run, Meta[w].agent)
        kept == {b \in Annotator : Target[b] = w /\ pc[b] = "done"}
    IN  /\ line # None
        /\ kept \subseteq line.notes
        /\ \A k \in 0..Cardinality(Writer) : \A hit \in QueryAudit(All, k * Limit).hits :
             hit.rec = w => hit.notes >= Cardinality(kept)

\* A client that pages through query_audit to the end has seen every record
\* that was in the log when it began, whatever arrives, is annotated or lands
\* behind its timestamp meanwhile.
PagerSeesAll == pager.over => pager.due \subseteq pager.seen
=============================================================================
