----------------------------- MODULE MemoryIndex -----------------------------
(***************************************************************************)
(* services/soc-memory-mcp/server.py: _MemoryIndex, a capped index per     *)
(* tenant in memory and an append-only JSONL file behind it.  memory_add   *)
(* runs under the index's lock; the append is not atomic, so a process     *)
(* that dies in it (or a full disk) can leave a partial last line, which   *)
(* the next append runs into.  load skips the lines it cannot parse.       *)
(* memory_search ranks a copy of the tenant's index by weight and decay.   *)
(* A timestamp is any string of the caller's: the index sorts by the       *)
(* string, a search takes the time that it reads in it, if it can.         *)
(***************************************************************************)
EXTENDS Integers, Sequences, FiniteSets

CONSTANTS
  Tenant,
  Incident,     \* incident ids
  Alert,        \* per incident: the rule, srcip and agent of its records
  Stored(_),    \* str(int(rule)): how a record's rule reads
  Absent,
  Now,          \* the time of the searches
  Form,         \* how fromisoformat reads a ts: "aware", "naive" or "garbled"
  Instant,      \* the time an aware one stands for
  Freshness,    \* the decay at a search, by the time of the record: grows with it
  TopK,         \* "top_k"
  MaxRecords,   \* max_records, the cap of a tenant's index
  MaxTs,        \* bound: timestamps, in the order of the strings
  MaxAdds       \* bound: memory_add calls

ASSUME MemoryAssumption ==
  /\ MaxRecords \in Nat \ {0} /\ MaxTs \in Nat \ {0} /\ MaxAdds \in Nat
  /\ Now \in Nat /\ TopK \in Nat
  /\ Form \in [1..MaxTs -> {"aware", "naive", "garbled"}] /\ Instant \in [1..MaxTs -> Nat]
  /\ Freshness \in [0..Now -> Nat \ {0}]
  /\ \A s, u \in 0..Now : s < u => Freshness[s] < Freshness[u]

Ts == 1..MaxTs

\* "rev" tells the versions of one incident's record apart.
Record == [tenant: Tenant, incident: Incident, ts: Ts, rev: 1..MaxAdds]

VARIABLES
  index,     \* _by_tenant
  file,      \* the lines of the JSONL file that parse, in order
  partial,   \* the file ends in a partial line
  ingested,  \* how many of the file's lines are in the index
  adds,      \* history: memory_add calls so far
  clean      \* history: every line was read, and every add since has its line

memoryVars == <<index, file, partial, ingested, adds, clean>>

-----------------------------------------------------------------------------
Contents(bucket) == {bucket[k] : k \in DOMAIN bucket}

Positions(bucket, i) == {k \in DOMAIN bucket : bucket[k].incident = i}

\* bucket.sort(key=ts, reverse=True) keeps the order of equal timestamps.
Newer(bucket, j, k) == \/ bucket[j].ts > bucket[k].ts
                       \/ bucket[j].ts = bucket[k].ts /\ j < k

\* The place of the record at k in the sorted list, from 1.
SortedPlace(bucket, k) == 1 + Cardinality({j \in DOMAIN bucket : Newer(bucket, j, k)})

NewestFirst(bucket) ==
  [n \in DOMAIN bucket |-> bucket[CHOOSE k \in DOMAIN bucket : SortedPlace(bucket, k) = n]]

\* Seeded fault: the list is cut without being sorted.
BoundedUnsorted(bucket) ==
  IF Len(bucket) > MaxRecords THEN SubSeq(bucket, 1, MaxRecords) ELSE bucket

\* "Bound the per-tenant list".
Bounded(bucket) ==
  IF Len(bucket) > MaxRecords
    THEN SubSeq(NewestFirst(bucket), 1, MaxRecords)
    ELSE bucket

\* Seeded fault: an incident that is already there is appended all the same.
IngestAppends(bucket, r) == Bounded(Append(bucket, r))

\* _ingest_locked: replace in place, else append and cut to the cap.
Ingest(bucket, r) ==
  LET at == Positions(bucket, r.incident)
  IN  IF at # {} THEN [bucket EXCEPT ![CHOOSE k \in at : \A j \in at : k <= j] = r]
                 ELSE Bounded(Append(bucket, r))

\* What memory_search looks for: the fields of an alert (_extract_alert_fields)
\* or an incident.
Lookup ==
  {[incident |-> Absent, rule |-> Alert[i].rule, srcip |-> Alert[i].srcip, agent |-> Alert[i].agent] :
     i \in Incident}
  \cup {[incident |-> i, rule |-> Absent, srcip |-> Absent, agent |-> Absent] : i \in Incident}

\* The weights of what a record shares with the query.
Weight(r, q) ==
  LET of == Alert[r.incident]
  IN    (IF q.rule # Absent /\ Stored(of.rule) = q.rule THEN 3 ELSE 0)
      + (IF q.srcip # Absent /\ of.srcip = q.srcip THEN 2 ELSE 0)
      + (IF q.agent # Absent /\ of.agent = q.agent THEN 1 ELSE 0)
      + (IF r.incident = q.incident THEN 5 ELSE 0)

\* The weight, decayed by age: one from the future has age 0, and one whose ts
\* cannot be read is 1e9 days old, which leaves nothing of its weight.
Score(r, q) ==
  IF Form[r.ts] = "garbled" THEN 0
  ELSE Weight(r, q) * Freshness[IF Instant[r.ts] < Now THEN Instant[r.ts] ELSE Now]

\* search sorts by score, best first, and equal scores by timestamp, oldest first.
Better(bucket, q, j, k) ==
  LET sj == Score(bucket[j], q)
      sk == Score(bucket[k], q)
  IN  \/ sj > sk
      \/ sj = sk /\ bucket[j].ts < bucket[k].ts
      \/ sj = sk /\ bucket[j].ts = bucket[k].ts /\ j < k

Scored(bucket, q) == {k \in DOMAIN bucket : Weight(bucket[k], q) > 0}

ScoredPlace(bucket, q, k) == 1 + Cardinality({j \in Scored(bucket, q) : Better(bucket, q, j, k)})

\* The age of a record whose time has no offset: TypeError, answered 500.
Raises(bucket, q) == \E k \in Scored(bucket, q) : Form[bucket[k].ts] = "naive"

Best(bucket, q, topK) ==
  LET scored == Scored(bucket, q)
      count == Cardinality(scored)
  IN  [n \in 1..(IF topK < count THEN topK ELSE count) |->
         bucket[CHOOSE k \in scored : ScoredPlace(bucket, q, k) = n]]

Search(t, q, topK) ==
  IF Raises(index[t], q) THEN [ok |-> FALSE, matches |-> <<>>]
                         ELSE [ok |-> TRUE, matches |-> Best(index[t], q, topK)]

-----------------------------------------------------------------------------
MemoryInit ==
  /\ index = [t \in Tenant |-> <<>>]
  /\ file = <<>> /\ partial = FALSE /\ ingested = 0
  /\ adds = 0 /\ clean = TRUE

\* serve listens once load has returned.
Serving == ingested = Len(file)

Counted == adds < MaxAdds /\ adds' = adds + 1

\* The record a call builds; ts is the caller's, or the server's clock, which
\* several calls in one millisecond read the same and which may be set back.
NewRecord(t, i, ts) == [tenant |-> t, incident |-> i, ts |-> ts, rev |-> adds + 1]

\* The index first, then the file: the line is complete, but one that follows
\* a partial line is swallowed by it.
Add(t, i, ts) ==
  LET r == NewRecord(t, i, ts)
  IN  /\ Serving /\ Counted
      /\ index' = [index EXCEPT ![t] = Ingest(@, r)]
      /\ file' = IF partial THEN file ELSE Append(file, r)
      /\ ingested' = Len(file')
      /\ partial' = FALSE
      /\ clean' = (clean /\ ~partial)

\* The append raises OSError, part of the line written or none: reported on
\* stderr, and the call still answers ok.
AddUnwritten(t, i, ts) ==
  /\ Serving /\ Counted
  /\ index' = [index EXCEPT ![t] = Ingest(@, NewRecord(t, i, ts))]
  /\ partial' \in {partial, TRUE}
  /\ clean' = FALSE
  /\ UNCHANGED <<file, ingested>>

\* A new process: its index is empty.
Fresh ==
  /\ index' = [t \in Tenant |-> <<>>] /\ ingested' = 0
  /\ clean' = TRUE

Restart == Fresh /\ UNCHANGED <<file, partial, adds>>

\* The process dies inside the append: a partial line, or the whole one.  The
\* caller has had no answer.
Crash(t, i, ts) ==
  LET r == NewRecord(t, i, ts)
  IN  /\ Serving /\ Counted
      /\ \/ partial' = TRUE /\ UNCHANGED file
         \/ partial' = FALSE /\ file' = IF partial THEN file ELSE Append(file, r)
      /\ Fresh

\* load ingests the next line.
LoadLine ==
  /\ ~Serving
  /\ LET r == file[ingested + 1]
     IN  index' = [index EXCEPT ![r.tenant] = Ingest(@, r)]
  /\ ingested' = ingested + 1
  /\ UNCHANGED <<file, partial, adds, clean>>

\* The read raises OSError: reported on stderr, and the server starts with what
\* it has.
LoadFails ==
  /\ ~Serving
  /\ ingested' = Len(file) /\ clean' = FALSE
  /\ UNCHANGED <<index, file, partial, adds>>

MemoryNext ==
  \/ \E t \in Tenant, i \in Incident, ts \in Ts :
       Add(t, i, ts) \/ AddUnwritten(t, i, ts) \/ Crash(t, i, ts)
  \/ Restart \/ LoadLine \/ LoadFails

MemorySpec == MemoryInit /\ [][MemoryNext]_memoryVars

-----------------------------------------------------------------------------
\* The shapes of the state; no tenant's index exceeds the cap.
MemoryTypeOK ==
  /\ index \in [Tenant -> Seq(Record)]
  /\ \A t \in Tenant : Len(index[t]) <= MaxRecords
  /\ file \in Seq(Record) /\ ingested \in 0..Len(file)
  /\ partial \in BOOLEAN /\ clean \in BOOLEAN
  /\ adds \in 0..MaxAdds

\* The last version of each of the tenant's incidents in the file.
Latest(t) ==
  {file[k] : k \in {j \in DOMAIN file :
     /\ file[j].tenant = t
     /\ \A m \in DOMAIN file : file[m].tenant = t /\ file[m].incident = file[j].incident
                                 => m <= j}}

\* "Idempotent on (incident_id, tenant_id)", "the in-memory index reflects the
\* latest": unless an append or a load has failed, a search gives the last version
\* of an incident only, and it is the last version that may break it: a record of
\* the tenant that matches and whose time has no offset.  Else a search gives the
\* tenant's own records, of an incident one version, finds what is in the index,
\* puts the newer of two that match alike first, as long as it is not from the
\* future, and one whose time cannot be read last.
LastWordFound ==
  Serving => \A t \in Tenant, q \in Lookup :
    LET answer == Search(t, q, TopK)
        hits == answer.matches
    IN  /\ ~answer.ok /\ clean =>
             \E r \in Latest(t) : Weight(r, q) > 0 /\ Form[r.ts] = "naive"
        /\ \A m \in DOMAIN hits :
             /\ hits[m].tenant = t
             /\ clean => hits[m] \in Latest(t)
             /\ \A n \in 1..(m - 1) :
                  /\ hits[n].incident # hits[m].incident
                  /\ Form[hits[n].ts] = "garbled" => Form[hits[m].ts] = "garbled"
                  /\ /\ Weight(hits[n], q) = Weight(hits[m], q)
                     /\ Form[hits[m].ts] # "garbled"
                     /\ Instant[hits[n].ts] < Instant[hits[m].ts]
                     => Now <= Instant[hits[n].ts]
        /\ \A r \in Contents(index[t]) :
             answer.ok /\ Weight(r, q) > 0 => Len(hits) = TopK \/ r \in Contents(hits)

Chronological(t) ==
  \A j, k \in {m \in DOMAIN file : file[m].tenant = t} :
    j < k => file[j].ts <= file[k].ts

\* "keep the most-recent N": where the timestamps of a tenant's calls, as strings,
\* never go back and no append or load has failed, the index, grown call by call or
\* loaded from the file, holds current versions only, as many as fit, and
\* nothing newer is left out.
MostRecentKept ==
  Serving /\ clean => \A t \in {u \in Tenant : Chronological(u)} :
    LET kept == Contents(index[t])
        current == Cardinality(Latest(t))
    IN  /\ kept \subseteq Latest(t)
        /\ Cardinality(kept) = IF current < MaxRecords THEN current ELSE MaxRecords
        /\ \A r \in kept, q \in Latest(t) \ kept : q.ts <= r.ts
=============================================================================
