------------------------------ MODULE AuditLog ------------------------------
(***************************************************************************)
(* ~/.openclaw/audit_log.jsonl and the processes that change it: record of *)
(* lib/soc_audit.py (under flock), _audit_record of soc_stig_remediate.py  *)
(* (no lock), and annotate_run of services/soc-audit-mcp/server.py, which  *)
(* rewrites the file through <path>.annotate.tmp.  A writer's file handle  *)
(* and its lock belong to the inode it opened, not to the path.  A line is *)
(* written whole; any process may be killed between two steps.             *)
(***************************************************************************)
EXTENDS Integers, Sequences

CONSTANTS
  Locking,     \* calls of soc_audit.record
  Bare,        \* calls of _audit_record
  Annotator,   \* calls of annotate_run
  Target,      \* per annotation: the writer of the record it is about
  First,       \* the inode of the log at the start
  None

Writer == Locking \cup Bare
Process == Writer \cup Annotator
Inode == {First} \cup Annotator      \* a new temp file is its creator's inode
Line == [rec: Writer, notes: SUBSET Annotator]

ASSUME ConstantsAssumption ==
  /\ Locking \cap Bare = {} /\ Writer \cap Annotator = {}
  /\ First \notin Annotator /\ None \notin Process \cup Inode
  /\ Target \in [Annotator -> Writer]

VARIABLES
  content,   \* inode -> its lines
  log,       \* the inode at the path of the log
  tmp,       \* the inode at the path of the temp file, or None
  holder,    \* inode -> the process that holds its flock
  pc,
  fd,        \* per process: the inode it has open
  copy       \* per annotation: the lines it has read

vars == <<content, log, tmp, holder, pc, fd, copy>>

Goto(p, where) == pc' = [pc EXCEPT ![p] = where]

Ended == {"done", "refused", "failed", "died"}
Active(p) == pc[p] \notin Ended \cup {"idle"}

-----------------------------------------------------------------------------
Init ==
  /\ content = [i \in Inode |-> <<>>]
  /\ log = First /\ tmp = None
  /\ holder = [i \in Inode |-> None]
  /\ pc = [p \in Process |-> "idle"]
  /\ fd = [p \in Process |-> None]
  /\ copy = [a \in Annotator |-> <<>>]

\* open(path, "a")
Open(w) ==
  /\ pc[w] = "idle"
  /\ fd' = [fd EXCEPT ![w] = log]
  /\ Goto(w, IF w \in Locking THEN "locking" ELSE "writing")
  /\ UNCHANGED <<content, log, tmp, holder, copy>>

\* flock(f, LOCK_EX)
Lock(w) ==
  /\ pc[w] = "locking" /\ holder[fd[w]] = None
  /\ holder' = [holder EXCEPT ![fd[w]] = w]
  /\ Goto(w, "writing")
  /\ UNCHANGED <<content, log, tmp, fd, copy>>

\* The line goes to the end of the file that was opened.
Write(w) ==
  /\ pc[w] = "writing"
  /\ content' = [content EXCEPT ![fd[w]] = Append(@, [rec |-> w, notes |-> {}])]
  /\ Goto(w, "closing")
  /\ UNCHANGED <<log, tmp, holder, fd, copy>>

Released(p) == [i \in Inode |-> IF holder[i] = p THEN None ELSE holder[i]]

\* flock(f, LOCK_UN), close, return.
Close(w) ==
  /\ pc[w] = "closing"
  /\ holder' = Released(w)
  /\ Goto(w, "done")
  /\ UNCHANGED <<content, log, tmp, fd, copy>>

\* annotate_run reads all lines and looks for its record.
Read(a) ==
  /\ pc[a] = "idle"
  /\ copy' = [copy EXCEPT ![a] = content[log]]
  /\ Goto(a, IF \E i \in DOMAIN content[log] : content[log][i].rec = Target[a]
               THEN "opening" ELSE "refused")
  /\ UNCHANGED <<content, log, tmp, holder, fd>>

\* open(tmp_path, "w"): a new file, or the one another call has left or uses,
\* emptied.
OpenTmp(a) ==
  LET inode == IF tmp = None THEN a ELSE tmp
  IN  /\ pc[a] = "opening"
      /\ tmp' = inode
      /\ fd' = [fd EXCEPT ![a] = inode]
      /\ content' = [content EXCEPT ![inode] = <<>>]
      /\ Goto(a, "rewriting")
      /\ UNCHANGED <<log, holder, copy>>

\* Seeded fault: the annotated record is appended anew.
AnnotatedLast(lines, a) ==
  LET old == {i \in DOMAIN lines : lines[i].rec = Target[a]}
      rest == SelectSeq(lines, LAMBDA line : line.rec # Target[a])
  IN  rest \o [i \in 1..1 |-> [lines[CHOOSE j \in old : TRUE] EXCEPT !.notes = @ \cup {a}]]

\* Seeded fault: the list of annotations is replaced.
AnnotatedAnew(lines, a) ==
  [i \in DOMAIN lines |->
     IF lines[i].rec = Target[a] THEN [lines[i] EXCEPT !.notes = {a}] ELSE lines[i]]

\* The lines with the annotation in the extra of its record.
Annotated(lines, a) ==
  [i \in DOMAIN lines |->
     IF lines[i].rec = Target[a] THEN [lines[i] EXCEPT !.notes = @ \cup {a}] ELSE lines[i]]

\* What writing new from the start of a file that holds old gives.
Overlay(new, old) == new \o SubSeq(old, Len(new) + 1, Len(old))

\* The lines are written to the temp file, flushed and fsynced.
Rewrite(a) ==
  /\ pc[a] = "rewriting"
  /\ content' = [content EXCEPT ![fd[a]] = Overlay(Annotated(copy[a], a), @)]
  /\ Goto(a, "replacing")
  /\ UNCHANGED <<log, tmp, holder, fd, copy>>

\* os.replace(tmp_path, path); where another call has moved the temp file away
\* it raises.
Replace(a) ==
  /\ pc[a] = "replacing"
  /\ IF tmp = None THEN Goto(a, "failed") /\ UNCHANGED <<log, tmp>>
     ELSE Goto(a, "done") /\ log' = tmp /\ tmp' = None
  /\ UNCHANGED <<content, holder, fd, copy>>

\* A process is killed; the kernel lets go of its lock.
Die(p) ==
  /\ Active(p)
  /\ holder' = Released(p)
  /\ Goto(p, "died")
  /\ UNCHANGED <<content, log, tmp, fd, copy>>

\* Nothing in the code keeps an annotation apart from other calls; what the
\* files promise, they promise while every annotation runs alone.
AnnotatesAlone == \A a \in Annotator : Active(a) => \A p \in Process \ {a} : ~Active(p)

-----------------------------------------------------------------------------
TypeOK ==
  /\ content \in [Inode -> Seq(Line)]
  /\ log \in Inode /\ tmp \in Inode \cup {None}
  /\ holder \in [Inode -> Locking \cup {None}]
  /\ \A i \in Inode : holder[i] # None =>
       pc[holder[i]] \in {"writing", "closing"} /\ fd[holder[i]] = i
  /\ pc \in [Process -> Ended \cup {"idle", "locking", "writing", "closing",
                                    "opening", "rewriting", "replacing"}]
  /\ fd \in [Process -> Inode \cup {None}]
  /\ copy \in [Annotator -> Seq(Line)]
=============================================================================
