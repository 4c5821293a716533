----------------------------- MODULE JournalProofs -----------------------------
(***************************************************************************)
(* The two append-only files, the audit log and the memory, and what the   *)
(* tools that read them show, for any calls, clock, caps and page sizes.   *)
(*                                                                         *)
(* Of the audit log, while every annotation runs alone, the inductive      *)
(* invariant relates the file to the calls: a call that has written has    *)
(* one line, and an annotation that has been answered is on the line of    *)
(* its record.  A client that pages is never overtaken: a line that is     *)
(* added can only push the others further back.                            *)
(*                                                                         *)
(* Of the memory it relates the index to the lines that the process has    *)
(* ingested, and so covers loading and serving alike.                      *)
(***************************************************************************)
EXTENDS AuditQueries, MemoryIndex, FiniteSetTheorems, SequenceTheorems, WellFoundedInduction, TLAPS

-----------------------------------------------------------------------------
(* The memory: sorted lists.                                               *)

\* In a finite set with a strict total order, the place of an element (one more
\* than how many come before it) numbers the elements in that order.
LEMMA PlacesNumber ==
  ASSUME NEW S, IsFiniteSet(S), NEW R, NEW place \in [S -> Nat],
         \A i \in S : place[i] = 1 + Cardinality({j \in S : <<j, i>> \in R}),
         \A i \in S : <<i, i>> \notin R,
         \A i, j \in S : i = j \/ <<i, j>> \in R \/ <<j, i>> \in R,
         \A i, j, k \in S : <<i, j>> \in R /\ <<j, k>> \in R => <<i, k>> \in R
  PROVE  /\ Cardinality(S) \in Nat
         /\ \A i \in S : place[i] \in 1..Cardinality(S)
         /\ \A i, j \in S : place[i] < place[j] <=> <<i, j>> \in R
         /\ \A n \in 1..Cardinality(S) : \E i \in S : place[i] = n
<1>. DEFINE Before(i) == {j \in S : <<j, i>> \in R}
<1>0. Cardinality(S) \in Nat BY FS_CardinalityType
<1>1. ASSUME NEW i \in S PROVE IsFiniteSet(Before(i)) /\ Cardinality(Before(i)) \in Nat
  <2>1. Before(i) \in SUBSET S OBVIOUS
  <2>. HIDE DEF Before
  <2>. QED BY <2>1, FS_Subset, FS_CardinalityType
<1>2. ASSUME NEW i \in S PROVE place[i] \in 1..Cardinality(S)
  <2>1. Before(i) \in SUBSET S /\ Before(i) # S OBVIOUS
  <2>2. place[i] = 1 + Cardinality(Before(i)) OBVIOUS
  <2>. HIDE DEF Before
  <2>3. Cardinality(Before(i)) <= Cardinality(S) /\ Cardinality(Before(i)) # Cardinality(S)
    BY <2>1, FS_Subset
  <2>4. Cardinality(Before(i)) \in Nat BY <1>1
  <2>. QED BY <1>0, <2>2, <2>3, <2>4
<1>3. ASSUME NEW i \in S, NEW j \in S, <<i, j>> \in R PROVE place[i] < place[j]
  <2>1. Before(i) \in SUBSET Before(j) /\ i \in Before(j) /\ i \notin Before(i) BY <1>3
  <2>2. place[i] = 1 + Cardinality(Before(i)) /\ place[j] = 1 + Cardinality(Before(j)) OBVIOUS
  <2>. HIDE DEF Before
  <2>3. Cardinality(Before(i)) <= Cardinality(Before(j)) /\ Cardinality(Before(i)) # Cardinality(Before(j))
    BY <1>1, <2>1, FS_Subset
  <2>4. Cardinality(Before(i)) \in Nat /\ Cardinality(Before(j)) \in Nat BY <1>1
  <2>. QED BY <2>2, <2>3, <2>4
<1>4. ASSUME NEW i \in S, NEW j \in S, place[i] < place[j] PROVE <<i, j>> \in R
  <2>1. i # j /\ ~(place[j] < place[i]) BY <1>4
  <2>. QED BY <1>3, <2>1
<1>5. \A i, j \in S : place[i] = place[j] => i = j
  <2> SUFFICES ASSUME NEW i \in S, NEW j \in S, place[i] = place[j], i # j PROVE FALSE
    OBVIOUS
  <2>1. place[i] < place[j] \/ place[j] < place[i] BY <1>3
  <2>. QED BY <2>1
<1>6. ASSUME NEW n \in 1..Cardinality(S) PROVE \E i \in S : place[i] = n
  <2>1. place \in [S -> 1..Cardinality(S)] BY <1>2
  <2>2. place \in Injection(S, 1..Cardinality(S)) BY <1>5, <2>1 DEF Injection, IsInjective
  <2>3. IsFiniteSet(1..Cardinality(S)) /\ Cardinality(1..Cardinality(S)) = Cardinality(S)
    <3>1. 1 \in Int /\ Cardinality(S) \in Int BY <1>0
    <3>2. Cardinality(1..Cardinality(S)) = IF 1 > Cardinality(S) THEN 0 ELSE Cardinality(S) - 1 + 1
      BY <3>1, FS_Interval
    <3>. QED BY <1>0, <3>1, <3>2, FS_Interval
  <2>4. place \in Surjection(S, 1..Cardinality(S)) BY <2>2, <2>3, FS_Injection
  <2>. QED BY <2>4 DEF Surjection
<1>. QED BY <1>0, <1>2, <1>3, <1>4, <1>6

LEMMA RecordsOf ==
  ASSUME NEW b \in Seq(Record)
  PROVE  /\ Len(b) \in Nat /\ DOMAIN b = 1..Len(b)
         /\ IsFiniteSet(DOMAIN b) /\ Cardinality(DOMAIN b) = Len(b)
         /\ \A k \in DOMAIN b : b[k] \in Record /\ b[k].ts \in Int /\ k \in Int
<1>1. Len(b) \in Nat /\ DOMAIN b = 1..Len(b) BY LenProperties
<1>2. 1 \in Int /\ Len(b) \in Int BY <1>1
<1>3. IsFiniteSet(1..Len(b)) /\ Cardinality(1..Len(b)) = IF 1 > Len(b) THEN 0 ELSE Len(b) - 1 + 1
  BY <1>2, FS_Interval
<1>4. Cardinality(1..Len(b)) = Len(b) BY <1>1, <1>3
<1>5. \A k \in DOMAIN b : b[k] \in Record BY <1>1, ElementOfSeq
<1>. QED BY <1>1, <1>3, <1>4, <1>5 DEF Record, Ts

\* What sort makes of a list.
LEMMA Sorted ==
  ASSUME NEW b \in Seq(Record)
  PROVE  LET s == NewestFirst(b)
         IN  /\ s \in Seq(Record) /\ Len(s) = Len(b)
             /\ \A n \in 1..Len(b) : \E k \in DOMAIN b : s[n] = b[k] /\ SortedPlace(b, k) = n
             /\ \A k \in DOMAIN b : /\ SortedPlace(b, k) \in 1..Len(b) /\ s[SortedPlace(b, k)] = b[k]
             /\ \A j, k \in DOMAIN b : SortedPlace(b, j) < SortedPlace(b, k) <=> Newer(b, j, k)
<1>. DEFINE S == DOMAIN b
            R == {p \in S \X S : Newer(b, p[1], p[2])}
            place == [k \in S |-> SortedPlace(b, k)]
            s == NewestFirst(b)
<1>1. Len(b) \in Nat /\ S = 1..Len(b) /\ IsFiniteSet(S) /\ Cardinality(S) = Len(b) BY RecordsOf
<1>2. \A j, k \in S : <<j, k>> \in R <=> Newer(b, j, k) OBVIOUS
<1>3. ASSUME NEW k \in S PROVE place[k] = 1 + Cardinality({j \in S : <<j, k>> \in R})
  <2>1. {j \in S : <<j, k>> \in R} = {j \in S : Newer(b, j, k)} BY <1>2
  <2>. QED BY <2>1 DEF SortedPlace
<1>4. place \in [S -> Nat]
  <2> SUFFICES ASSUME NEW k \in S PROVE Cardinality({j \in S : Newer(b, j, k)}) \in Nat
    BY DEF SortedPlace
  <2>1. {j \in S : Newer(b, j, k)} \in SUBSET S OBVIOUS
  <2>. QED BY <1>1, <2>1, FS_Subset, FS_CardinalityType
<1>5. /\ \A i \in S : <<i, i>> \notin R
      /\ \A i, j \in S : i = j \/ <<i, j>> \in R \/ <<j, i>> \in R
      /\ \A i, j, k \in S : <<i, j>> \in R /\ <<j, k>> \in R => <<i, k>> \in R
  <2>1. \A k \in S : b[k].ts \in Int /\ k \in Int BY RecordsOf
  <2>. HIDE DEF S, R
  <2>2. \A i \in S : ~Newer(b, i, i) BY <2>1 DEF Newer
  <2>3. \A i, j \in S : i = j \/ Newer(b, i, j) \/ Newer(b, j, i) BY <2>1 DEF Newer
  <2>4. \A i, j, k \in S : Newer(b, i, j) /\ Newer(b, j, k) => Newer(b, i, k) BY <2>1 DEF Newer
  <2>. QED BY <1>2, <2>2, <2>3, <2>4
<1>6. /\ \A i \in S : place[i] \in 1..Cardinality(S)
      /\ \A i, j \in S : place[i] < place[j] <=> <<i, j>> \in R
      /\ \A n \in 1..Cardinality(S) : \E i \in S : place[i] = n
  <2>. HIDE DEF S, R, place
  <2>1. \A i \in S : place[i] = 1 + Cardinality({j \in S : <<j, i>> \in R}) BY <1>3
  <2>2. IsFiniteSet(S) BY <1>1
  <2>. QED BY <1>4, <1>5, <2>1, <2>2, PlacesNumber
<1>7. \A i, j \in S : place[i] = place[j] => i = j
  <2>. HIDE DEF S, R, place
  <2>1. \A i \in S : place[i] \in Nat BY <1>4
  <2>. QED BY <1>5, <1>6, <2>1
<1>8. ASSUME NEW n \in S PROVE \E k \in S : place[k] = n /\ s[n] = b[k]
  <2>1. \E k \in S : place[k] = n BY <1>1, <1>6
  <2>2. s[n] = b[CHOOSE k \in S : SortedPlace(b, k) = n] BY DEF NewestFirst
  <2>. QED BY <2>1, <2>2
<1>9. s \in Seq(Record) /\ Len(s) = Len(b)
  <2>1. s = [n \in S |-> s[n]] BY DEF NewestFirst
  <2>. HIDE DEF s
  <2>2. \A n \in S : s[n] \in Record BY <1>8, RecordsOf
  <2>3. s \in [1..Len(b) -> Record] BY <1>1, <2>1, <2>2
  <2>a. Len(b) \in Nat BY <1>1
  <2>4. s \in Seq(Record) BY <2>3, <2>a, SeqDef
  <2>5. Len(s) \in Nat /\ 1..Len(s) = 1..Len(b) BY <2>3, <2>4, LenProperties
  <2>. QED BY <1>1, <2>4, <2>5
<1>10. \A k \in S : SortedPlace(b, k) = place[k] OBVIOUS
<1>. HIDE DEF place, s, R, S
<1>11. ASSUME NEW k \in S PROVE place[k] \in 1..Len(b) /\ s[place[k]] = b[k]
  <2>1. place[k] \in S BY <1>1, <1>6
  <2>2. PICK j \in S : place[j] = place[k] /\ s[place[k]] = b[j] BY <1>8, <2>1
  <2>. QED BY <1>1, <1>7, <2>1, <2>2
<1>12. ASSUME NEW n \in 1..Len(b) PROVE \E k \in S : s[n] = b[k] /\ SortedPlace(b, k) = n
  <2>1. PICK k \in S : place[k] = n /\ s[n] = b[k] BY <1>1, <1>8
  <2>2. SortedPlace(b, k) = place[k] BY <1>10
  <2>. QED BY <2>1, <2>2
<1>13. \A j, k \in S : SortedPlace(b, j) < SortedPlace(b, k) <=> Newer(b, j, k)
  <2> TAKE j, k \in S
  <2>1. SortedPlace(b, j) = place[j] /\ SortedPlace(b, k) = place[k] BY <1>10
  <2>2. <<j, k>> \in R <=> Newer(b, j, k) BY <1>2
  <2>3. place[j] < place[k] <=> <<j, k>> \in R BY <1>6
  <2>. QED BY <2>1, <2>2, <2>3
<1>14. \A k \in S : SortedPlace(b, k) \in 1..Len(b) /\ s[SortedPlace(b, k)] = b[k]
  BY <1>10, <1>11
<1>. QED BY <1>9, <1>12, <1>13, <1>14 DEF S, s

-----------------------------------------------------------------------------
(* The memory: its invariant.                                              *)

OneEach(b) == \A j, k \in DOMAIN b : b[j].incident = b[k].incident => j = k

\* What load, or the calls, have ingested of tenant t: the lines, the last line
\* of each incident, and whether the timestamps go up.
Of(lines, t, n) == {k \in 1..n : lines[k].tenant = t}
LatestIn(lines, t, n) ==
  {lines[k] : k \in {j \in Of(lines, t, n) :
     \A m \in Of(lines, t, n) : lines[m].incident = lines[j].incident => m <= j}}
InOrder(lines, t, n) == \A j, k \in Of(lines, t, n) : j < k => lines[j].ts <= lines[k].ts

\* A bucket holds last versions only and, if the timestamps go up, all of them
\* or as many as fit, with nothing newer left out.
Kept(b, t, lines, n) ==
  /\ Contents(b) \subseteq LatestIn(lines, t, n)
  /\ InOrder(lines, t, n) =>
       /\ Contents(b) = LatestIn(lines, t, n) \/ Len(b) = MaxRecords
       /\ \A x \in Contents(b), q \in LatestIn(lines, t, n) \ Contents(b) : q.ts <= x.ts

BucketOK(b) == b \in Seq(Record) /\ Len(b) <= MaxRecords /\ OneEach(b)

MemoryInv ==
  /\ MemoryTypeOK
  /\ \A t \in Tenant : /\ \A k \in DOMAIN index[t] : index[t][k].tenant = t
                       /\ OneEach(index[t])
                       /\ clean => Kept(index[t], t, file, ingested)

\* Cutting a list to the cap: it is as it was, or full and without what is oldest.
LEMMA BoundedKeeps ==
  ASSUME NEW b \in Seq(Record), OneEach(b)
  PROVE  LET c == Bounded(b)
         IN  /\ BucketOK(c)
             /\ Contents(c) \subseteq Contents(b)
             /\ c = b \/ Len(c) = MaxRecords
             /\ \A d \in Contents(b) \ Contents(c), x \in Contents(c) : d.ts <= x.ts
<1>. DEFINE s == NewestFirst(b)
            c == Bounded(b)
<1>0. MaxRecords \in Nat /\ MaxRecords # 0 /\ Len(b) \in Nat BY MemoryAssumption, RecordsOf
<1>1. CASE Len(b) <= MaxRecords
  <2>1. c = b BY <1>0, <1>1 DEF Bounded
  <2>. QED BY <1>1, <2>1 DEF BucketOK
<1>2. CASE Len(b) > MaxRecords
  <2>. HIDE DEF s
  <2>1. c = SubSeq(s, 1, MaxRecords) BY <1>2 DEF Bounded, s
  <2>2. s \in Seq(Record) /\ Len(s) = Len(b) BY Sorted DEF s
  <2>. HIDE DEF c
  <2>3. /\ c \in Seq(Record) /\ Len(c) = MaxRecords /\ DOMAIN c = 1..MaxRecords
        /\ \A n \in 1..MaxRecords : c[n] = s[n]
    BY <1>0, <1>2, <2>1, <2>2, SubSeqProperties, LenProperties
  <2>4. /\ \A n \in 1..Len(b) : \E k \in DOMAIN b : s[n] = b[k] /\ SortedPlace(b, k) = n
        /\ \A k \in DOMAIN b : SortedPlace(b, k) \in 1..Len(b) /\ s[SortedPlace(b, k)] = b[k]
        /\ \A j, k \in DOMAIN b : SortedPlace(b, j) < SortedPlace(b, k) <=> Newer(b, j, k)
    BY Sorted DEF s
  <2>5. ASSUME NEW n \in 1..MaxRecords
        PROVE \E k \in DOMAIN b : c[n] = b[k] /\ SortedPlace(b, k) = n
    <3>1. n \in 1..Len(b) BY <1>0, <1>2
    <3>. QED BY <2>3, <2>4, <3>1
  <2>6. OneEach(c)
    <3> SUFFICES ASSUME NEW j \in 1..MaxRecords, NEW k \in 1..MaxRecords,
                        c[j].incident = c[k].incident
                 PROVE  j = k
      BY <2>3 DEF OneEach
    <3>1. PICK v \in DOMAIN b : c[j] = b[v] /\ SortedPlace(b, v) = j BY <2>5
    <3>2. PICK w \in DOMAIN b : c[k] = b[w] /\ SortedPlace(b, w) = k BY <2>5
    <3>3. v = w BY <3>1, <3>2 DEF OneEach
    <3>. QED BY <3>1, <3>2, <3>3
  <2>7. Contents(c) \subseteq Contents(b) BY <2>3, <2>5 DEF Contents
  <2>8. ASSUME NEW d \in Contents(b) \ Contents(c), NEW x \in Contents(c) PROVE d.ts <= x.ts
    <3>1. PICK k \in DOMAIN b : d = b[k] BY DEF Contents
    <3>2. PICK n \in 1..MaxRecords : x = c[n] BY <2>3 DEF Contents
    <3>3. PICK j \in DOMAIN b : x = b[j] /\ SortedPlace(b, j) = n BY <2>5, <3>2
    <3>. DEFINE p == SortedPlace(b, k)
    <3>4. p \in 1..Len(b) /\ s[p] = d BY <2>4, <3>1
    <3>5. p \notin 1..MaxRecords BY <2>3, <3>4 DEF Contents
    <3>6. SortedPlace(b, j) < p BY <1>0, <3>3, <3>4, <3>5
    <3>7. Newer(b, j, k) BY <2>4, <3>6
    <3>8. b[j].ts \in Int /\ b[k].ts \in Int BY RecordsOf
    <3>. QED BY <3>1, <3>3, <3>7, <3>8 DEF Newer
  <2>. QED BY <1>0, <2>3, <2>6, <2>7, <2>8 DEF BucketOK, c
<1>. QED BY <1>0, <1>1, <1>2

\* Ingesting a record replaces the incident's record, or adds one; what goes then
\* goes because the bucket is full, and is not newer than what stays.
LEMMA IngestKeeps ==
  ASSUME NEW b, BucketOK(b), NEW r \in Record
  PROVE  LET c == Ingest(b, r)
             whole == {x \in Contents(b) : x.incident # r.incident} \cup {r}
         IN  /\ BucketOK(c)
             /\ Contents(c) \subseteq whole
             /\ Len(c) = MaxRecords \/ (Contents(c) = whole /\ Len(b) <= Len(c))
             /\ \A d \in whole \ Contents(c), x \in Contents(c) : d.ts <= x.ts
<1>. DEFINE c == Ingest(b, r)
            whole == {x \in Contents(b) : x.incident # r.incident} \cup {r}
            at == Positions(b, r.incident)
            first == CHOOSE k \in at : \A j \in at : k <= j
<1>0. b \in Seq(Record) /\ Len(b) <= MaxRecords /\ OneEach(b) BY DEF BucketOK
<1>1. Len(b) \in Nat /\ DOMAIN b = 1..Len(b) BY <1>0, RecordsOf
<1>2. CASE at # {}
  <2>1. PICK k \in DOMAIN b : b[k].incident = r.incident BY <1>2 DEF Positions
  <2>2. \A j \in DOMAIN b : b[j].incident = r.incident <=> j = k BY <1>0, <2>1 DEF OneEach
  <2>3. at = {k} BY <2>2 DEF Positions
  <2>. HIDE DEF at
  <2>3a. k <= k BY <1>1
  <2>4. first = k BY <2>3, <2>3a
  <2>5. c = [b EXCEPT ![k] = r] BY <1>2, <2>4 DEF Ingest, at
  <2>. HIDE DEF c
  <2>6. c \in Seq(Record) /\ Len(c) = Len(b) /\ DOMAIN c = DOMAIN b
    BY <1>0, <1>1, <2>5, ExceptSeq
  <2>7. c[k] = r /\ \A j \in DOMAIN b : j # k => c[j] = b[j] BY <2>5
  <2>8. OneEach(c) BY <1>0, <2>1, <2>6, <2>7 DEF OneEach
  <2>9. Contents(c) = whole
    <3>1. ASSUME NEW x \in Contents(c) PROVE x \in whole
      <4>1. PICK j \in DOMAIN b : x = c[j] BY <2>6 DEF Contents
      <4>. QED BY <2>2, <2>7, <4>1 DEF Contents
    <3>2. ASSUME NEW x \in whole PROVE x \in Contents(c)
      <4>1. CASE x = r BY <2>1, <2>6, <2>7, <4>1 DEF Contents
      <4>2. CASE x # r
        <5>1. PICK j \in DOMAIN b : x = b[j] /\ x.incident # r.incident BY <4>2 DEF Contents
        <5>2. j # k BY <2>1, <5>1
        <5>. QED BY <2>6, <2>7, <5>1, <5>2 DEF Contents
      <4>. QED BY <4>1, <4>2
    <3>. QED BY <3>1, <3>2
  <2>10. Len(b) <= Len(c) BY <1>1, <2>6
  <2>. QED BY <1>0, <2>6, <2>8, <2>9, <2>10 DEF BucketOK, c
<1>3. CASE at = {}
  <2>. DEFINE e == Append(b, r)
  <2>1. c = Bounded(e) BY <1>3 DEF Ingest
  <2>2. \A j \in DOMAIN b : b[j].incident # r.incident BY <1>3 DEF Positions
  <2>3. /\ e \in Seq(Record) /\ Len(e) = Len(b) + 1 /\ DOMAIN e = 1..(Len(b) + 1)
        /\ e[Len(b) + 1] = r /\ \A j \in 1..Len(b) : e[j] = b[j]
    BY <1>0, <1>1, AppendProperties, LenProperties
  <2>. HIDE DEF e
  <2>4. OneEach(e)
    <3> SUFFICES ASSUME NEW j \in DOMAIN e, NEW k \in DOMAIN e, e[j].incident = e[k].incident, j # k
                 PROVE  FALSE
      BY DEF OneEach
    <3>1. j \in 1..Len(b) \/ j = Len(b) + 1 BY <1>1, <2>3
    <3>2. k \in 1..Len(b) \/ k = Len(b) + 1 BY <1>1, <2>3
    <3>. QED BY <1>0, <1>1, <2>2, <2>3, <3>1, <3>2 DEF OneEach
  <2>5. Contents(e) = whole
    <3>1. ASSUME NEW x \in Contents(e) PROVE x \in whole
      <4>1. PICK j \in DOMAIN e : x = e[j] BY DEF Contents
      <4>2. j \in 1..Len(b) \/ j = Len(b) + 1 BY <1>1, <2>3
      <4>. QED BY <1>1, <2>2, <2>3, <4>1, <4>2 DEF Contents
    <3>2. ASSUME NEW x \in whole PROVE x \in Contents(e)
      <4>1. CASE x = r
        <5>1. Len(b) + 1 \in DOMAIN e BY <1>1, <2>3
        <5>. QED BY <2>3, <4>1, <5>1 DEF Contents
      <4>2. CASE x # r
        <5>1. PICK j \in 1..Len(b) : x = b[j] BY <1>1, <4>2 DEF Contents
        <5>2. j \in DOMAIN e /\ e[j] = x BY <1>1, <2>3, <5>1
        <5>. QED BY <5>2 DEF Contents
      <4>. QED BY <4>1, <4>2
    <3>. QED BY <3>1, <3>2
  <2>. HIDE DEF c, whole, at
  <2>6. /\ BucketOK(c) /\ Contents(c) \subseteq Contents(e)
        /\ c = e \/ Len(c) = MaxRecords
        /\ \A d \in Contents(e) \ Contents(c), x \in Contents(c) : d.ts <= x.ts
    BY <2>1, <2>3, <2>4, BoundedKeeps
  <2>7. c = e => Len(b) <= Len(c) /\ Contents(c) = whole BY <1>1, <2>3, <2>5
  <2>. QED BY <2>5, <2>6, <2>7 DEF c, whole
<1>. HIDE DEF at
<1>. QED BY <1>2, <1>3

\* What a further line does to the last lines of the incidents.
LEMMA LatestGrows ==
  ASSUME NEW n \in Nat, NEW lines, NEW more,
         \A k \in 1..n : more[k] = lines[k]
  PROVE  LET r == more[n + 1]
         IN  LatestIn(more, r.tenant, n + 1) =
               {x \in LatestIn(lines, r.tenant, n) : x.incident # r.incident} \cup {r}
<1>. DEFINE r == more[n + 1]
            t == r.tenant
            Last(l, k, j) == \A m \in Of(l, t, k) : l[m].incident = l[j].incident => m <= j
<1>1. \A k \in 1..n : k \in Of(more, t, n + 1) <=> k \in Of(lines, t, n) BY DEF Of
<1>2. n + 1 \in Of(more, t, n + 1) BY DEF Of
<1>3. \A k \in Of(more, t, n + 1) : k \in 1..n \/ k = n + 1 BY DEF Of
<1>4. \A k \in Of(lines, t, n) : k \in 1..n BY DEF Of
<1>5. /\ \A x : x \in LatestIn(lines, t, n) <=>
             \E j \in Of(lines, t, n) : x = lines[j] /\ Last(lines, n, j)
      /\ \A x : x \in LatestIn(more, t, n + 1) <=>
             \E j \in Of(more, t, n + 1) : x = more[j] /\ Last(more, n + 1, j)
  BY DEF LatestIn
<1>6. \A j \in Of(lines, t, n) : Last(more, n + 1, j) <=>
        /\ Last(lines, n, j)
        /\ lines[j].incident # r.incident
  <2> TAKE j \in Of(lines, t, n)
  <2>1. j \in 1..n /\ more[j] = lines[j] BY <1>4
  <2>2. ASSUME Last(more, n + 1, j)
        PROVE  Last(lines, n, j) /\ lines[j].incident # r.incident
    <3>1. \A m \in Of(lines, t, n) : m \in Of(more, t, n + 1) /\ more[m] = lines[m] BY <1>1, <1>4
    <3>2. ~(n + 1 <= j) BY <2>1
    <3>. QED BY <1>2, <2>1, <2>2, <3>1, <3>2
  <2>3. ASSUME Last(lines, n, j), lines[j].incident # r.incident
        PROVE  Last(more, n + 1, j)
    <3> SUFFICES ASSUME NEW m \in Of(more, t, n + 1), more[m].incident = more[j].incident
                 PROVE  m <= j
      OBVIOUS
    <3>. QED BY <1>1, <1>2, <1>3, <2>1, <2>3
  <2>. QED BY <2>2, <2>3
<1>7. Last(more, n + 1, n + 1) BY <1>3
<1>. HIDE DEF Last
<1>8. ASSUME NEW x \in LatestIn(more, t, n + 1), x # r
      PROVE  x \in LatestIn(lines, t, n) /\ x.incident # r.incident
  <2>1. PICK j \in Of(more, t, n + 1) : x = more[j] /\ Last(more, n + 1, j) BY <1>5
  <2>2. j \in 1..n BY <1>3, <1>8, <2>1
  <2>3. j \in Of(lines, t, n) /\ more[j] = lines[j] BY <1>1, <2>2
  <2>. QED BY <1>5, <1>6, <1>8, <2>1, <2>3
<1>9. r \in LatestIn(more, t, n + 1) BY <1>2, <1>5, <1>7
<1>10. ASSUME NEW x \in LatestIn(lines, t, n), x.incident # r.incident
       PROVE  x \in LatestIn(more, t, n + 1)
  <2>1. PICK j \in Of(lines, t, n) : x = lines[j] /\ Last(lines, n, j) BY <1>5
  <2>2. j \in 1..n BY <1>4
  <2>3. j \in Of(more, t, n + 1) /\ more[j] = lines[j] BY <1>1, <2>2
  <2>. QED BY <1>5, <1>6, <1>10, <2>1, <2>3
<1>. QED BY <1>8, <1>9, <1>10

\* A bucket that has what it should of n lines has it of n + 1 lines once it has
\* ingested the next.
LEMMA KeptIngesting ==
  ASSUME NEW b, BucketOK(b), NEW n \in Nat, NEW lines, NEW more,
         \A k \in 1..n : lines[k] \in Record /\ more[k] = lines[k],
         more[n + 1] \in Record,
         Kept(b, more[n + 1].tenant, lines, n)
  PROVE  Kept(Ingest(b, more[n + 1]), more[n + 1].tenant, more, n + 1)
<1>. DEFINE r == more[n + 1]
            t == r.tenant
            c == Ingest(b, r)
            whole == {x \in Contents(b) : x.incident # r.incident} \cup {r}
            old == LatestIn(lines, t, n)
            new == LatestIn(more, t, n + 1)
<1>1. new = {x \in old : x.incident # r.incident} \cup {r} BY LatestGrows
<1>2. /\ Contents(b) \subseteq old
      /\ InOrder(lines, t, n) =>
           /\ Contents(b) = old \/ Len(b) = MaxRecords
           /\ \A x \in Contents(b), q \in old \ Contents(b) : q.ts <= x.ts
  BY DEF Kept
<1>3. /\ BucketOK(c)
      /\ Contents(c) \subseteq whole
      /\ Len(c) = MaxRecords \/ (Contents(c) = whole /\ Len(b) <= Len(c))
      /\ \A d \in whole \ Contents(c), x \in Contents(c) : d.ts <= x.ts
  BY IngestKeeps
<1>4. MaxRecords \in Nat /\ Len(b) \in Nat /\ Len(b) <= MaxRecords /\ Len(c) \in Nat /\ Len(c) <= MaxRecords
  BY <1>3, MemoryAssumption, RecordsOf DEF BucketOK
<1>5. whole \subseteq new BY <1>1, <1>2
<1>6. InOrder(more, t, n + 1) => InOrder(lines, t, n) /\ \A q \in old : q.ts <= r.ts
  <2> SUFFICES ASSUME InOrder(more, t, n + 1)
               PROVE  InOrder(lines, t, n) /\ \A q \in old : q.ts <= r.ts
    OBVIOUS
  <2>1. \A k \in Of(lines, t, n) : /\ k \in 1..n /\ k \in Of(more, t, n + 1)
                                   /\ more[k] = lines[k] /\ k < n + 1
    BY DEF Of
  <2>2. n + 1 \in Of(more, t, n + 1) BY DEF Of
  <2>3. InOrder(lines, t, n) BY <2>1 DEF InOrder
  <2>4. \A k \in Of(lines, t, n) : lines[k].ts <= r.ts BY <2>1, <2>2 DEF InOrder
  <2>. QED BY <2>3, <2>4 DEF LatestIn
<1>. HIDE DEF whole, old, new, c, r, t
<1>7. Contents(c) \subseteq new BY <1>3, <1>5
<1>8. ASSUME InOrder(more, t, n + 1)
      PROVE  /\ Contents(c) = new \/ Len(c) = MaxRecords
             /\ \A x \in Contents(c), q \in new \ Contents(c) : q.ts <= x.ts
  <2>1. /\ Contents(b) = old \/ Len(b) = MaxRecords
        /\ \A x \in Contents(b), q \in old \ Contents(b) : q.ts <= x.ts
        /\ \A q \in old : q.ts <= r.ts
    BY <1>2, <1>6, <1>8
  <2>2. ASSUME Len(c) # MaxRecords PROVE Contents(c) = new
    <3>1. Contents(c) = whole /\ Len(b) <= Len(c) BY <1>3, <2>2
    <3>2. Contents(b) = old BY <1>4, <2>1, <2>2, <3>1
    <3>. QED BY <1>1, <3>1, <3>2 DEF whole
  <2>3. ASSUME NEW x \in Contents(c), NEW q \in new \ Contents(c) PROVE q.ts <= x.ts
    <3>1. CASE q \in whole BY <1>3, <3>1
    <3>2. CASE q \notin whole
      <4>1. q \in old \ Contents(b) BY <1>1, <3>2 DEF whole
      <4>2. x = r \/ x \in Contents(b) BY <1>3 DEF whole
      <4>. QED BY <2>1, <4>1, <4>2
    <3>. QED BY <3>1, <3>2
  <2>. QED BY <2>2, <2>3
<1>9. Kept(c, t, more, n + 1) BY <1>7, <1>8 DEF Kept, new
<1>. QED BY <1>9 DEF c, t, r

LEMMA KeptNotIngesting ==
  ASSUME NEW b, NEW t, NEW n \in Nat, NEW lines, NEW more,
         \A k \in 1..n : more[k] = lines[k],
         more[n + 1].tenant # t,
         Kept(b, t, lines, n)
  PROVE  Kept(b, t, more, n + 1)
<1>1. Of(more, t, n + 1) = Of(lines, t, n) /\ \A k \in Of(lines, t, n) : more[k] = lines[k]
  BY DEF Of
<1>2. LatestIn(more, t, n + 1) = LatestIn(lines, t, n) BY <1>1 DEF LatestIn
<1>3. InOrder(more, t, n + 1) => InOrder(lines, t, n) BY <1>1 DEF InOrder
<1>. QED BY <1>2, <1>3 DEF Kept

-----------------------------------------------------------------------------
\* A step that ingests a record: memory_add with its line, or load.
LEMMA Ingesting ==
  ASSUME MemoryInv, NEW r \in Record, r.tenant \in Tenant,
         index' = [index EXCEPT ![r.tenant] = Ingest(@, r)]
  PROVE  /\ index' \in [Tenant -> Seq(Record)]
         /\ \A t \in Tenant : /\ Len(index'[t]) <= MaxRecords
                              /\ \A k \in DOMAIN index'[t] : index'[t][k].tenant = t
                              /\ OneEach(index'[t])
         /\ (/\ clean /\ file' \in Seq(Record)
             /\ \A k \in 1..ingested : file'[k] = file[k]
             /\ file'[ingested + 1] = r)
              => \A t \in Tenant : Kept(index'[t], t, file', ingested + 1)
<1>. DEFINE b == index[r.tenant]
            c == Ingest(b, r)
            whole == {x \in Contents(b) : x.incident # r.incident} \cup {r}
<1>1. /\ index \in [Tenant -> Seq(Record)] /\ \A t \in Tenant : BucketOK(index[t])
      /\ file \in Seq(Record) /\ ingested \in 0..Len(file)
      /\ \A t \in Tenant : /\ \A k \in DOMAIN index[t] : index[t][k].tenant = t
                           /\ clean => Kept(index[t], t, file, ingested)
  BY DEF MemoryInv, MemoryTypeOK, BucketOK
<1>2. index'[r.tenant] = c /\ \A t \in Tenant : t # r.tenant => index'[t] = index[t] BY <1>1
<1>3. BucketOK(b) BY <1>1
<1>. HIDE DEF b
<1>4. BucketOK(c) /\ Contents(c) \subseteq whole BY <1>3, IngestKeeps
<1>. HIDE DEF c
<1>5. \A t \in Tenant : BucketOK(index'[t]) BY <1>1, <1>2, <1>4
<1>6. index' \in [Tenant -> Seq(Record)] BY <1>1, <1>2, <1>4 DEF BucketOK, c, b
<1>7. \A k \in DOMAIN c : c[k].tenant = r.tenant
  <2> TAKE k \in DOMAIN c
  <2>1. c[k] \in whole BY <1>4 DEF Contents
  <2>2. \A x \in Contents(b) : x.tenant = r.tenant BY <1>1 DEF Contents, b
  <2>. QED BY <2>1, <2>2
<1>8. ASSUME clean, file' \in Seq(Record), \A k \in 1..ingested : file'[k] = file[k],
             file'[ingested + 1] = r, NEW t \in Tenant
      PROVE  Kept(index'[t], t, file', ingested + 1)
  <2>1. ingested \in Nat /\ \A k \in 1..ingested : file[k] \in Record
    <3>1. Len(file) \in Nat /\ \A k \in 1..Len(file) : file[k] \in Record
      BY <1>1, LenProperties, ElementOfSeq
    <3>. QED BY <1>1, <3>1
  <2>2. CASE t = r.tenant
    <3>1. Kept(b, r.tenant, file, ingested) BY <1>1, <1>8 DEF b
    <3>2. Kept(c, r.tenant, file', ingested + 1) BY <1>3, <1>8, <2>1, <3>1, KeptIngesting DEF c
    <3>. QED BY <1>2, <2>2, <3>2
  <2>3. CASE t # r.tenant
    <3>1. Kept(index[t], t, file, ingested) BY <1>1, <1>8
    <3>2. Kept(index[t], t, file', ingested + 1) BY <1>8, <2>1, <2>3, <3>1, KeptNotIngesting
    <3>. QED BY <1>2, <2>3, <3>2
  <2>. QED BY <2>2, <2>3
<1>. QED BY <1>2, <1>5, <1>6, <1>1, <1>7, <1>8 DEF BucketOK

\* What is in the bucket is what is there to be found, whatever the file's tail.
LEMMA MemoryStart == MemoryInit => MemoryInv
<1> SUFFICES ASSUME MemoryInit PROVE MemoryInv OBVIOUS
<1>. USE DEF MemoryInit
<1>1. MaxRecords \in Nat /\ MaxAdds \in Nat BY MemoryAssumption
<1>2. MemoryTypeOK
  <2>1. <<>> \in Seq(Record) /\ Len(<<>>) = 0 BY EmptySeq
  <2>2. index \in [Tenant -> Seq(Record)] BY <2>1
  <2>3. \A t \in Tenant : Len(index[t]) <= MaxRecords BY <1>1, <2>1
  <2>4. file \in Seq(Record) /\ ingested \in 0..Len(file) BY <2>1
  <2>5. partial \in BOOLEAN /\ clean \in BOOLEAN BY Zenon
  <2>6. adds \in 0..MaxAdds BY <1>1
  <2>. QED BY <2>2, <2>3, <2>4, <2>5, <2>6 DEF MemoryTypeOK
<1>3. ASSUME NEW t \in Tenant
      PROVE  index[t] = <<>> /\ OneEach(index[t]) /\ Kept(index[t], t, file, ingested)
  <2>1. Of(file, t, 0) = {} BY DEF Of
  <2>. QED BY <2>1 DEF OneEach, Kept, Contents, LatestIn
<1>. QED BY <1>2, <1>3 DEF MemoryInv

LEMMA MemoryStep == MemoryInv /\ [MemoryNext]_memoryVars => MemoryInv'
<1> SUFFICES ASSUME MemoryInv, [MemoryNext]_memoryVars PROVE MemoryInv' OBVIOUS
<1>0. /\ index \in [Tenant -> Seq(Record)] /\ \A t \in Tenant : Len(index[t]) <= MaxRecords
      /\ file \in Seq(Record) /\ Len(file) \in Nat /\ ingested \in 0..Len(file)
      /\ partial \in BOOLEAN /\ clean \in BOOLEAN /\ adds \in 0..MaxAdds
      /\ \A k \in 1..Len(file) : file[k] \in Record
      /\ MaxRecords \in Nat /\ MaxAdds \in Nat
  BY MemoryAssumption, LenProperties, ElementOfSeq DEF MemoryInv, MemoryTypeOK
<1>1. ASSUME Counted PROVE adds' \in 0..MaxAdds /\ adds + 1 \in 1..MaxAdds
  BY <1>0, <1>1 DEF Counted
<1>2. ASSUME NEW t \in Tenant, NEW i \in Incident, NEW ts \in Ts, Counted
      PROVE  NewRecord(t, i, ts) \in Record /\ NewRecord(t, i, ts).tenant = t
  BY <1>1, <1>2 DEF NewRecord, Record
<1>3. ASSUME NEW r \in Record
      PROVE  /\ Append(file, r) \in Seq(Record) /\ Len(Append(file, r)) = Len(file) + 1
             /\ Append(file, r)[Len(file) + 1] = r
             /\ \A k \in 1..Len(file) : Append(file, r)[k] = file[k]
  BY <1>0, AppendProperties
<1>4. ASSUME Fresh, file' \in Seq(Record), partial' \in BOOLEAN, adds' \in 0..MaxAdds PROVE MemoryInv'
  <2>1. Len(file') \in Nat BY <1>4, LenProperties
  <2>2. MemoryTypeOK' BY <1>0, <1>4, <2>1 DEF MemoryTypeOK, Fresh
  <2>3. ASSUME NEW t \in Tenant
        PROVE  index'[t] = <<>> /\ OneEach(index'[t]) /\ Kept(index'[t], t, file', ingested')
    <3>1. Of(file', t, 0) = {} BY DEF Of
    <3>. QED BY <1>4, <3>1 DEF Fresh, OneEach, Kept, Contents, LatestIn
  <2>. QED BY <2>2, <2>3 DEF MemoryInv
<1>5. ASSUME NEW t \in Tenant, NEW i \in Incident, NEW ts \in Ts, Add(t, i, ts) PROVE MemoryInv'
  <2>. DEFINE r == NewRecord(t, i, ts)
  <2>1. Counted /\ ingested = Len(file) BY <1>5 DEF Add, Serving
  <2>2. r \in Record /\ r.tenant = t BY <1>2, <2>1
  <2>3. /\ index' = [index EXCEPT ![r.tenant] = Ingest(@, r)]
        /\ file' = IF partial THEN file ELSE Append(file, r)
        /\ ingested' = Len(file') /\ partial' = FALSE /\ clean' = (clean /\ ~partial)
    BY <1>5, <2>2 DEF Add
  <2>. HIDE DEF r
  <2>4. file' \in Seq(Record) /\ Len(file') \in Nat BY <1>0, <1>3, <2>2, <2>3
  <2>5. adds' \in 0..MaxAdds BY <1>1, <2>1
  <2>6. clean' => /\ clean /\ ingested' = ingested + 1
                  /\ \A k \in 1..ingested : file'[k] = file[k]
                  /\ file'[ingested + 1] = r
    BY <1>0, <1>3, <2>1, <2>2, <2>3
  <2>7. /\ index' \in [Tenant -> Seq(Record)]
        /\ \A u \in Tenant : /\ Len(index'[u]) <= MaxRecords
                             /\ \A k \in DOMAIN index'[u] : index'[u][k].tenant = u
                             /\ OneEach(index'[u])
                             /\ clean' => Kept(index'[u], u, file', ingested')
    <3>1. /\ index' \in [Tenant -> Seq(Record)]
          /\ \A u \in Tenant : /\ Len(index'[u]) <= MaxRecords
                               /\ \A k \in DOMAIN index'[u] : index'[u][k].tenant = u
                               /\ OneEach(index'[u])
          /\ (/\ clean /\ file' \in Seq(Record)
              /\ \A k \in 1..ingested : file'[k] = file[k]
              /\ file'[ingested + 1] = r)
               => \A u \in Tenant : Kept(index'[u], u, file', ingested + 1)
      BY <2>2, <2>3, Ingesting
    <3>2. ASSUME clean', NEW u \in Tenant PROVE Kept(index'[u], u, file', ingested')
      <4>1. Kept(index'[u], u, file', ingested + 1) BY <2>4, <2>6, <3>1, <3>2
      <4>. QED BY <2>6, <3>2, <4>1
    <3>. QED BY <3>1, <3>2
  <2>8. MemoryTypeOK'
    <3>1. ingested' \in 0..Len(file') BY <2>3, <2>4
    <3>2. partial' \in BOOLEAN /\ clean' \in BOOLEAN BY <2>3
    <3>. QED BY <2>4, <2>5, <2>7, <3>1, <3>2 DEF MemoryTypeOK
  <2>. QED BY <2>7, <2>8 DEF MemoryInv
<1>6. ASSUME NEW t \in Tenant, NEW i \in Incident, NEW ts \in Ts, AddUnwritten(t, i, ts) PROVE MemoryInv'
  <2>. DEFINE r == NewRecord(t, i, ts)
  <2>1. Counted BY <1>6 DEF AddUnwritten
  <2>2. r \in Record /\ r.tenant = t BY <1>2, <2>1
  <2>3. /\ index' = [index EXCEPT ![r.tenant] = Ingest(@, r)]
        /\ partial' \in BOOLEAN /\ clean' = FALSE /\ UNCHANGED <<file, ingested>>
    BY <1>0, <1>6, <2>2 DEF AddUnwritten
  <2>. HIDE DEF r
  <2>4. adds' \in 0..MaxAdds BY <1>1, <2>1
  <2>5. /\ index' \in [Tenant -> Seq(Record)]
        /\ \A u \in Tenant : /\ Len(index'[u]) <= MaxRecords
                             /\ \A k \in DOMAIN index'[u] : index'[u][k].tenant = u
                             /\ OneEach(index'[u])
    BY <2>2, <2>3, Ingesting
  <2>6. MemoryTypeOK' BY <1>0, <2>3, <2>4, <2>5 DEF MemoryTypeOK
  <2>. QED BY <2>3, <2>5, <2>6 DEF MemoryInv
<1>7. ASSUME NEW t \in Tenant, NEW i \in Incident, NEW ts \in Ts, Crash(t, i, ts) PROVE MemoryInv'
  <2>1. Counted /\ Fresh /\ partial' \in BOOLEAN
        /\ file' \in {file, Append(file, NewRecord(t, i, ts))}
    BY <1>7 DEF Crash
  <2>2. file' \in Seq(Record) BY <1>0, <1>2, <1>3, <2>1
  <2>. QED BY <1>1, <1>4, <2>1, <2>2
<1>8. CASE Restart BY <1>0, <1>4, <1>8 DEF Restart
<1>9. CASE LoadLine
  <2>. DEFINE r == file[ingested + 1]
  <2>1. ingested + 1 \in 1..Len(file) BY <1>0, <1>9 DEF LoadLine, Serving
  <2>2. r \in Record /\ r.tenant \in Tenant BY <1>0, <2>1 DEF Record
  <2>3. /\ index' = [index EXCEPT ![r.tenant] = Ingest(@, r)]
        /\ ingested' = ingested + 1 /\ UNCHANGED <<file, partial, adds, clean>>
    BY <1>9 DEF LoadLine
  <2>3a. file'[ingested + 1] = r BY <2>3
  <2>. HIDE DEF r
  <2>4. /\ index' \in [Tenant -> Seq(Record)]
        /\ \A u \in Tenant : /\ Len(index'[u]) <= MaxRecords
                             /\ \A k \in DOMAIN index'[u] : index'[u][k].tenant = u
                             /\ OneEach(index'[u])
                             /\ clean' => Kept(index'[u], u, file', ingested')
    <3>1. /\ index' \in [Tenant -> Seq(Record)]
          /\ \A u \in Tenant : /\ Len(index'[u]) <= MaxRecords
                               /\ \A k \in DOMAIN index'[u] : index'[u][k].tenant = u
                               /\ OneEach(index'[u])
          /\ (/\ clean /\ file' \in Seq(Record)
              /\ \A k \in 1..ingested : file'[k] = file[k]
              /\ file'[ingested + 1] = r)
               => \A u \in Tenant : Kept(index'[u], u, file', ingested + 1)
      BY <2>2, <2>3, Ingesting
    <3>2. ASSUME clean', NEW u \in Tenant PROVE Kept(index'[u], u, file', ingested')
      <4>1. clean /\ file' \in Seq(Record) /\ \A k \in 1..ingested : file'[k] = file[k]
        BY <1>0, <2>3, <3>2
      <4>2. Kept(index'[u], u, file', ingested + 1) BY <2>3a, <3>1, <4>1
      <4>. QED BY <2>3, <4>2
    <3>. QED BY <3>1, <3>2
  <2>5. MemoryTypeOK' BY <1>0, <2>1, <2>3, <2>4 DEF MemoryTypeOK
  <2>. QED BY <2>4, <2>5 DEF MemoryInv
<1>10. CASE LoadFails
  <2>1. ingested' = Len(file) /\ clean' = FALSE /\ UNCHANGED <<index, file, partial, adds>>
    BY <1>10 DEF LoadFails
  <2>2. ingested' \in 0..Len(file') BY <1>0, <2>1
  <2>3. MemoryTypeOK' BY <1>0, <2>1, <2>2 DEF MemoryTypeOK
  <2>. QED BY <2>1, <2>3 DEF MemoryInv
<1>11. CASE UNCHANGED memoryVars
  BY <1>11 DEF memoryVars, MemoryInv, MemoryTypeOK
<1>. QED BY <1>5, <1>6, <1>7, <1>8, <1>9, <1>10, <1>11 DEF MemoryNext

\* The index has the type of its state, is within its cap, and has of the lines
\* that it has ingested what memory_search promises.
THEOREM MemoryHolds == MemorySpec => []MemoryInv
BY MemoryStart, MemoryStep, PTL DEF MemorySpec

-----------------------------------------------------------------------------
(* The memory: what a search gives.                                        *)

\* A record's weight and score are numbers; of records of one weight whose time
\* can be read the newer has the greater score, up to the time of the search; the
\* others have none.
LEMMA ScoresDecay ==
  ASSUME NEW q
  PROVE  /\ \A r \in Record : Weight(r, q) \in Nat /\ Score(r, q) \in Nat
         /\ \A r, s \in Record :
              /\ Weight(r, q) = Weight(s, q) /\ Weight(r, q) > 0
              /\ Form[s.ts] # "garbled" /\ Instant[r.ts] < Instant[s.ts] /\ Instant[r.ts] < Now
              => Score(r, q) < Score(s, q)
         /\ \A r, s \in Record :
              /\ Form[r.ts] = "garbled" /\ Form[s.ts] # "garbled" /\ Weight(s, q) > 0
              => Score(r, q) < Score(s, q)
<1>. DEFINE Age(r) == IF Instant[r.ts] < Now THEN Instant[r.ts] ELSE Now
<1>1. /\ Now \in Nat /\ MaxTs \in Nat /\ Freshness \in [0..Now -> Nat \ {0}]
      /\ Instant \in [1..MaxTs -> Nat]
      /\ \A s, u \in 0..Now : s < u => Freshness[s] < Freshness[u]
  BY MemoryAssumption
<1>2. \A r \in Record : Instant[r.ts] \in Nat BY <1>1 DEF Record, Ts
<1>3. \A r \in Record : Age(r) \in 0..Now BY <1>1, <1>2
<1>4. \A r \in Record : Weight(r, q) \in Nat BY DEF Weight
<1>5. \A r \in Record : Score(r, q) =
        IF Form[r.ts] = "garbled" THEN 0 ELSE Weight(r, q) * Freshness[Age(r)]
  BY DEF Score
<1>6. \A r, s \in Record :
        Instant[r.ts] < Instant[s.ts] /\ Instant[r.ts] < Now => Freshness[Age(r)] < Freshness[Age(s)]
  <2> TAKE r, s \in Record
  <2>1. Age(r) \in 0..Now /\ Age(s) \in 0..Now BY <1>3
  <2>2. Instant[r.ts] < Instant[s.ts] /\ Instant[r.ts] < Now => Age(r) < Age(s) BY <1>1, <1>2
  <2>. QED BY <1>1, <2>1, <2>2
<1>. HIDE DEF Age
<1>7. \A r \in Record : Freshness[Age(r)] \in Nat /\ Freshness[Age(r)] > 0 BY <1>1, <1>3
<1>8. \A w, f \in Nat : w * f \in Nat OBVIOUS
<1>9. \A w, f, g \in Nat : w > 0 /\ f < g => w * f < w * g BY SMTT(30)
<1>10. \A r \in Record : Score(r, q) \in Nat BY <1>4, <1>5, <1>7, <1>8
<1>11. \A r \in Record : Form[r.ts] # "garbled" /\ Weight(r, q) > 0 => Score(r, q) > 0
  <2>1. \A w, f \in Nat : w > 0 /\ f > 0 => w * f > 0 BY SMTT(30)
  <2>. QED BY <1>4, <1>5, <1>7, <2>1
<1>12. ASSUME NEW r \in Record, NEW s \in Record,
              Weight(r, q) = Weight(s, q), Weight(r, q) > 0, Form[s.ts] # "garbled",
              Instant[r.ts] < Instant[s.ts], Instant[r.ts] < Now
       PROVE  Score(r, q) < Score(s, q)
  <2>1. CASE Form[r.ts] = "garbled" BY <1>5, <1>10, <1>11, <1>12, <2>1
  <2>2. CASE Form[r.ts] # "garbled"
    <3>1. Freshness[Age(r)] < Freshness[Age(s)] BY <1>6, <1>12
    <3>2. Weight(r, q) * Freshness[Age(r)] < Weight(r, q) * Freshness[Age(s)]
      BY <1>4, <1>7, <1>9, <1>12, <3>1
    <3>. QED BY <1>5, <1>12, <2>2, <3>2
  <2>. QED BY <2>1, <2>2
<1>13. ASSUME NEW r \in Record, NEW s \in Record,
              Form[r.ts] = "garbled", Form[s.ts] # "garbled", Weight(s, q) > 0
       PROVE  Score(r, q) < Score(s, q)
  BY <1>5, <1>10, <1>11, <1>13
<1>. QED BY <1>4, <1>10, <1>12, <1>13

\* The scored records of a bucket, best first.
LEMMA Ranked ==
  ASSUME NEW b \in Seq(Record), NEW q
  PROVE  LET S == Scored(b, q)
         IN  /\ S \subseteq DOMAIN b /\ Cardinality(S) \in Nat
             /\ \A k \in S : ScoredPlace(b, q, k) \in 1..Cardinality(S)
             /\ \A j, k \in S : ScoredPlace(b, q, j) < ScoredPlace(b, q, k) <=> Better(b, q, j, k)
             /\ \A j, k \in S : ScoredPlace(b, q, j) = ScoredPlace(b, q, k) => j = k
             /\ \A n \in 1..Cardinality(S) : \E k \in S : ScoredPlace(b, q, k) = n
<1>. DEFINE S == Scored(b, q)
            R == {p \in S \X S : Better(b, q, p[1], p[2])}
            place == [k \in S |-> ScoredPlace(b, q, k)]
<1>1. S \in SUBSET DOMAIN b /\ IsFiniteSet(DOMAIN b) BY RecordsOf DEF Scored
<1>2. \A j, k \in S : <<j, k>> \in R <=> Better(b, q, j, k) OBVIOUS
<1>3. \A k \in S : place[k] = ScoredPlace(b, q, k) OBVIOUS
<1>4. ASSUME NEW k \in S PROVE place[k] = 1 + Cardinality({j \in S : <<j, k>> \in R})
  <2>1. {j \in S : <<j, k>> \in R} = {j \in S : Better(b, q, j, k)} BY <1>2
  <2>. QED BY <2>1 DEF ScoredPlace
<1>5. \A k \in S : b[k].ts \in Int /\ k \in Int /\ Score(b[k], q) \in Int
  <2>1. \A k \in S : b[k] \in Record /\ b[k].ts \in Int /\ k \in Int BY <1>1, RecordsOf
  <2>2. \A r \in Record : Score(r, q) \in Nat BY ScoresDecay
  <2>. QED BY <2>1, <2>2
<1>. HIDE DEF S
<1>6. IsFiniteSet(S) BY <1>1, FS_Subset
<1>7. place \in [S -> Nat]
  <2> SUFFICES ASSUME NEW k \in S PROVE Cardinality({j \in S : Better(b, q, j, k)}) \in Nat
    BY DEF ScoredPlace, S
  <2>1. {j \in S : Better(b, q, j, k)} \in SUBSET S OBVIOUS
  <2>. QED BY <1>6, <2>1, FS_Subset, FS_CardinalityType
<1>. HIDE DEF R, place
<1>8. /\ \A i \in S : <<i, i>> \notin R
      /\ \A i, j \in S : i = j \/ <<i, j>> \in R \/ <<j, i>> \in R
      /\ \A i, j, k \in S : <<i, j>> \in R /\ <<j, k>> \in R => <<i, k>> \in R
  <2>1. \A i \in S : ~Better(b, q, i, i) BY <1>5 DEF Better
  <2>2. \A i, j \in S : i = j \/ Better(b, q, i, j) \/ Better(b, q, j, i) BY <1>5 DEF Better
  <2>3. \A i, j, k \in S : Better(b, q, i, j) /\ Better(b, q, j, k) => Better(b, q, i, k)
    BY <1>5 DEF Better
  <2>. QED BY <1>2, <2>1, <2>2, <2>3
<1>9. /\ Cardinality(S) \in Nat
      /\ \A i \in S : place[i] \in 1..Cardinality(S)
      /\ \A i, j \in S : place[i] < place[j] <=> <<i, j>> \in R
      /\ \A n \in 1..Cardinality(S) : \E i \in S : place[i] = n
  <2>1. \A i \in S : place[i] = 1 + Cardinality({j \in S : <<j, i>> \in R}) BY <1>4
  <2>. QED BY <1>6, <1>7, <1>8, <2>1, PlacesNumber
<1>10. \A i, j \in S : place[i] = place[j] => i = j
  <2>1. \A i \in S : place[i] \in Nat BY <1>7
  <2>. QED BY <1>8, <1>9, <2>1
<1>11. /\ S \subseteq DOMAIN b /\ Cardinality(S) \in Nat
       /\ \A k \in S : ScoredPlace(b, q, k) \in 1..Cardinality(S)
       /\ \A n \in 1..Cardinality(S) : \E k \in S : ScoredPlace(b, q, k) = n
  BY <1>1, <1>3, <1>9
<1>12. \A j, k \in S : ScoredPlace(b, q, j) < ScoredPlace(b, q, k) <=> Better(b, q, j, k)
  <2> TAKE j, k \in S
  <2>1. place[j] = ScoredPlace(b, q, j) /\ place[k] = ScoredPlace(b, q, k) BY <1>3
  <2>2. place[j] < place[k] <=> <<j, k>> \in R BY <1>9
  <2>. QED BY <1>2, <2>1, <2>2
<1>13. \A j, k \in S : ScoredPlace(b, q, j) = ScoredPlace(b, q, k) => j = k BY <1>3, <1>10
<1>. QED BY <1>11, <1>12, <1>13 DEF S

\* The best of a tenant's bucket: which record is at which place.
LEMMA SearchGives ==
  ASSUME MemoryTypeOK, NEW t \in Tenant, NEW q
  PROVE  LET b == index[t]
             S == Scored(b, q)
             hits == Best(index[t], q, TopK)
         IN  /\ b \in Seq(Record)
             /\ DOMAIN hits \subseteq Nat
             /\ \A n \in DOMAIN hits : \E k \in S : ScoredPlace(b, q, k) = n /\ hits[n] = b[k]
             /\ \A k \in S : Len(hits) = TopK \/ b[k] \in Contents(hits)
<1>. DEFINE b == index[t]
            S == Scored(b, q)
            count == Cardinality(S)
            N == IF TopK < count THEN TopK ELSE count
            hits == Best(index[t], q, TopK)
<1>1. b \in Seq(Record) BY DEF MemoryTypeOK
<1>2. hits = [n \in 1..N |-> b[CHOOSE k \in S : ScoredPlace(b, q, k) = n]] BY DEF Best
<1>. HIDE DEF b
<1>3. /\ count \in Nat
      /\ \A k \in S : ScoredPlace(b, q, k) \in 1..count
      /\ \A j, k \in S : ScoredPlace(b, q, j) = ScoredPlace(b, q, k) => j = k
      /\ \A n \in 1..count : \E k \in S : ScoredPlace(b, q, k) = n
  BY <1>1, Ranked
<1>. HIDE DEF S, hits, count
<1>4. TopK \in Nat /\ N \in Nat /\ N <= count BY <1>3, MemoryAssumption
<1>5. DOMAIN hits = 1..N BY <1>2
<1>6. ASSUME NEW n \in 1..N PROVE \E k \in S : ScoredPlace(b, q, k) = n /\ hits[n] = b[k]
  <2>1. n \in 1..count BY <1>3, <1>4
  <2>2. \E k \in S : ScoredPlace(b, q, k) = n BY <1>3, <2>1
  <2>. DEFINE k == CHOOSE k \in S : ScoredPlace(b, q, k) = n
  <2>3. k \in S /\ ScoredPlace(b, q, k) = n BY <2>2
  <2>4. hits[n] = b[k] BY <1>2
  <2>. QED BY <2>3, <2>4
<1>7. \A n \in 1..N : hits[n] \in Record
  <2>1. \A k \in S : b[k] \in Record BY <1>1, RecordsOf DEF S, Scored
  <2>. QED BY <1>6, <2>1
<1>8. Len(hits) = N
  <2>1. hits = [n \in 1..N |-> hits[n]] BY <1>2, <1>5
  <2>2. hits \in [1..N -> Record] BY <1>7, <2>1
  <2>3. hits \in Seq(Record) BY <1>4, <2>2, SeqDef
  <2>4. Len(hits) \in Nat /\ 1..Len(hits) = 1..N BY <1>5, <2>3, LenProperties
  <2>. QED BY <1>4, <2>4
<1>9. ASSUME NEW k \in S, Len(hits) # TopK PROVE b[k] \in Contents(hits)
  <2>1. N = count BY <1>3, <1>4, <1>8, <1>9
  <2>. DEFINE n == ScoredPlace(b, q, k)
  <2>2. n \in 1..N BY <1>3, <2>1
  <2>3. PICK j \in S : ScoredPlace(b, q, j) = n /\ hits[n] = b[j] BY <1>6, <2>2
  <2>4. j = k BY <1>3, <2>3
  <2>. QED BY <1>5, <2>2, <2>3, <2>4 DEF Contents
<1>10. /\ b \in Seq(Record)
       /\ DOMAIN hits \subseteq Nat
       /\ \A n \in DOMAIN hits : \E k \in S : ScoredPlace(b, q, k) = n /\ hits[n] = b[k]
       /\ \A k \in S : Len(hits) = TopK \/ b[k] \in Contents(hits)
  BY <1>1, <1>5, <1>6, <1>9
<1>. QED BY <1>10 DEF hits, S, b

\* Once load has returned, the lines ingested are the lines of the file.
LEMMA AllIngested ==
  MemoryTypeOK /\ Serving => \A t \in Tenant :
    /\ LatestIn(file, t, ingested) = Latest(t)
    /\ Of(file, t, ingested) = {k \in DOMAIN file : file[k].tenant = t}
<1> SUFFICES ASSUME MemoryTypeOK, Serving, NEW t \in Tenant
             PROVE  /\ LatestIn(file, t, ingested) = Latest(t)
                    /\ Of(file, t, ingested) = {k \in DOMAIN file : file[k].tenant = t}
  OBVIOUS
<1>1. DOMAIN file = 1..ingested BY LenProperties DEF MemoryTypeOK, Serving
<1>2. \A k : k \in Of(file, t, ingested) <=> k \in DOMAIN file /\ file[k].tenant = t
  BY <1>1 DEF Of
<1>3. \A j \in DOMAIN file :
        (\A m \in Of(file, t, ingested) : file[m].incident = file[j].incident => m <= j)
        <=> \A m \in DOMAIN file :
              file[m].tenant = t /\ file[m].incident = file[j].incident => m <= j
  BY <1>2
<1>4. {j \in Of(file, t, ingested) :
         \A m \in Of(file, t, ingested) : file[m].incident = file[j].incident => m <= j}
      = {j \in DOMAIN file :
           /\ file[j].tenant = t
           /\ \A m \in DOMAIN file :
                file[m].tenant = t /\ file[m].incident = file[j].incident => m <= j}
  BY <1>2, <1>3
<1>. QED BY <1>2, <1>4 DEF LatestIn, Latest

\* A search that does not raise gives the best; one that raises meets a record
\* of the index.
LEMMA Answers ==
  ASSUME NEW t, NEW q
  PROVE  /\ Search(t, q, TopK).ok => Search(t, q, TopK).matches = Best(index[t], q, TopK)
         /\ ~Search(t, q, TopK).ok => /\ Search(t, q, TopK).matches = <<>>
                                      /\ Raises(index[t], q)
BY DEF Search

LEMMA InvFinds == MemoryInv => LastWordFound
<1> SUFFICES ASSUME MemoryInv, Serving, NEW t \in Tenant, NEW q \in Lookup
             PROVE  LET answer == Search(t, q, TopK)
                        hits == answer.matches
                    IN  /\ ~answer.ok /\ clean =>
                             \E r \in Latest(t) : Weight(r, q) > 0 /\ Form[r.ts] = "naive"
                        /\ \A m \in DOMAIN hits :
                             /\ hits[m].tenant = t
                             /\ clean => hits[m] \in Latest(t)
                             /\ \A n \in 1..(m - 1) :
                                  /\ hits[n].incident # hits[m].incident
                                  /\ Form[hits[n].ts] = "garbled" => Form[hits[m].ts] = "garbled"
                                  /\ /\ Weight(hits[n], q) = Weight(hits[m], q)
                                     /\ Form[hits[m].ts] # "garbled"
                                     /\ Instant[hits[n].ts] < Instant[hits[m].ts]
                                     => Now <= Instant[hits[n].ts]
                        /\ \A r \in Contents(index[t]) :
                             answer.ok /\ Weight(r, q) > 0 => Len(hits) = TopK \/ r \in Contents(hits)
  BY DEF LastWordFound
<1>. DEFINE b == index[t]
            S == Scored(b, q)
            hits == Best(index[t], q, TopK)
<1>1. /\ MemoryTypeOK /\ \A k \in DOMAIN b : b[k].tenant = t
      /\ OneEach(b) /\ (clean => Kept(b, t, file, ingested))
  BY DEF MemoryInv
<1>2. /\ b \in Seq(Record) /\ DOMAIN hits \subseteq Nat
      /\ \A n \in DOMAIN hits : \E k \in S : ScoredPlace(b, q, k) = n /\ hits[n] = b[k]
      /\ \A k \in S : Len(hits) = TopK \/ b[k] \in Contents(hits)
  <2>1. LET c == index[t]
            T == Scored(c, q)
            found == Best(index[t], q, TopK)
        IN  /\ c \in Seq(Record)
            /\ DOMAIN found \subseteq Nat
            /\ \A n \in DOMAIN found : \E k \in T : ScoredPlace(c, q, k) = n /\ found[n] = c[k]
            /\ \A k \in T : Len(found) = TopK \/ c[k] \in Contents(found)
    BY <1>1, SearchGives, Zenon
  <2>. QED BY <2>1, Zenon
<1>3. DOMAIN hits = 1..(IF TopK < Cardinality(S) THEN TopK ELSE Cardinality(S)) BY DEF Best
<1>0. Raises(b, q) => \E k \in S : Form[b[k].ts] = "naive" BY DEF Raises
<1>. HIDE DEF b, hits
<1>4. \A k \in DOMAIN b : k \in S <=> Weight(b[k], q) > 0 BY DEF Scored
<1>5. /\ S \subseteq DOMAIN b
      /\ \A j, k \in S : ScoredPlace(b, q, j) < ScoredPlace(b, q, k) <=> Better(b, q, j, k)
      /\ Cardinality(S) \in Nat
  BY <1>2, Ranked
<1>. HIDE DEF S
<1>6. \A k \in DOMAIN b : b[k] \in Record /\ b[k].ts \in 1..MaxTs
  <2>1. \A k \in DOMAIN b : b[k] \in Record BY <1>2, RecordsOf
  <2>. QED BY <2>1 DEF Record, Ts
<1>7. ASSUME clean PROVE Contents(b) \subseteq Latest(t)
  BY <1>1, <1>7, AllIngested DEF Kept
<1>8. ASSUME NEW m \in DOMAIN hits PROVE hits[m].tenant = t /\ (clean => hits[m] \in Latest(t))
  <2>1. PICK k \in S : hits[m] = b[k] BY <1>2
  <2>. QED BY <1>1, <1>5, <1>7, <2>1 DEF Contents
<1>9. ASSUME NEW m \in DOMAIN hits, NEW n \in 1..(m - 1)
      PROVE  /\ hits[n].incident # hits[m].incident
             /\ Form[hits[n].ts] = "garbled" => Form[hits[m].ts] = "garbled"
             /\ /\ Weight(hits[n], q) = Weight(hits[m], q)
                /\ Form[hits[m].ts] # "garbled"
                /\ Instant[hits[n].ts] < Instant[hits[m].ts]
                => Now <= Instant[hits[n].ts]
  <2>1. m \in Nat /\ n \in DOMAIN hits /\ n < m
    <3>1. TopK \in Nat BY MemoryAssumption
    <3>. QED BY <1>2, <1>3, <1>5, <3>1
  <2>2. PICK k \in S : ScoredPlace(b, q, k) = m /\ hits[m] = b[k] BY <1>2
  <2>3. PICK j \in S : ScoredPlace(b, q, j) = n /\ hits[n] = b[j] BY <1>2, <2>1
  <2>4. j \in DOMAIN b /\ k \in DOMAIN b /\ Better(b, q, j, k) BY <1>5, <2>1, <2>2, <2>3
  <2>5. j # k BY <2>1, <2>2, <2>3
  <2>6. hits[n].incident # hits[m].incident BY <1>1, <2>2, <2>3, <2>4, <2>5 DEF OneEach
  <2>7. /\ b[j] \in Record /\ b[k] \in Record /\ Weight(b[j], q) > 0 /\ Weight(b[k], q) > 0
        /\ Score(b[j], q) \in Nat /\ Score(b[k], q) \in Nat
        /\ ~(Score(b[j], q) < Score(b[k], q))
    <3>1. /\ b[j] \in Record /\ b[k] \in Record /\ Weight(b[j], q) > 0 /\ Weight(b[k], q) > 0
      BY <1>4, <1>6, <2>2, <2>3, <2>4
    <3>2. Score(b[j], q) \in Nat /\ Score(b[k], q) \in Nat BY <3>1, ScoresDecay
    <3>. QED BY <2>4, <3>1, <3>2 DEF Better
  <2>8. ASSUME Weight(b[j], q) = Weight(b[k], q), Form[b[k].ts] # "garbled",
               Instant[b[j].ts] < Instant[b[k].ts]
        PROVE  Now <= Instant[b[j].ts]
    <3>1. ~(Instant[b[j].ts] < Now) BY <2>7, <2>8, ScoresDecay
    <3>2. Now \in Nat /\ Instant[b[j].ts] \in Nat BY <1>6, <2>4, MemoryAssumption
    <3>. QED BY <3>1, <3>2
  <2>9. Form[b[j].ts] = "garbled" => Form[b[k].ts] = "garbled" BY <2>7, ScoresDecay
  <2>. QED BY <2>2, <2>3, <2>6, <2>8, <2>9
<1>10. ASSUME NEW r \in Contents(b), Weight(r, q) > 0
       PROVE  Len(hits) = TopK \/ r \in Contents(hits)
  <2>1. PICK k \in DOMAIN b : r = b[k] BY DEF Contents
  <2>. QED BY <1>2, <1>4, <1>10, <2>1
<1>11. ASSUME Raises(b, q), clean
       PROVE  \E r \in Latest(t) : Weight(r, q) > 0 /\ Form[r.ts] = "naive"
  <2>1. PICK k \in S : Form[b[k].ts] = "naive" BY <1>0, <1>11
  <2>2. k \in DOMAIN b /\ Weight(b[k], q) > 0 BY <1>4, <1>5, <2>1
  <2>3. b[k] \in Latest(t) BY <1>7, <1>11, <2>2 DEF Contents
  <2>. QED BY <2>1, <2>2, <2>3
<1>. DEFINE answer == Search(t, q, TopK)
<1>12. /\ answer.ok => answer.matches = hits
       /\ ~answer.ok => answer.matches = <<>> /\ Raises(b, q)
  BY Answers DEF b, hits
<1>. HIDE DEF answer
<1>13. CASE answer.ok BY <1>8, <1>9, <1>10, <1>12, <1>13 DEF answer, b
<1>14. CASE ~answer.ok
  <2>1. answer.matches = <<>> /\ Raises(b, q) BY <1>12, <1>14
  <2>2. DOMAIN answer.matches = {} BY <2>1
  <2>. QED BY <1>11, <1>14, <2>1, <2>2 DEF answer, b
<1>. QED BY <1>13, <1>14

\* As many records as positions.
LEMMA AsManyAsPlaces ==
  ASSUME NEW b \in Seq(Record), OneEach(b)
  PROVE  IsFiniteSet(Contents(b)) /\ Cardinality(Contents(b)) = Len(b)
<1>1. IsFiniteSet(DOMAIN b) /\ Cardinality(DOMAIN b) = Len(b) BY RecordsOf
<1>2. b \in [DOMAIN b -> Contents(b)]
  <2>1. b = [k \in DOMAIN b |-> b[k]] BY SeqDef
  <2>. QED BY <2>1 DEF Contents
<1>3. b \in Surjection(DOMAIN b, Contents(b)) BY <1>2 DEF Surjection, Contents
<1>4. b \in Injection(DOMAIN b, Contents(b)) BY <1>2 DEF Injection, IsInjective, OneEach
<1>. QED BY <1>1, <1>3, <1>4, FS_Surjection

LEMMA LatestFinite ==
  ASSUME file \in Seq(Record), NEW t
  PROVE  IsFiniteSet(Latest(t))
<1>. DEFINE all == DOMAIN file
            f == [k \in all |-> file[k]]
            seen == {file[k] : k \in all}
<1>1. IsFiniteSet(all) BY RecordsOf
<1>2. f \in Surjection(all, seen) BY DEF Surjection
<1>3. Latest(t) \in SUBSET seen BY DEF Latest
<1>. HIDE DEF f, all, seen
<1>4. IsFiniteSet(seen) BY <1>1, <1>2, FS_Surjection
<1>. QED BY <1>3, <1>4, FS_Subset

LEMMA InvKeepsRecent == MemoryInv => MostRecentKept
<1> SUFFICES ASSUME MemoryInv, Serving, clean, NEW t \in Tenant, Chronological(t)
             PROVE  LET kept == Contents(index[t])
                        current == Cardinality(Latest(t))
                    IN  /\ kept \subseteq Latest(t)
                        /\ Cardinality(kept) = IF current < MaxRecords THEN current ELSE MaxRecords
                        /\ \A r \in kept, q \in Latest(t) \ kept : q.ts <= r.ts
  BY DEF MostRecentKept
<1>. DEFINE b == index[t]
            kept == Contents(b)
            current == Cardinality(Latest(t))
<1>1. MemoryTypeOK /\ b \in Seq(Record) /\ Len(b) <= MaxRecords /\ OneEach(b) /\ Kept(b, t, file, ingested)
  BY DEF MemoryInv, MemoryTypeOK
<1>2. InOrder(file, t, ingested) BY <1>1, AllIngested DEF Chronological, InOrder
<1>3. LatestIn(file, t, ingested) = Latest(t) BY <1>1, AllIngested
<1>. HIDE DEF b
<1>4. /\ kept \subseteq Latest(t)
      /\ kept = Latest(t) \/ Len(b) = MaxRecords
      /\ \A r \in kept, q \in Latest(t) \ kept : q.ts <= r.ts
  BY <1>1, <1>2, <1>3 DEF Kept
<1>5. IsFiniteSet(kept) /\ Cardinality(kept) = Len(b) /\ Len(b) \in Nat BY <1>1, AsManyAsPlaces, RecordsOf
<1>. HIDE DEF kept
<1>6. IsFiniteSet(Latest(t)) BY <1>1, LatestFinite DEF MemoryTypeOK
<1>7. current \in Nat /\ Cardinality(kept) <= current BY <1>4, <1>6, FS_Subset, FS_CardinalityType
<1>8. MaxRecords \in Nat BY MemoryAssumption
<1>9. Cardinality(kept) = IF current < MaxRecords THEN current ELSE MaxRecords
  BY <1>1, <1>4, <1>5, <1>7, <1>8
<1>. QED BY <1>4, <1>9 DEF kept, b

\* Only a last version whose time has no offset may break a search; else it gives
\* the tenant's own records, one version of an incident, the last if no append or
\* load has failed, finds what matches, puts newer ones first among equals and
\* those whose time cannot be read last.
THEOREM LastWords == MemorySpec => []LastWordFound
BY MemoryHolds, InvFinds, PTL

\* Where a tenant's timestamps never go back and no append or load has failed,
\* its index holds the newest records, as many as fit.
THEOREM RecentKept == MemorySpec => []MostRecentKept
BY MemoryHolds, InvKeepsRecent, PTL

\* What a reload makes of the file is what the calls have made of the index: where
\* a tenant's timestamps go up, and no two of its incidents have the same, both
\* are the newest of the last versions, whatever the calls and restarts before.
Newest(t) ==
  {r \in Latest(t) : Cardinality({q \in Latest(t) : q.ts > r.ts}) < MaxRecords}

IndexFollowsFile ==
  Serving /\ clean => \A t \in {u \in Tenant : Chronological(u)} :
    (\A q, r \in Latest(t) : q.ts = r.ts => q = r) => Contents(index[t]) = Newest(t)

LEMMA InvFollowsFile == MemoryInv => IndexFollowsFile
<1> SUFFICES ASSUME MemoryInv, Serving, clean, NEW t \in Tenant, Chronological(t),
                    \A q, r \in Latest(t) : q.ts = r.ts => q = r
             PROVE  Contents(index[t]) = Newest(t)
  BY DEF IndexFollowsFile
<1>. DEFINE kept == Contents(index[t])
            all == Latest(t)
            Over(r) == {q \in all : q.ts > r.ts}
<1>1. /\ kept \subseteq all
      /\ Cardinality(kept) = IF Cardinality(all) < MaxRecords THEN Cardinality(all) ELSE MaxRecords
      /\ \A r \in kept, q \in all \ kept : q.ts <= r.ts
  BY InvKeepsRecent DEF MostRecentKept
<1>2. IsFiniteSet(all) /\ \A r \in all : r.ts \in Int
  <2>1. file \in Seq(Record) BY DEF MemoryInv, MemoryTypeOK
  <2>. QED BY <2>1, LatestFinite, RecordsOf DEF Latest
<1>. HIDE DEF kept, all
<1>3. IsFiniteSet(kept) /\ Cardinality(kept) \in Nat /\ Cardinality(all) \in Nat /\ MaxRecords \in Nat
  BY <1>1, <1>2, FS_Subset, FS_CardinalityType, MemoryAssumption
<1>4. \A r \in all : IsFiniteSet(Over(r)) /\ Cardinality(Over(r)) \in Nat
  <2> TAKE r \in all
  <2>1. Over(r) \in SUBSET all OBVIOUS
  <2>. QED BY <1>2, <2>1, FS_Subset, FS_CardinalityType
<1>5. ASSUME NEW r \in kept PROVE Cardinality(Over(r)) < MaxRecords
  <2>1. r \in all BY <1>1
  <2>2. CASE Cardinality(all) < MaxRecords
    <3>1. Over(r) \in SUBSET all OBVIOUS
    <3>2. Cardinality(Over(r)) <= Cardinality(all) BY <1>2, <3>1, FS_Subset
    <3>. QED BY <1>3, <1>4, <2>1, <2>2, <3>2
  <2>3. CASE ~(Cardinality(all) < MaxRecords)
    <3>1. Over(r) \in SUBSET kept /\ r \in kept /\ r \notin Over(r) BY <1>1, <1>2, <2>1
    <3>2. Cardinality(Over(r)) <= Cardinality(kept) /\ Cardinality(Over(r)) # Cardinality(kept)
      BY <1>3, <3>1, FS_Subset
    <3>. QED BY <1>1, <1>3, <1>4, <2>1, <2>3, <3>2
  <2>. QED BY <2>2, <2>3
<1>6. ASSUME NEW r \in all \ kept PROVE ~(Cardinality(Over(r)) < MaxRecords)
  <2>1. kept \in SUBSET Over(r)
    <3>1. ASSUME NEW x \in kept PROVE x.ts > r.ts
      <4>1. r.ts <= x.ts /\ x \in all /\ x # r BY <1>1
      <4>2. r.ts # x.ts BY <4>1 DEF all
      <4>. QED BY <1>2, <4>1, <4>2
    <3>. QED BY <1>1, <3>1
  <2>2. Cardinality(kept) <= Cardinality(Over(r)) BY <1>4, <2>1, FS_Subset
  <2>3. ~(Cardinality(all) < MaxRecords)
    <3>1. kept \in SUBSET all /\ kept # all BY <1>1
    <3>2. Cardinality(all) # Cardinality(kept) BY <1>2, <3>1, FS_Subset
    <3>. QED BY <1>1, <1>3, <3>2
  <2>. QED BY <1>1, <1>3, <1>4, <2>2, <2>3
<1>7. \A r : r \in Newest(t) <=> r \in all /\ Cardinality(Over(r)) < MaxRecords BY DEF Newest, all
<1>. QED BY <1>1, <1>5, <1>6, <1>7 DEF kept

\* Whatever was added, torn by a crash or loaded again: _load and memory_add leave a
\* tenant the same records of the same file.
THEOREM ReloadAgrees == MemorySpec => []IndexFollowsFile
BY MemoryHolds, InvFollowsFile, PTL

-----------------------------------------------------------------------------
(* The audit log.                                                          *)

\* A call has one line in the log, from its write on, and none before.
OneLine ==
  /\ \A i \in DOMAIN content[log] : pc[content[log][i].rec] \in {"closing", "done", "died"}
  /\ \A i, j \in DOMAIN content[log] : content[log][i].rec = content[log][j].rec => i = j
  /\ \A w \in Writer : pc[w] \in {"closing", "done"} =>
       \E i \in DOMAIN content[log] : content[log][i].rec = w

\* A call at work has the log open, not a file that it has replaced.
AtLog == \A w \in Writer :
  /\ Active(w) => pc[w] \in {"locking", "writing", "closing"} /\ fd[w] = log
  /\ pc[w] = "locking" => w \in Locking

\* The temp file is not the log, and a file that is still to be made is neither.
Apart == /\ log # tmp
         /\ \A a \in Annotator : pc[a] \in {"idle", "opening"} => a \notin {log, tmp}

\* What an annotation at work has read is what is in the log; what it has
\* written is that with its note.
Working == \A a \in Annotator : Active(a) =>
  /\ pc[a] \in {"opening", "rewriting", "replacing"}
  /\ copy[a] = content[log]
  /\ \E i \in DOMAIN content[log] : content[log][i].rec = Target[a]
  /\ pc[a] # "opening" => fd[a] = tmp /\ tmp # None
  /\ pc[a] = "rewriting" => content[tmp] = <<>>
  /\ pc[a] = "replacing" => content[tmp] = Annotated(content[log], a)

\* A note that was answered ok is on the line of its record.
Noted == \A a \in Annotator : pc[a] = "done" =>
  \E i \in DOMAIN content[log] : content[log][i].rec = Target[a] /\ a \in content[log][i].notes

Stamped == \A w \in Writer : stamp[w] <= clock

\* What the client is still to see is on a page that it has not had.
StillAhead == \A w \in pager.due \ pager.seen :
  \E i \in Loaded : content[log][i].rec = w /\ pager.offset <= Rank(i, Matched(All))

LogInv == TypeOK /\ AnnotatesAlone /\ OneLine /\ AtLog /\ Apart /\ Working /\ Noted
QInv == QTypeOK /\ LogInv /\ Stamped /\ StillAhead /\ PagerSeesAll

USE ConstantsAssumption

-----------------------------------------------------------------------------
\* An annotation changes neither the number nor the records of the lines, drops
\* no note, and is on the line of its record.
LEMMA AnnotatedLines ==
  ASSUME NEW lines \in Seq(Line), NEW a \in Annotator
  PROVE  LET new == Annotated(lines, a)
         IN  /\ new \in Seq(Line) /\ DOMAIN new = DOMAIN lines
             /\ \A i \in DOMAIN lines :
                  /\ new[i].rec = lines[i].rec /\ lines[i].notes \subseteq new[i].notes
                  /\ lines[i].rec = Target[a] => a \in new[i].notes
<1>. DEFINE new == Annotated(lines, a)
<1>1. Len(lines) \in Nat /\ DOMAIN lines = 1..Len(lines) /\ \A i \in DOMAIN lines : lines[i] \in Line
  BY LenProperties, ElementOfSeq
<1>2. ASSUME NEW i \in DOMAIN lines
      PROVE  /\ new[i] \in Line
             /\ new[i].rec = lines[i].rec /\ lines[i].notes \subseteq new[i].notes
             /\ lines[i].rec = Target[a] => a \in new[i].notes
  <2>1. lines[i] \in Line BY <1>1
  <2>2. CASE lines[i].rec = Target[a]
    <3>1. new[i] = [lines[i] EXCEPT !.notes = @ \cup {a}] BY <2>2 DEF Annotated
    <3>. QED BY <2>1, <3>1 DEF Line
  <2>3. CASE lines[i].rec # Target[a]
    <3>1. new[i] = lines[i] BY <2>3 DEF Annotated
    <3>. QED BY <2>1, <2>3, <3>1
  <2>. QED BY <2>2, <2>3
<1>3. DOMAIN new = DOMAIN lines BY DEF Annotated
<1>4. new \in [1..Len(lines) -> Line]
  <2>1. new = [i \in DOMAIN new |-> new[i]] BY DEF Annotated
  <2>. HIDE DEF new
  <2>. QED BY <1>1, <1>2, <1>3, <2>1
<1>5. new \in Seq(Line)
  <2>. HIDE DEF new
  <2>. QED BY <1>1, <1>4, SeqDef
<1>. QED BY <1>2, <1>3, <1>5

\* While an annotation works, nothing else does.
LEMMA AloneAtWork ==
  ASSUME AnnotatesAlone, NEW a \in Annotator, Active(a), NEW p \in Process, p # a
  PROVE  ~Active(p)
BY DEF AnnotatesAlone

\* While a call writes, nothing is annotated.
LEMMA NoneAnnotates ==
  ASSUME AnnotatesAlone, NEW w \in Writer, Active(w), NEW a \in Annotator
  PROVE  ~Active(a)
BY DEF AnnotatesAlone, Process

-----------------------------------------------------------------------------
(* The types.                                                              *)

LEMMA ReleasedType ==
  ASSUME TypeOK, NEW p \in Process
  PROVE  /\ Released(p) \in [Inode -> Locking \cup {None}]
         /\ \A i \in Inode : Released(p)[i] # None => Released(p)[i] = holder[i] /\ holder[i] # p
BY DEF TypeOK, Released

LEMMA WritersTypes ==
  ASSUME TypeOK, AtLog, NEW w \in Writer, Open(w) \/ Lock(w) \/ Write(w) \/ Close(w)
  PROVE  TypeOK'
<1>0. w \in Process BY DEF Process
<1>1. CASE Open(w)
  <2>1. \A i \in Inode : holder[i] # None => holder[i] # w BY <1>1 DEF Open, TypeOK
  <2>. QED BY <1>0, <1>1, <2>1 DEF Open, Goto, TypeOK, Process
<1>2. CASE Lock(w)
  <2>1. fd[w] = log /\ w \in Locking BY <1>2 DEF Lock, AtLog, Active, Ended
  <2>2. holder[log] = None BY <1>2, <2>1 DEF Lock
  <2>3. holder' = [holder EXCEPT ![log] = w] /\ pc' = [pc EXCEPT ![w] = "writing"]
    BY <1>2, <2>1 DEF Lock, Goto
  <2>4. UNCHANGED <<content, log, tmp, fd, copy>> BY <1>2 DEF Lock
  <2>. QED BY <1>0, <2>1, <2>2, <2>3, <2>4 DEF TypeOK
<1>3. CASE Write(w)
  <2>1. fd[w] = log BY <1>3 DEF Write, AtLog, Active, Ended
  <2>2. [rec |-> w, notes |-> {}] \in Line BY DEF Line
  <2>3. Append(content[log], [rec |-> w, notes |-> {}]) \in Seq(Line)
    BY <2>2, AppendProperties DEF TypeOK
  <2>. QED BY <1>0, <1>3, <2>1, <2>3 DEF Write, Goto, TypeOK
<1>4. CASE Close(w) BY <1>0, <1>4, ReleasedType DEF Close, Goto, TypeOK, Ended
<1>. QED BY <1>1, <1>2, <1>3, <1>4

LEMMA AnnotatorsTypes ==
  ASSUME TypeOK, Working, NEW a \in Annotator, Read(a) \/ OpenTmp(a) \/ Rewrite(a) \/ Replace(a)
  PROVE  TypeOK'
<1>0. a \in Process /\ a \in Inode BY DEF Process, Inode
<1>a. \A i \in Inode : holder[i] # None => holder[i] # a BY DEF TypeOK, Writer
<1>1. CASE Read(a) BY <1>0, <1>a, <1>1 DEF Read, Goto, TypeOK, Ended
<1>2. CASE OpenTmp(a)
  <2>1. PICK inode \in Inode : /\ tmp' = inode /\ fd' = [fd EXCEPT ![a] = inode]
                               /\ content' = [content EXCEPT ![inode] = <<>>]
    BY <1>0, <1>2 DEF OpenTmp, TypeOK
  <2>2. <<>> \in Seq(Line) BY EmptySeq
  <2>3. UNCHANGED <<log, holder, copy>> /\ Goto(a, "rewriting") BY <1>2 DEF OpenTmp
  <2>. QED BY <1>0, <1>a, <2>1, <2>2, <2>3 DEF Goto, TypeOK
<1>3. CASE Rewrite(a)
  <2>1. fd[a] \in Inode /\ content[fd[a]] = <<>> /\ copy[a] = content[log]
    <3>1. pc[a] = "rewriting" BY <1>3 DEF Rewrite
    <3>2. fd[a] = tmp /\ tmp # None /\ content[tmp] = <<>> /\ copy[a] = content[log]
      BY <3>1 DEF Working, Active, Ended
    <3>. QED BY <3>2 DEF TypeOK
  <2>2. Annotated(copy[a], a) \in Seq(Line) BY AnnotatedLines DEF TypeOK
  <2>3. Overlay(Annotated(copy[a], a), content[fd[a]]) \in Seq(Line)
    <3>. DEFINE new == Annotated(copy[a], a)
    <3>1. SubSeq(<<>>, Len(new) + 1, Len(<<>>)) = <<>>
      BY <2>2, LenProperties, EmptySeq, SubSeqEmpty
    <3>. QED BY <2>1, <2>2, <3>1, ConcatEmptySeq DEF Overlay
  <2>. QED BY <1>0, <1>a, <1>3, <2>1, <2>3 DEF Rewrite, Goto, TypeOK
<1>4. CASE Replace(a)
  <2>1. UNCHANGED <<content, holder, fd, copy>> BY <1>4 DEF Replace
  <2>2. PICK where \in Ended : pc' = [pc EXCEPT ![a] = where]
    BY <1>4 DEF Replace, Goto, Ended
  <2>3. log' \in Inode /\ tmp' \in Inode \cup {None} BY <1>4 DEF Replace, TypeOK
  <2>. QED BY <1>0, <1>a, <2>1, <2>2, <2>3 DEF TypeOK
<1>. QED BY <1>1, <1>2, <1>3, <1>4

LEMMA DeathTypes ==
  ASSUME TypeOK, NEW p \in Process, Die(p)
  PROVE  TypeOK'
BY ReleasedType DEF Die, Goto, TypeOK, Ended
-----------------------------------------------------------------------------
(* What each call keeps of the rest.                                       *)

Rest == OneLine /\ AtLog /\ Apart /\ Working /\ Noted

LEMMA OpenKeeps ==
  ASSUME LogInv, AnnotatesAlone', TypeOK', NEW w \in Writer, Open(w)
  PROVE  Rest'
<1>0. w \in Process /\ w \notin Annotator BY DEF Process
<1>1. /\ UNCHANGED <<content, log, tmp, copy>> /\ pc[w] = "idle"
      /\ fd' = [fd EXCEPT ![w] = log]
  BY DEF Open
<1>2. PICK where \in {"locking", "writing"} :
        pc' = [pc EXCEPT ![w] = where] /\ (where = "locking" => w \in Locking)
  BY DEF Open, Goto
<1>3. \A p \in Process \ {w} : pc'[p] = pc[p] /\ fd'[p] = fd[p] BY <1>1, <1>2
<1>4. pc'[w] = where /\ fd'[w] = log BY <1>0, <1>1, <1>2 DEF LogInv, TypeOK
<1>5. \A i \in DOMAIN content[log] : content[log][i].rec \in Writer /\ content[log][i].rec # w
  <2> TAKE i \in DOMAIN content[log]
  <2>1. content[log][i] \in Line BY DEF LogInv, TypeOK
  <2>. QED BY <1>1, <2>1 DEF Line, LogInv, OneLine
<1>6. OneLine' BY <1>1, <1>3, <1>4, <1>5 DEF LogInv, OneLine, Process
<1>7. AtLog' BY <1>1, <1>2, <1>3, <1>4 DEF LogInv, AtLog, Active, Process
<1>8. Apart' BY <1>0, <1>1, <1>3 DEF LogInv, Apart, Process
<1>9. Working'
  <2>1. Active(w)' BY <1>4 DEF Active, Ended
  <2>. QED BY <2>1, NoneAnnotates DEF Working, AnnotatesAlone, Active, Process
<1>10. Noted' BY <1>0, <1>1, <1>3 DEF LogInv, Noted, Process
<1>. QED BY <1>6, <1>7, <1>8, <1>9, <1>10 DEF Rest

\* Steps that change neither the log nor the place of an annotation.
LEMMA MovesKeep ==
  ASSUME LogInv, TypeOK', NEW p \in Process, NEW where \in {"writing", "done", "died"},
         UNCHANGED <<content, log, tmp, fd, copy>>, pc' = [pc EXCEPT ![p] = where],
         where = "writing" => p \in Locking /\ pc[p] = "locking",
         where = "done" => p \in Writer /\ pc[p] = "closing",
         where = "died" => Active(p)
  PROVE  Rest'
<1>1. \A q \in Process \ {p} : pc'[q] = pc[q] OBVIOUS
<1>2. pc'[p] = where BY DEF LogInv, TypeOK
<1>3. \A i \in DOMAIN content[log] : content[log][i].rec \in Process
  <2> TAKE i \in DOMAIN content[log]
  <2>1. content[log][i] \in Line BY DEF LogInv, TypeOK
  <2>. QED BY <2>1 DEF Line, Process
<1>4. OneLine'
  <2>1. \A i \in DOMAIN content[log] : pc'[content[log][i].rec] \in {"closing", "done", "died"}
    BY <1>1, <1>2, <1>3 DEF LogInv, OneLine
  <2>2. \A w \in Writer : pc'[w] \in {"closing", "done"} => pc[w] \in {"closing", "done"}
    BY <1>1, <1>2 DEF Process
  <2>. QED BY <2>1, <2>2 DEF LogInv, OneLine
<1>5. AtLog' BY <1>1, <1>2 DEF LogInv, AtLog, Active, Ended, Process, Writer
<1>6. Apart' BY <1>1, <1>2 DEF LogInv, Apart, Process
<1>7. ASSUME NEW a \in Annotator PROVE pc'[a] \notin Ended => pc'[a] = pc[a]
  BY <1>1, <1>2 DEF Ended, Process, Writer
<1>8. Working'
  <2> SUFFICES ASSUME NEW a \in Annotator, Active(a)'
               PROVE  pc'[a] = pc[a]
    BY DEF LogInv, Working, Active
  <2>. QED BY <1>7 DEF Active
<1>9. Noted'
  <2> SUFFICES ASSUME NEW a \in Annotator, pc'[a] = "done"
               PROVE  pc[a] = "done"
    BY DEF LogInv, Noted
  <2>. QED BY <1>1, <1>2 DEF Process
<1>. QED BY <1>4, <1>5, <1>6, <1>8, <1>9 DEF Rest

LEMMA WriteKeeps ==
  ASSUME LogInv, TypeOK', NEW w \in Writer, Write(w)
  PROVE  /\ Rest' /\ log' = log
         /\ content'[log] = Append(content[log], [rec |-> w, notes |-> {}])
<1>. DEFINE line == [rec |-> w, notes |-> {}]
<1>0. w \in Process BY DEF Process
<1>1. UNCHANGED <<log, tmp, fd, copy>> /\ pc[w] = "writing" BY DEF Write
<1>2. fd[w] = log /\ log \in Inode /\ content[log] \in Seq(Line) /\ line \in Line
  <2>1. fd[w] = log BY <1>1 DEF LogInv, AtLog, Active, Ended
  <2>2. line \in Line BY DEF Line
  <2>. QED BY <2>1, <2>2 DEF LogInv, TypeOK
<1>3. content' = [content EXCEPT ![log] = Append(@, line)] /\ pc' = [pc EXCEPT ![w] = "closing"]
  BY <1>2 DEF Write, Goto
<1>4. \A p \in Process \ {w} : pc'[p] = pc[p] BY <1>3
<1>5. pc'[w] = "closing" BY <1>0, <1>3 DEF LogInv, TypeOK
<1>6. content'[log] = Append(content[log], line) BY <1>2, <1>3 DEF LogInv, TypeOK
<1>7. /\ DOMAIN content'[log] = DOMAIN content[log] \cup {Len(content[log]) + 1}
      /\ \A i \in DOMAIN content[log] : content'[log][i] = content[log][i]
      /\ content'[log][Len(content[log]) + 1] = line
      /\ Len(content[log]) + 1 \notin DOMAIN content[log]
  BY <1>2, <1>6
<1>8. \A i \in DOMAIN content[log] : content[log][i].rec \in Writer /\ content[log][i].rec # w
  <2> TAKE i \in DOMAIN content[log]
  <2>1. content[log][i] \in Line BY <1>2
  <2>. QED BY <1>1, <2>1 DEF Line, LogInv, OneLine
<1>. HIDE DEF line
<1>9. line.rec = w BY DEF line
<1>10. OneLine'
  <2>1. \A i \in DOMAIN content'[log] : pc'[content'[log][i].rec] \in {"closing", "done", "died"}
    BY <1>4, <1>5, <1>7, <1>8, <1>9 DEF LogInv, OneLine, Process
  <2>2. \A i, j \in DOMAIN content'[log] : content'[log][i].rec = content'[log][j].rec => i = j
    BY <1>7, <1>8, <1>9 DEF LogInv, OneLine
  <2>3. \A v \in Writer : pc'[v] \in {"closing", "done"} =>
          \E i \in DOMAIN content'[log] : content'[log][i].rec = v
    BY <1>4, <1>7, <1>9 DEF LogInv, OneLine, Process
  <2>. QED BY <1>1, <2>1, <2>2, <2>3 DEF OneLine
<1>11. AtLog' BY <1>1, <1>2, <1>4, <1>5 DEF LogInv, AtLog, Active, Process
<1>12. \A a \in Annotator : pc'[a] = pc[a] BY <1>4 DEF Process
<1>13. Apart' BY <1>1, <1>12 DEF LogInv, Apart
<1>14. Working'
  <2>1. Active(w) BY <1>1 DEF Active, Ended
  <2>. QED BY <1>12, <2>1, NoneAnnotates DEF Working, LogInv, Active
<1>15. Noted' BY <1>1, <1>7, <1>12 DEF LogInv, Noted
<1>. QED BY <1>1, <1>6, <1>10, <1>11, <1>13, <1>14, <1>15 DEF Rest, line

\* An annotation's own steps, up to the one that replaces the log.
LEMMA ReadKeeps ==
  ASSUME LogInv, TypeOK', NEW a \in Annotator, Read(a)
  PROVE  Rest' /\ log' = log /\ content' = content
<1>0. a \in Process BY DEF Process
<1>1. /\ UNCHANGED <<content, log, tmp, fd>> /\ pc[a] = "idle"
      /\ copy' = [copy EXCEPT ![a] = content[log]]
  BY DEF Read
<1>2. PICK where \in {"opening", "refused"} :
        /\ pc' = [pc EXCEPT ![a] = where]
        /\ where = "opening" => \E i \in DOMAIN content[log] : content[log][i].rec = Target[a]
  BY DEF Read, Goto
<1>3. \A p \in Process \ {a} : pc'[p] = pc[p] BY <1>2
<1>4. pc'[a] = where BY <1>0, <1>2 DEF LogInv, TypeOK
<1>5. \A w \in Writer : w \in Process \ {a} BY DEF Process
<1>6. \A i \in DOMAIN content[log] : content[log][i].rec \in Writer
  <2> TAKE i \in DOMAIN content[log]
  <2>1. content[log][i] \in Line BY DEF LogInv, TypeOK
  <2>. QED BY <2>1 DEF Line
<1>7. OneLine' BY <1>1, <1>3, <1>5, <1>6 DEF LogInv, OneLine
<1>8. AtLog' BY <1>1, <1>3, <1>5 DEF LogInv, AtLog, Active
<1>9. Apart' BY <1>1, <1>3, <1>4 DEF LogInv, Apart, Process
<1>10. Working'
  <2> SUFFICES ASSUME NEW b \in Annotator, Active(b)'
               PROVE  /\ pc'[b] \in {"opening", "rewriting", "replacing"}
                      /\ copy'[b] = content[log]
                      /\ \E i \in DOMAIN content[log] : content[log][i].rec = Target[b]
                      /\ pc'[b] # "opening" => fd[b] = tmp /\ tmp # None
                      /\ pc'[b] = "rewriting" => content[tmp] = <<>>
                      /\ pc'[b] = "replacing" => content[tmp] = Annotated(content[log], b)
    BY <1>1, Zenon DEF Working
  <2>1. CASE b = a
    <3>1. copy'[a] = content[log] BY <1>1 DEF LogInv, TypeOK
    <3>2. pc'[a] = "opening" BY <1>4, <2>1 DEF Active, Ended
    <3>. QED BY <1>2, <1>4, <2>1, <3>1, <3>2
  <2>2. CASE b # a
    <3>1. pc'[b] = pc[b] /\ copy'[b] = copy[b] BY <1>1, <1>3, <2>2 DEF Process
    <3>. QED BY <3>1 DEF LogInv, Working, Active
  <2>. QED BY <2>1, <2>2
<1>11. Noted' BY <1>1, <1>3, <1>4 DEF LogInv, Noted, Process
<1>. QED BY <1>1, <1>7, <1>8, <1>9, <1>10, <1>11 DEF Rest

\* A step of an annotation at work that leaves the log's lines alone.
LEMMA TempKeeps ==
  ASSUME LogInv, TypeOK', NEW a \in Annotator, Active(a),
         NEW where \in {"rewriting", "replacing"}, pc' = [pc EXCEPT ![a] = where],
         log' = log, content'[log] = content[log], copy' = copy,
         tmp' = fd'[a], tmp' \in Inode, tmp' # log,
         tmp' \in {a, tmp}, \A w \in Writer : fd'[w] = fd[w],
         where = "rewriting" => content'[tmp'] = <<>>,
         where = "replacing" => content'[tmp'] = Annotated(content[log], a)
  PROVE  Rest'
<1>0. a \in Process BY DEF Process
<1>3. \A p \in Process \ {a} : pc'[p] = pc[p] OBVIOUS
<1>4. pc'[a] = where BY <1>0 DEF LogInv, TypeOK
<1>5. \A w \in Writer : w \in Process \ {a} BY DEF Process
<1>6. \A i \in DOMAIN content[log] : content[log][i].rec \in Writer
  <2> TAKE i \in DOMAIN content[log]
  <2>1. content[log][i] \in Line BY DEF LogInv, TypeOK
  <2>. QED BY <2>1 DEF Line
<1>7. OneLine' BY <1>3, <1>5, <1>6 DEF LogInv, OneLine
<1>8. AtLog' BY <1>3, <1>5 DEF LogInv, AtLog, Active
<1>9. Apart' BY <1>3, <1>4 DEF LogInv, Apart, Process
<1>10. Working'
  <2> SUFFICES ASSUME NEW b \in Annotator, Active(b)'
               PROVE  /\ pc'[b] \in {"opening", "rewriting", "replacing"}
                      /\ copy'[b] = content'[log']
                      /\ \E i \in DOMAIN content'[log'] : content'[log'][i].rec = Target[b]
                      /\ pc'[b] # "opening" => fd'[b] = tmp' /\ tmp' # None
                      /\ pc'[b] = "rewriting" => content'[tmp'] = <<>>
                      /\ pc'[b] = "replacing" => content'[tmp'] = Annotated(content'[log'], b)
    BY Zenon DEF Working
  <2>1. b = a
    <3>1. b \in Process BY DEF Process
    <3>. QED BY <1>3, <3>1, AloneAtWork DEF LogInv, Active
  <2>2. copy[a] = content[log] /\ \E i \in DOMAIN content[log] : content[log][i].rec = Target[a]
    BY DEF LogInv, Working
  <2>3. tmp' # None BY DEF Process
  <2>. QED BY <1>4, <2>1, <2>2, <2>3
<1>11. Noted' BY <1>3, <1>4 DEF LogInv, Noted, Process
<1>. QED BY <1>7, <1>8, <1>9, <1>10, <1>11 DEF Rest

LEMMA OpenTmpKeeps ==
  ASSUME LogInv, TypeOK', NEW a \in Annotator, OpenTmp(a)
  PROVE  Rest' /\ log' = log /\ content'[log] = content[log]
<1>0. a \in Process /\ a \in Inode BY DEF Process, Inode
<1>1. PICK inode \in Inode : /\ inode \in {a, tmp} /\ tmp' = inode
                             /\ fd' = [fd EXCEPT ![a] = inode]
                             /\ content' = [content EXCEPT ![inode] = <<>>]
  BY <1>0 DEF OpenTmp, LogInv, TypeOK
<1>2. UNCHANGED <<log, holder, copy>> /\ pc[a] = "opening" /\ pc' = [pc EXCEPT ![a] = "rewriting"]
  BY DEF OpenTmp, Goto
<1>3. inode # log BY <1>1, <1>2 DEF LogInv, Apart
<1>4. content'[log] = content[log] /\ content'[inode] = <<>> /\ fd'[a] = inode
  BY <1>0, <1>1, <1>3 DEF LogInv, TypeOK
<1>5. \A w \in Writer : fd'[w] = fd[w] BY <1>1
<1>6. Active(a) BY <1>2 DEF Active, Ended
<1>7. Rest' BY <1>1, <1>2, <1>3, <1>4, <1>5, <1>6, TempKeeps
<1>. QED BY <1>2, <1>4, <1>7

LEMMA RewriteKeeps ==
  ASSUME LogInv, TypeOK', NEW a \in Annotator, Rewrite(a)
  PROVE  Rest' /\ log' = log /\ content'[log] = content[log]
<1>1. UNCHANGED <<log, tmp, holder, fd, copy>> /\ pc[a] = "rewriting" /\ pc' = [pc EXCEPT ![a] = "replacing"]
  BY DEF Rewrite, Goto
<1>2. Active(a) BY <1>1 DEF Active, Ended
<1>3. fd[a] = tmp /\ tmp \in Inode /\ content[tmp] = <<>> /\ copy[a] = content[log]
  <2>1. fd[a] = tmp /\ tmp # None /\ content[tmp] = <<>> /\ copy[a] = content[log]
    BY <1>1, <1>2 DEF LogInv, Working
  <2>. QED BY <2>1 DEF LogInv, TypeOK
<1>4. Annotated(content[log], a) \in Seq(Line) BY AnnotatedLines DEF LogInv, TypeOK
<1>5. Overlay(Annotated(content[log], a), <<>>) = Annotated(content[log], a)
  <2>. DEFINE new == Annotated(content[log], a)
  <2>1. SubSeq(<<>>, Len(new) + 1, Len(<<>>)) = <<>>
    BY <1>4, LenProperties, EmptySeq, SubSeqEmpty
  <2>. QED BY <1>4, <2>1, ConcatEmptySeq DEF Overlay
<1>6. content' = [content EXCEPT ![tmp] = Annotated(content[log], a)]
  BY <1>3, <1>5 DEF Rewrite
<1>7. content'[log] = content[log] /\ content'[tmp] = Annotated(content[log], a) /\ tmp # log
  BY <1>3, <1>6 DEF LogInv, TypeOK, Apart
<1>8. Rest' BY <1>1, <1>2, <1>3, <1>7, TempKeeps
<1>. QED BY <1>1, <1>7, <1>8

LEMMA ReplaceKeeps ==
  ASSUME LogInv, TypeOK', NEW a \in Annotator, Replace(a)
  PROVE  Rest' /\ content'[log'] = Annotated(content[log], a)
<1>. DEFINE new == Annotated(content[log], a)
<1>0. a \in Process BY DEF Process
<1>1. UNCHANGED <<content, holder, fd, copy>> /\ pc[a] = "replacing" BY DEF Replace
<1>2. Active(a) BY <1>1 DEF Active, Ended
<1>3. tmp # None /\ content[tmp] = new BY <1>1, <1>2 DEF LogInv, Working
<1>4. log' = tmp /\ tmp' = None /\ pc' = [pc EXCEPT ![a] = "done"] BY <1>3 DEF Replace, Goto
<1>5. \A p \in Process \ {a} : pc'[p] = pc[p] /\ ~Active(p) BY <1>2, <1>4, AloneAtWork DEF LogInv
<1>6. pc'[a] = "done" BY <1>0, <1>4 DEF LogInv, TypeOK
<1>7. content'[log'] = new BY <1>1, <1>3, <1>4
<1>8. /\ DOMAIN new = DOMAIN content[log]
      /\ \A i \in DOMAIN content[log] :
           /\ new[i].rec = content[log][i].rec /\ content[log][i].notes \subseteq new[i].notes
           /\ content[log][i].rec = Target[a] => a \in new[i].notes
  BY AnnotatedLines DEF LogInv, TypeOK
<1>9. \A i \in DOMAIN content[log] : content[log][i].rec \in Writer
  <2> TAKE i \in DOMAIN content[log]
  <2>1. content[log][i] \in Line BY DEF LogInv, TypeOK
  <2>. QED BY <2>1 DEF Line
<1>10. \A w \in Writer : w \in Process \ {a} BY DEF Process
<1>. HIDE DEF new
<1>11. OneLine' BY <1>5, <1>7, <1>8, <1>9, <1>10 DEF LogInv, OneLine
<1>12. AtLog' BY <1>5, <1>10 DEF AtLog, Active, LogInv
<1>13. Apart'
  <2>1. tmp \in Inode BY <1>3 DEF LogInv, TypeOK
  <2>2. None \notin Annotator BY DEF Process
  <2>3. \A b \in Annotator : pc'[b] \in {"idle", "opening"} => pc[b] \in {"idle", "opening"}
    BY <1>5, <1>6 DEF Process
  <2>. QED BY <1>4, <2>1, <2>2, <2>3 DEF LogInv, Apart
<1>14. Working'
  <2>1. \A b \in Annotator : ~Active(b)' BY <1>5, <1>6 DEF Active, Ended, Process
  <2>. QED BY <2>1 DEF Working
<1>15. Noted'
  <2> SUFFICES ASSUME NEW b \in Annotator, pc'[b] = "done"
               PROVE  \E i \in DOMAIN new : new[i].rec = Target[b] /\ b \in new[i].notes
    BY <1>7, Zenon DEF Noted
  <2>1. CASE b = a
    <3>1. \E i \in DOMAIN content[log] : content[log][i].rec = Target[a]
      BY <1>2 DEF LogInv, Working
    <3>. QED BY <1>8, <2>1, <3>1
  <2>2. CASE b # a
    <3>1. pc[b] = "done" BY <1>5, <2>2 DEF Process
    <3>. QED BY <1>8, <3>1 DEF LogInv, Noted
  <2>. QED BY <2>1, <2>2
<1>. QED BY <1>7, <1>11, <1>12, <1>13, <1>14, <1>15 DEF Rest, new
-----------------------------------------------------------------------------
(* The places of a query, and how far back each is.                        *)

USE QueryAssumption

LEMMA Places ==
  ASSUME QTypeOK
  PROVE  /\ IsFiniteSet(Loaded) /\ Loaded \subseteq DOMAIN content[log] /\ Loaded \subseteq Nat
         /\ \A i \in DOMAIN content[log] : /\ content[log][i] \in Line /\ content[log][i].rec \in Writer
                                           /\ StampAt(i) \in Nat
         /\ \A q : Matched(q) \subseteq Loaded /\ IsFiniteSet(Matched(q))
         /\ Matched(All) = Loaded
<1>1. content[log] \in Seq(Line) BY DEF QTypeOK, TypeOK
<1>2. Len(content[log]) \in Nat /\ DOMAIN content[log] = 1..Len(content[log]) BY <1>1, LenProperties
<1>3. IsFiniteSet(1..Len(content[log]))
  <2>1. 1 \in Int /\ Len(content[log]) \in Int BY <1>2
  <2>. QED BY <2>1, FS_Interval
<1>4. Loaded \subseteq 1..Len(content[log]) BY <1>2 DEF Loaded
<1>5. IsFiniteSet(Loaded) BY <1>3, <1>4, FS_Subset
<1>6. ASSUME NEW i \in DOMAIN content[log]
      PROVE  content[log][i] \in Line /\ content[log][i].rec \in Writer /\ StampAt(i) \in Nat
  <2>1. content[log][i] \in Line BY <1>1, <1>2, ElementOfSeq
  <2>. QED BY <2>1 DEF Line, StampAt, QTypeOK
<1>7. \A q : Matched(q) \subseteq Loaded BY DEF Matched
<1>8. \A q : IsFiniteSet(Matched(q)) BY <1>5, <1>7, FS_Subset
<1>9. \A i : Matches(i, All) BY DEF Matches, All
<1>10. Matched(All) = Loaded BY <1>9 DEF Matched
<1>. QED BY <1>2, <1>4, <1>5, <1>6, <1>7, <1>8, <1>10

LEMMA AllPlaces == QTypeOK => IsFiniteSet(Loaded) /\ Matched(All) = Loaded
BY Places

LEMMA AllPlacesNext == (QTypeOK => IsFiniteSet(Loaded) /\ Matched(All) = Loaded)'
BY AllPlaces, PTL

LEMMA RankBounds ==
  ASSUME QTypeOK, NEW S \in SUBSET Loaded, NEW i \in S
  PROVE  IsFiniteSet(S) /\ Rank(i, S) \in Nat /\ Cardinality(S) \in Nat /\ Rank(i, S) < Cardinality(S)
<1>. DEFINE T == {j \in S : Precedes(j, i)}
<1>1. IsFiniteSet(S) BY Places, FS_Subset
<1>2. StampAt(i) \in Nat /\ i \in Nat BY Places
<1>3. i \notin T BY <1>2 DEF Precedes
<1>4. T \in SUBSET S OBVIOUS
<1>. HIDE DEF T
<1>5. IsFiniteSet(T) /\ Cardinality(T) <= Cardinality(S) /\ (Cardinality(S) = Cardinality(T) => S = T)
  BY <1>1, <1>4, FS_Subset
<1>6. Cardinality(T) \in Nat /\ Cardinality(S) \in Nat BY <1>1, <1>5, FS_CardinalityType
<1>7. Cardinality(T) < Cardinality(S) BY <1>3, <1>5, <1>6
<1>. QED BY <1>1, <1>6, <1>7 DEF Rank, T

\* A step that keeps the lines that are there, with the records they are of and
\* the stamps of these, only pushes lines back.
LEMMA PushedBack ==
  ASSUME QTypeOK, QTypeOK', DOMAIN content[log] \subseteq DOMAIN content'[log'],
         \A i \in DOMAIN content[log] :
           /\ content'[log'][i].rec = content[log][i].rec
           /\ stamp'[content[log][i].rec] = stamp[content[log][i].rec],
         NEW i \in Loaded
  PROVE  /\ i \in Loaded'
         /\ Rank(i, Matched(All)) \in Nat /\ Rank(i, Matched(All))' \in Nat
         /\ Rank(i, Matched(All)) <= Rank(i, Matched(All))'
<1>. DEFINE S == {j \in Loaded : Precedes(j, i)}
            T == {j \in Loaded' : Precedes(j, i)'}
<1>1. Loaded \subseteq Loaded' BY DEF Loaded
<1>2. \A j \in Loaded : Precedes(j, i) => Precedes(j, i)'
  <2>1. \A j \in Loaded : StampAt(j)' = StampAt(j) BY Places DEF StampAt
  <2>. QED BY <2>1 DEF Precedes
<1>3. S \in SUBSET T BY <1>1, <1>2
<1>4. IsFiniteSet(Loaded') /\ (Matched(All) = Loaded)' BY AllPlacesNext
<1>5. IsFiniteSet(T)
  <2>1. T \in SUBSET Loaded' OBVIOUS
  <2>. QED BY <1>4, <2>1, FS_Subset
<1>6. Rank(i, Matched(All)) = Cardinality(S) BY Places DEF Rank
<1>7. Rank(i, Matched(All))' = Cardinality(T) BY <1>4 DEF Rank
<1>. HIDE DEF S, T
<1>8. IsFiniteSet(S) /\ Cardinality(S) <= Cardinality(T) BY <1>3, <1>5, FS_Subset
<1>9. Cardinality(S) \in Nat /\ Cardinality(T) \in Nat BY <1>5, <1>8, FS_CardinalityType
<1>. QED BY <1>1, <1>6, <1>7, <1>8, <1>9
-----------------------------------------------------------------------------
(* Every step keeps the invariant.                                         *)

LEMMA Start == QInit => QInv
<1>. SUFFICES ASSUME QInit PROVE QInv OBVIOUS
<1>. USE DEF QInit, Init
<1>1. /\ log = First /\ tmp = None /\ clock = 0
      /\ \A p \in Process : pc[p] = "idle" /\ ~Active(p)
      /\ \A w \in Writer : stamp[w] = 0
      /\ First \in Inode /\ content[First] = <<>>
  BY DEF Active, Inode
<1>2. TypeOK
  <2>1. <<>> \in Seq(Line) BY EmptySeq
  <2>. QED BY <2>1 DEF TypeOK, Ended, Inode
<1>3. pager.due = {} /\ pager.over = FALSE OBVIOUS
<1>4. QTypeOK BY <1>2 DEF QTypeOK
<1>5. OneLine BY <1>1 DEF OneLine, Process
<1>6. AnnotatesAlone /\ AtLog /\ Working /\ Noted
  BY <1>1 DEF AnnotatesAlone, AtLog, Working, Noted, Process, Active
<1>7. Apart BY <1>1 DEF Apart, Process, Inode
<1>8. Stamped BY <1>1 DEF Stamped
<1>9. StillAhead /\ PagerSeesAll BY <1>3 DEF StillAhead, PagerSeesAll
<1>. QED BY <1>2, <1>4, <1>5, <1>6, <1>7, <1>8, <1>9 DEF QInv, LogInv

\* What a step of the calls leaves of the lines.
Grown ==
  /\ DOMAIN content[log] \subseteq DOMAIN content'[log']
  /\ \A i \in DOMAIN content[log] :
       /\ content'[log'][i].rec = content[log][i].rec
       /\ content[log][i].notes \subseteq content'[log'][i].notes

LEMMA WriterSteps ==
  ASSUME LogInv, AnnotatesAlone', NEW w \in Writer, Open(w) \/ Lock(w) \/ Write(w) \/ Close(w)
  PROVE  LogInv' /\ Grown
<1>0. w \in Process BY DEF Process
<1>1. TypeOK' BY WritersTypes DEF LogInv
<1>2. CASE Open(w)
  <2>1. UNCHANGED <<content, log>> BY <1>2 DEF Open
  <2>. QED BY <1>1, <1>2, <2>1, OpenKeeps DEF Grown, Rest, LogInv
<1>3. CASE Lock(w)
  <2>1. UNCHANGED <<content, log, tmp, fd, copy>> /\ pc[w] = "locking" /\ pc' = [pc EXCEPT ![w] = "writing"]
    BY <1>3 DEF Lock, Goto
  <2>2. w \in Locking BY <2>1 DEF LogInv, AtLog
  <2>3. Rest' BY <1>0, <1>1, <2>1, <2>2, MovesKeep
  <2>. QED BY <1>1, <2>1, <2>3 DEF Grown, Rest, LogInv
<1>4. CASE Write(w)
  <2>1. Rest' /\ log' = log /\ content'[log] = Append(content[log], [rec |-> w, notes |-> {}])
    BY <1>1, <1>4, WriteKeeps
  <2>2. content[log] \in Seq(Line) BY DEF LogInv, TypeOK
  <2>3. Grown BY <2>1, <2>2 DEF Grown
  <2>. QED BY <1>1, <2>1, <2>3 DEF Rest, LogInv
<1>5. CASE Close(w)
  <2>1. UNCHANGED <<content, log, tmp, fd, copy>> /\ pc[w] = "closing" /\ pc' = [pc EXCEPT ![w] = "done"]
    BY <1>5 DEF Close, Goto
  <2>2. Rest' BY <1>0, <1>1, <2>1, MovesKeep
  <2>. QED BY <1>1, <2>1, <2>2 DEF Grown, Rest, LogInv
<1>. QED BY <1>2, <1>3, <1>4, <1>5

LEMMA AnnotatorSteps ==
  ASSUME LogInv, AnnotatesAlone', NEW a \in Annotator,
         Read(a) \/ OpenTmp(a) \/ Rewrite(a) \/ Replace(a)
  PROVE  LogInv' /\ Grown
<1>1. TypeOK' BY AnnotatorsTypes DEF LogInv
<1>2. CASE Read(a) BY <1>1, <1>2, ReadKeeps DEF Grown, Rest, LogInv
<1>3. CASE OpenTmp(a) BY <1>1, <1>3, OpenTmpKeeps DEF Grown, Rest, LogInv
<1>4. CASE Rewrite(a) BY <1>1, <1>4, RewriteKeeps DEF Grown, Rest, LogInv
<1>5. CASE Replace(a)
  <2>1. Rest' /\ content'[log'] = Annotated(content[log], a) BY <1>1, <1>5, ReplaceKeeps
  <2>2. Grown BY <2>1, AnnotatedLines DEF Grown, LogInv, TypeOK
  <2>. QED BY <1>1, <2>1, <2>2 DEF Rest, LogInv
<1>. QED BY <1>2, <1>3, <1>4, <1>5

LEMMA DeathSteps ==
  ASSUME LogInv, AnnotatesAlone', NEW p \in Process, Die(p)
  PROVE  LogInv' /\ Grown
<1>1. TypeOK' BY DeathTypes DEF LogInv
<1>2. UNCHANGED <<content, log, tmp, fd, copy>> /\ Active(p) /\ pc' = [pc EXCEPT ![p] = "died"]
  BY DEF Die, Goto
<1>3. Rest' BY <1>1, <1>2, MovesKeep
<1>. QED BY <1>1, <1>2, <1>3 DEF Grown, Rest, LogInv

\* The log, the clock and the stamps after a step.
LEMMA CallSteps ==
  ASSUME QInv, QNext, AnnotatesAlone', ~NextPage
  PROVE  /\ LogInv' /\ Grown /\ Stamped' /\ QTypeOK' /\ UNCHANGED pager
         /\ \A i \in DOMAIN content[log] : stamp'[content[log][i].rec] = stamp[content[log][i].rec]
<1>1. CASE \E w \in Writer : Build(w)
  <2>1. PICK w \in Writer : Build(w) BY <1>1
  <2>2. Open(w) /\ UNCHANGED pager /\ stamp' = [stamp EXCEPT ![w] = clock'] BY <2>1 DEF Build
  <2>3. clock' \in 0..MaxClock /\ clock <= clock' BY <2>1 DEF Build, QInv, QTypeOK
  <2>4. LogInv' /\ Grown BY <2>2, WriterSteps DEF QInv
  <2>5. pc[w] = "idle" BY <2>2 DEF Open
  <2>6. \A i \in DOMAIN content[log] : content[log][i].rec # w
    BY <2>5 DEF QInv, LogInv, OneLine
  <2>7. Stamped' BY <2>2, <2>3 DEF Stamped, QInv, QTypeOK
  <2>8. QTypeOK' BY <2>2, <2>3, <2>4 DEF QTypeOK, QInv, LogInv
  <2>. QED BY <2>2, <2>4, <2>6, <2>7, <2>8
<1>2. CASE UNCHANGED readVars
  <2>1. LogInv' /\ Grown
    <3>1. CASE \E w \in Writer : Lock(w) \/ Write(w) \/ Close(w) BY <3>1, WriterSteps DEF QInv
    <3>2. CASE \E a \in Annotator : Read(a) \/ OpenTmp(a) \/ Rewrite(a) \/ Replace(a)
      BY <3>2, AnnotatorSteps DEF QInv
    <3>3. CASE \E p \in Process : Die(p) BY <3>3, DeathSteps DEF QInv
    <3>4. CASE \E w \in Writer : Build(w) BY <3>4, WriterSteps DEF QInv, Build
    <3>. QED BY <3>1, <3>2, <3>3, <3>4, Zenon DEF QNext
  <2>2. UNCHANGED <<clock, stamp, pager>> BY <1>2 DEF readVars
  <2>. QED BY <2>1, <2>2 DEF QInv, QTypeOK, Stamped, LogInv
<1>. QED BY <1>1, <1>2, Zenon DEF QNext

LEMMA PagerSteps ==
  ASSUME QInv, NextPage
  PROVE  QInv'
<1>. DEFINE hits == {Summary(content[log][i]) : i \in Page(Loaded, pager.offset)}
            seen == pager.seen \cup {line.rec : line \in hits}
            due == IF pager.offset = 0 THEN {content[log][i].rec : i \in Loaded} ELSE pager.due
<1>1. UNCHANGED <<content, log, tmp, holder, pc, fd, copy, clock, stamp>> BY DEF NextPage, vars
<1>2. pager' = [offset |-> pager.offset + Limit, seen |-> seen, due |-> due,
                over |-> pager.offset + Limit >= Cardinality(Loaded)]
  BY Places DEF NextPage, QueryAudit, QInv
<1>3. /\ pager'.offset = pager.offset + Limit /\ pager'.seen = seen /\ pager'.due = due
      /\ pager'.over = (pager.offset + Limit >= Cardinality(Loaded))
      /\ pager' \in [offset: {pager.offset + Limit}, seen: {seen}, due: {due}, over: BOOLEAN]
  <2>. HIDE DEF seen, due
  <2>1. (pager.offset + Limit >= Cardinality(Loaded)) \in BOOLEAN OBVIOUS
  <2>. QED BY <1>2, <2>1
<1>4. ASSUME NEW i \in Page(Loaded, pager.offset) PROVE content[log][i].rec \in seen
  <2>1. Summary(content[log][i]) \in hits OBVIOUS
  <2>2. Summary(content[log][i]).rec = content[log][i].rec BY DEF Summary
  <2>. QED BY <2>1, <2>2
<1>5. seen \subseteq Writer /\ due \subseteq Writer
  <2>1. Page(Loaded, pager.offset) \subseteq Loaded BY DEF Page
  <2>. QED BY <2>1, Places DEF QInv, QTypeOK, Summary
<1>. HIDE DEF seen, due, hits
<1>6. LogInv' /\ Stamped'
  BY <1>1 DEF QInv, LogInv, TypeOK, AnnotatesAlone, Active, OneLine, AtLog, Apart, Working, Noted, Stamped
<1>7. QTypeOK'
  <2>1. pager.offset + Limit \in Nat BY DEF QInv, QTypeOK
  <2>. QED BY <1>1, <1>3, <1>5, <1>6, <2>1 DEF QInv, QTypeOK, LogInv
<1>8. ASSUME NEW w \in due \ seen
      PROVE  \E i \in Loaded : content[log][i].rec = w /\ pager.offset + Limit <= Rank(i, Loaded)
  <2>0. pager.offset \in Nat BY DEF QInv, QTypeOK
  <2>1. PICK i \in Loaded : content[log][i].rec = w /\ pager.offset <= Rank(i, Loaded)
    <3>1. CASE pager.offset = 0
      <4>1. PICK i \in Loaded : content[log][i].rec = w BY <3>1 DEF due
      <4>2. Rank(i, Loaded) \in Nat BY RankBounds DEF QInv
      <4>. QED BY <3>1, <4>1, <4>2
    <3>2. CASE pager.offset # 0
      <4>1. w \in pager.due \ pager.seen BY <3>2 DEF due, seen
      <4>. QED BY <4>1, Places DEF QInv, StillAhead
    <3>. QED BY <3>1, <3>2
  <2>2. Rank(i, Loaded) \in Nat BY RankBounds DEF QInv
  <2>3. i \notin Page(Loaded, pager.offset) BY <1>4, <2>1
  <2>4. ~(Rank(i, Loaded) < pager.offset + Limit) BY <2>1, <2>3 DEF Page
  <2>. QED BY <2>0, <2>1, <2>2, <2>4
<1>9. StillAhead'
  <2> SUFFICES ASSUME NEW w \in due \ seen
               PROVE  \E i \in Loaded' : content[log][i].rec = w /\ pager.offset + Limit <= Rank(i, Matched(All))'
    BY <1>1, <1>3 DEF StillAhead
  <2>1. PICK i \in Loaded : content[log][i].rec = w /\ pager.offset + Limit <= Rank(i, Loaded) BY <1>8
  <2>2. Loaded' = Loaded BY <1>1 DEF Loaded
  <2>3. Matched(All) = Loaded /\ Matched(All)' = Loaded' BY <1>7, Places, AllPlacesNext DEF QInv
  <2>4. Rank(i, Matched(All))' = Rank(i, Loaded)
    BY <1>1, <2>2, <2>3 DEF Rank, Precedes, StampAt
  <2>. QED BY <2>1, <2>2, <2>4
<1>10. PagerSeesAll'
  <2> SUFFICES ASSUME pager.offset + Limit >= Cardinality(Loaded), NEW w \in due \ seen PROVE FALSE
    BY <1>3 DEF PagerSeesAll
  <2>1. PICK i \in Loaded : pager.offset + Limit <= Rank(i, Loaded) BY <1>8
  <2>2. Rank(i, Loaded) < Cardinality(Loaded) /\ Rank(i, Loaded) \in Nat /\ Cardinality(Loaded) \in Nat
    BY RankBounds DEF QInv
  <2>3. pager.offset \in Nat BY DEF QInv, QTypeOK
  <2>. QED BY <2>1, <2>2, <2>3
<1>. QED BY <1>6, <1>7, <1>9, <1>10 DEF QInv

LEMMA Step == QInv /\ [QNext /\ AnnotatesAlone']_qvars => QInv'
<1>. SUFFICES ASSUME QInv, [QNext /\ AnnotatesAlone']_qvars PROVE QInv' OBVIOUS
<1>1. CASE UNCHANGED qvars
  <2>1. UNCHANGED <<content, log, tmp, holder, pc, fd, copy, clock, stamp, pager>>
    BY <1>1 DEF qvars, vars, readVars
  <2>2. LogInv' /\ Stamped'
    BY <2>1 DEF QInv, LogInv, TypeOK, AnnotatesAlone, Active, OneLine, AtLog, Apart, Working, Noted, Stamped
  <2>3. QTypeOK' BY <2>1, <2>2 DEF QInv, LogInv, QTypeOK
  <2>4. Loaded' = Loaded BY <2>1 DEF Loaded
  <2>5. Matched(All)' = Matched(All) BY <2>3, <2>4, Places, AllPlacesNext DEF QInv
  <2>6. \A i : Rank(i, Matched(All))' = Rank(i, Matched(All))
    BY <2>1, <2>5 DEF Rank, Precedes, StampAt
  <2>7. StillAhead' BY <2>1, <2>4, <2>6 DEF QInv, StillAhead
  <2>8. PagerSeesAll' BY <2>1 DEF QInv, PagerSeesAll
  <2>. QED BY <2>2, <2>3, <2>7, <2>8 DEF QInv
<1>2. CASE NextPage BY <1>2, PagerSteps
<1>3. CASE QNext /\ AnnotatesAlone' /\ ~NextPage
  <2>1. /\ LogInv' /\ Grown /\ Stamped' /\ QTypeOK' /\ UNCHANGED pager
        /\ \A i \in DOMAIN content[log] : stamp'[content[log][i].rec] = stamp[content[log][i].rec]
    BY <1>3, CallSteps
  <2>2. PagerSeesAll' BY <2>1 DEF PagerSeesAll, QInv
  <2>3. StillAhead'
    <3> SUFFICES ASSUME NEW w \in pager.due \ pager.seen
                 PROVE  \E i \in Loaded' : /\ content'[log'][i].rec = w
                                          /\ pager.offset <= Rank(i, Matched(All))'
      BY <2>1 DEF StillAhead
    <3>1. PICK i \in Loaded : content[log][i].rec = w /\ pager.offset <= Rank(i, Matched(All))
      BY DEF QInv, StillAhead
    <3>2. /\ i \in Loaded'
          /\ Rank(i, Matched(All)) \in Nat /\ Rank(i, Matched(All))' \in Nat
          /\ Rank(i, Matched(All)) <= Rank(i, Matched(All))'
      BY <2>1, PushedBack DEF QInv, Grown
    <3>3. content'[log'][i].rec = w BY <2>1, <3>1, Places DEF QInv, Grown
    <3>4. pager.offset \in Nat BY DEF QInv, QTypeOK
    <3>. QED BY <3>1, <3>2, <3>3, <3>4
  <2>. QED BY <2>1, <2>2, <2>3 DEF QInv
<1>. QED BY <1>1, <1>2, <1>3

THEOREM InvariantHolds == QSpec => []QInv
BY Start, Step, PTL DEF QSpec
-----------------------------------------------------------------------------
(* What the tools show of a log that keeps the invariant.                  *)

\* While the log is not longer than the tools read, each call that has returned
\* has a place in what they read, and no other place has its record.
LEMMA PlaceOf ==
  ASSUME QInv, ~Overlong, NEW w \in Writer, pc[w] = "done"
  PROVE  \E i \in Loaded : /\ content[log][i].rec = w
                           /\ \A j \in DOMAIN content[log] : content[log][j].rec = w => j = i
<1>1. PICK i \in DOMAIN content[log] : content[log][i].rec = w BY DEF QInv, LogInv, OneLine
<1>2. content[log] \in Seq(Line) BY DEF QInv, LogInv, TypeOK
<1>3. i \in Loaded BY <1>2 DEF Overlong, Loaded
<1>. QED BY <1>1, <1>3 DEF QInv, LogInv, OneLine

\* Where each of some calls has its line among some places, there are as many.
LEMMA AsMany ==
  ASSUME QInv, NEW S \in SUBSET Loaded, NEW L \in SUBSET Landed,
         \A v \in L : \E i \in S : content[log][i].rec = v
  PROVE  Cardinality(S) >= Cardinality(L)
<1>. DEFINE f == [v \in L |-> CHOOSE i \in S : content[log][i].rec = v]
<1>1. \A v \in L : f[v] \in S /\ content[log][f[v]].rec = v OBVIOUS
<1>2. f \in [L -> S] BY <1>1
<1>. HIDE DEF f
<1>3. \A u, v \in L : f[u] = f[v] => u = v BY <1>1
<1>4. f \in Injection(L, S) BY <1>2, <1>3 DEF Injection, IsInjective
<1>5. IsFiniteSet(S) BY Places, FS_Subset DEF QInv
<1>6. IsFiniteSet(L) /\ Cardinality(L) <= Cardinality(S) BY <1>4, <1>5, FS_Injection
<1>7. Cardinality(L) \in Nat /\ Cardinality(S) \in Nat BY <1>5, <1>6, FS_CardinalityType
<1>. QED BY <1>6, <1>7

\* There are no more places than calls.
LEMMA AsFew ==
  ASSUME QInv, NEW S \in SUBSET Loaded
  PROVE  Cardinality(S) <= Cardinality(Writer) /\ Cardinality(Writer) \in Nat /\ Cardinality(S) \in Nat
<1>. DEFINE f == [i \in S |-> content[log][i].rec]
<1>1. f \in [S -> Writer] BY Places DEF QInv
<1>2. \A i, j \in S : f[i] = f[j] => i = j BY Places DEF QInv, LogInv, OneLine
<1>. HIDE DEF f
<1>3. f \in Injection(S, Writer) BY <1>1, <1>2 DEF Injection, IsInjective
<1>4. IsFiniteSet(Writer)
  <2>1. Writer \in SUBSET Process BY DEF Process
  <2>. QED BY <2>1, FS_Subset
<1>5. IsFiniteSet(S) /\ Cardinality(S) <= Cardinality(Writer) BY <1>3, <1>4, FS_Injection
<1>. QED BY <1>4, <1>5, FS_CardinalityType

LEMMA Least ==
  ASSUME NEW S \in SUBSET Nat, S # {}
  PROVE  \E i \in S : \A j \in S : i <= j
<1>1. IsWellFoundedOn(OpToRel(<, Nat), Nat) BY NatLessThanWellFounded
<1>2. PICK i \in S : \A j \in S : <<j, i>> \notin OpToRel(<, Nat) BY <1>1, WFMin
<1>3. \A j \in S : i <= j
  <2> TAKE j \in S
  <2>1. ~(j < i) BY <1>2 DEF OpToRel
  <2>. QED BY <2>1
<1>. QED BY <1>3

\* A rank is on one page.
LEMMA PageOf ==
  ASSUME NEW r \in Nat
  PROVE  \E k \in 0..r : /\ k * Limit <= r /\ r < k * Limit + Limit
                         /\ \A m \in Nat : m * Limit <= r /\ r < m * Limit + Limit => m = k
<1>. DEFINE S == {k \in Nat : r < k * Limit + Limit}
<1>0. Limit \in Nat /\ Limit >= 1 OBVIOUS
<1>1. r < r * Limit + Limit BY <1>0, SMTT(30)
<1>2. PICK k \in S : \A j \in S : k <= j
  <2>1. r \in S BY <1>1
  <2>2. S \in SUBSET Nat OBVIOUS
  <2>. HIDE DEF S
  <2>. QED BY <2>1, <2>2, Least
<1>3. k <= r BY <1>1, <1>2
<1>4. k * Limit <= r
  <2>1. CASE k = 0 BY <2>1, <1>0
  <2>2. CASE k # 0
    <3>1. k - 1 \in Nat /\ k - 1 \notin S BY <1>2, <2>2
    <3>2. ~(r < (k - 1) * Limit + Limit) BY <3>1
    <3>3. (k - 1) * Limit + Limit = k * Limit BY <1>0, SMTT(30)
    <3>4. k * Limit \in Nat BY <1>0, SMTT(30)
    <3>. QED BY <3>2, <3>3, <3>4
  <2>. QED BY <2>1, <2>2
<1>5. ASSUME NEW m \in Nat, m * Limit <= r, r < m * Limit + Limit PROVE m = k
  <2>1. k <= m BY <1>2, <1>5
  <2>2. ASSUME k < m PROVE FALSE
    <3>1. k * Limit + Limit <= m * Limit BY <1>0, <2>2, SMTT(30)
    <3>2. r < k * Limit + Limit BY <1>2
    <3>3. k * Limit + Limit \in Nat /\ m * Limit \in Nat BY <1>0, SMTT(30)
    <3>. QED BY <1>5, <3>1, <3>2, <3>3
  <2>. QED BY <2>1, <2>2
<1>. QED BY <1>2, <1>3, <1>4, <1>5
\* A place of a query is on one page of its answer.
LEMMA OnePage ==
  ASSUME QInv, NEW q, NEW i \in Matched(q), NEW w, content[log][i].rec = w,
         \A j \in DOMAIN content[log] : content[log][j].rec = w => j = i
  PROVE  Cardinality({k \in 0..Cardinality(Writer) :
                        \E line \in QueryAudit(q, k * Limit).hits : line.rec = w}) = 1
<1>. DEFINE S == Matched(q)
            Shows(k) == \E line \in QueryAudit(q, k * Limit).hits : line.rec = w
<1>1. S \in SUBSET Loaded /\ S \subseteq DOMAIN content[log] BY Places DEF QInv
<1>2. Rank(i, S) \in Nat /\ Rank(i, S) < Cardinality(Writer) /\ Cardinality(Writer) \in Nat
  BY <1>1, RankBounds, AsFew DEF QInv
<1>3. ASSUME NEW k \in Nat
      PROVE  Shows(k) <=> k * Limit <= Rank(i, S) /\ Rank(i, S) < k * Limit + Limit
  <2>1. QueryAudit(q, k * Limit).hits = {Summary(content[log][j]) : j \in Page(S, k * Limit)}
    BY DEF QueryAudit
  <2>2. \A j : Summary(content[log][j]).rec = content[log][j].rec BY DEF Summary
  <2>3. Shows(k) <=> \E j \in Page(S, k * Limit) : content[log][j].rec = w BY <2>1, <2>2
  <2>4. Page(S, k * Limit) \subseteq S BY DEF Page
  <2>5. Shows(k) <=> i \in Page(S, k * Limit) BY <1>1, <2>3, <2>4
  <2>. QED BY <2>5 DEF Page
<1>4. PICK k \in 0..Rank(i, S) :
        /\ k * Limit <= Rank(i, S) /\ Rank(i, S) < k * Limit + Limit
        /\ \A m \in Nat : m * Limit <= Rank(i, S) /\ Rank(i, S) < m * Limit + Limit => m = k
  BY <1>2, PageOf
<1>. HIDE DEF Shows, S
<1>5. k \in 0..Cardinality(Writer) /\ \A m \in 0..Cardinality(Writer) : m \in Nat BY <1>2, <1>4
<1>6. {m \in 0..Cardinality(Writer) : Shows(m)} = {k} BY <1>3, <1>4, <1>5
<1>. QED BY <1>6, FS_Singleton DEF Shows

LEMMA InvShowsRecords == QInv => ReadBack
<1>. SUFFICES ASSUME QInv, ~Overlong, NEW w \in Landed PROVE
       LET rec == Meta[w]
           q == [agent |-> rec.agent, tenant |-> rec.tenant, since |-> stamp[w]]
           ofAgent == Cardinality({v \in Landed : Meta[v].agent = rec.agent})
           ofTenant == Cardinality({v \in Landed : Meta[v].tenant = rec.tenant})
           ofHost == Cardinality({v \in Landed : Meta[v].host = rec.host})
       IN  /\ Cardinality({k \in 0..Cardinality(Writer) :
                             \E line \in QueryAudit(q, k * Limit).hits : line.rec = w}) = 1
           /\ \E line \in RunView(rec.run) : line.rec = w
           /\ rec.decision # None => \E line \in RunView(rec.decision) :
                line.rec = w \/ Meta[line.rec].run = rec.decision
           /\ GetRecord(stamp[w], rec.run, rec.agent) # None
           /\ Overview[rec.agent] >= ofAgent /\ AgentView(rec.agent).total >= ofAgent
           /\ TenantView(rec.tenant).total >= ofTenant
           /\ rec.host # None =>
                /\ StigHostView(rec.host, Monitored).total >= ofHost
                /\ \A listed \in MonitoredHosts :
                     /\ StigOverview(listed).total >= ofHost
                     /\ ByHost(All, None, listed)[rec.host] >= ofHost
  BY Zenon DEF ReadBack
<1>. DEFINE rec == Meta[w]
            q == [agent |-> rec.agent, tenant |-> rec.tenant, since |-> stamp[w]]
            agents == {v \in Landed : Meta[v].agent = rec.agent}
            tenants == {v \in Landed : Meta[v].tenant = rec.tenant}
            hosts == {v \in Landed : Meta[v].host = rec.host}
<1>0. w \in Writer /\ pc[w] = "done" BY DEF Landed
<1>1. PICK i \in Loaded : /\ content[log][i].rec = w
                          /\ \A j \in DOMAIN content[log] : content[log][j].rec = w => j = i
  BY <1>0, PlaceOf
<1>2. \A v \in Landed : \E j \in Loaded : content[log][j].rec = v /\ RecordAt(j) = Meta[v]
  BY PlaceOf DEF Landed, RecordAt
<1>3. RecordAt(i) = rec /\ StampAt(i) = stamp[w] BY <1>1 DEF RecordAt, StampAt
<1>4. Cardinality({k \in 0..Cardinality(Writer) :
                    \E line \in QueryAudit(q, k * Limit).hits : line.rec = w}) = 1
  <2>1. stamp[w] \in Nat /\ stamp[w] <= clock BY <1>0 DEF QInv, QTypeOK, Stamped
  <2>2. Matches(i, q) BY <1>3, <2>1 DEF Matches
  <2>3. i \in Matched(q) BY <2>2 DEF Matched
  <2>. QED BY <1>1, <2>3, OnePage
<1>5. \E line \in RunView(rec.run) : line.rec = w
  <2>1. i \in {j \in Loaded : RecordAt(j).run = rec.run} BY <1>3
  <2>2. content[log][i] \in RunView(rec.run) BY <2>1 DEF RunView, GetRun
  <2>. QED BY <1>1, <2>2
<1>6. ASSUME rec.decision # None
      PROVE  \E line \in RunView(rec.decision) : line.rec = w \/ Meta[line.rec].run = rec.decision
  <2>. DEFINE own == {j \in Loaded : RecordAt(j).run = rec.decision}
  <2>1. CASE own = {}
    <3>1. i \in {j \in Loaded : RecordAt(j).decision = rec.decision} BY <1>3
    <3>2. content[log][i] \in RunView(rec.decision) BY <2>1, <3>1 DEF RunView, GetRun
    <3>. QED BY <1>1, <3>2
  <2>2. CASE own # {}
    <3>1. PICK j \in own : TRUE BY <2>2
    <3>2. content[log][j] \in RunView(rec.decision) BY <2>2, <3>1 DEF RunView, GetRun
    <3>. QED BY <3>1, <3>2 DEF RecordAt
  <2>. QED BY <2>1, <2>2
<1>7. GetRecord(stamp[w], rec.run, rec.agent) # None
  <2>. DEFINE at == {j \in Loaded : /\ StampAt(j) = stamp[w] /\ RecordAt(j).run = rec.run
                                    /\ RecordAt(j).agent = rec.agent}
  <2>1. at # {} /\ at \in SUBSET Nat BY <1>3, Places DEF QInv
  <2>2. PICK j \in at : j = CHOOSE x \in at : \A y \in at : x <= y
    <3>. HIDE DEF at
    <3>. QED BY <2>1, Least
  <2>3. GetRecord(stamp[w], rec.run, rec.agent) = content[log][j] BY <2>1, <2>2 DEF GetRecord
  <2>4. content[log][j] \in Line BY Places DEF QInv
  <2>. QED BY <2>3, <2>4
<1>8. Overview[rec.agent] >= Cardinality(agents) /\ AgentView(rec.agent).total >= Cardinality(agents)
  <2>. DEFINE S == {j \in Loaded : RecordAt(j).agent = rec.agent}
  <2>1. Cardinality(S) >= Cardinality(agents)
    <3>1. \A v \in agents : \E j \in S : content[log][j].rec = v BY <1>2
    <3>. QED BY <3>1, AsMany
  <2>2. [All EXCEPT !.since = None] = All BY DEF All
  <2>3. Overview = [agent \in {RecordAt(j).agent : j \in Loaded} |->
                     Cardinality({j \in Loaded : RecordAt(j).agent = agent})]
    BY <2>2, Places DEF Overview, AuditStats, QInv
  <2>4. Overview[rec.agent] = Cardinality(S) BY <1>3, <2>3
  <2>5. S \subseteq Matched([All EXCEPT !.agent = rec.agent]) BY DEF Matched, Matches, All
  <2>6. AgentView(rec.agent).total = Cardinality(Matched([All EXCEPT !.agent = rec.agent]))
    BY DEF AgentView, QueryAudit
  <2>7. Cardinality(Matched([All EXCEPT !.agent = rec.agent])) >= Cardinality(agents)
    <3>. DEFINE M == Matched([All EXCEPT !.agent = rec.agent])
    <3>1. M \in SUBSET Loaded BY DEF Matched
    <3>2. \A v \in agents : \E j \in M : content[log][j].rec = v BY <1>2, <2>5
    <3>. HIDE DEF M
    <3>3. Cardinality(M) >= Cardinality(agents) BY <3>1, <3>2, AsMany
    <3>. QED BY <3>3 DEF M
  <2>. QED BY <2>1, <2>4, <2>6, <2>7
<1>9. TenantView(rec.tenant).total >= Cardinality(tenants)
  <2>. DEFINE M == Matched([All EXCEPT !.tenant = rec.tenant])
  <2>1. M \in SUBSET Loaded BY DEF Matched
  <2>2. \A v \in tenants : \E j \in M : content[log][j].rec = v
    BY <1>2 DEF Matched, Matches, All
  <2>3. TenantView(rec.tenant).total = Cardinality(M) BY DEF TenantView, QueryAudit
  <2>. HIDE DEF M
  <2>. QED BY <2>1, <2>2, <2>3, AsMany
<1>10. ASSUME rec.host # None
       PROVE  /\ StigHostView(rec.host, Monitored).total >= Cardinality(hosts)
              /\ \A listed \in MonitoredHosts :
                   /\ StigOverview(listed).total >= Cardinality(hosts)
                   /\ ByHost(All, None, listed)[rec.host] >= Cardinality(hosts)
  <2>. DEFINE S == {j \in Loaded : RecordAt(j).host = rec.host}
  <2>1. S \in SUBSET Loaded /\ \A v \in hosts : \E j \in S : content[log][j].rec = v BY <1>2
  <2>2. Cardinality(S) >= Cardinality(hosts)
    <3>. HIDE DEF S
    <3>. QED BY <2>1, AsMany
  <2>3. Findings(All, rec.host) = S BY <1>10, Places DEF Findings, QInv
  <2>4. Findings(All, None) = {j \in Loaded : RecordAt(j).host # None} BY Places DEF Findings, QInv
  <2>5. Cardinality(Findings(All, None)) >= Cardinality(hosts)
    <3>. DEFINE F == Findings(All, None)
    <3>1. F \in SUBSET Loaded /\ \A v \in hosts : \E j \in F : content[log][j].rec = v
      BY <1>10, <2>1, <2>4
    <3>. HIDE DEF F
    <3>2. Cardinality(F) >= Cardinality(hosts) BY <3>1, AsMany
    <3>. QED BY <3>2 DEF F
  <2>6. StigHostView(rec.host, Monitored).total = Cardinality(S) BY <2>3 DEF StigHostView
  <2>7. ASSUME NEW listed \in MonitoredHosts
        PROVE  /\ StigOverview(listed).total >= Cardinality(hosts)
               /\ ByHost(All, None, listed)[rec.host] >= Cardinality(hosts)
    <3>1. StigOverview(listed).total = Cardinality(Findings(All, None)) BY DEF StigOverview
    <3>2. i \in Findings(All, None) BY <1>3, <1>10, <2>4
    <3>3. {j \in Findings(All, None) : RecordAt(j).host = rec.host} = S BY <1>10, <2>4
    <3>4. ByHost(All, None, listed)[rec.host] = Cardinality(S) BY <1>3, <3>2, <3>3 DEF ByHost
    <3>. QED BY <2>2, <2>5, <3>1, <3>4
  <2>. QED BY <2>2, <2>6, <2>7
<1>. QED BY <1>4, <1>5, <1>6, <1>7, <1>8, <1>9, <1>10

LEMMA InvShowsNotes == QInv => NotesShown
<1>. SUFFICES ASSUME QInv, ~Overlong, NEW a \in Annotator, pc[a] = "done" PROVE
       LET w == Target[a]
           line == GetRecord(stamp[w], Meta[w].run, Meta[w].agent)
           kept == {b \in Annotator : Target[b] = w /\ pc[b] = "done"}
       IN  /\ line # None
           /\ kept \subseteq line.notes
           /\ \A k \in 0..Cardinality(Writer) : \A hit \in QueryAudit(All, k * Limit).hits :
                hit.rec = w => hit.notes >= Cardinality(kept)
  BY Zenon DEF NotesShown
<1>. DEFINE w == Target[a]
            at == {j \in Loaded : /\ StampAt(j) = stamp[w] /\ RecordAt(j).run = Meta[w].run
                                  /\ RecordAt(j).agent = Meta[w].agent}
            kept == {b \in Annotator : Target[b] = w /\ pc[b] = "done"}
<1>0. w \in Writer OBVIOUS
<1>1. PICK i \in DOMAIN content[log] : content[log][i].rec = w BY DEF QInv, LogInv, Noted
<1>2. i \in Loaded
  <2>1. content[log] \in Seq(Line) BY DEF QInv, LogInv, TypeOK
  <2>. QED BY <2>1 DEF Overlong, Loaded
<1>3. at = {i}
  <2>1. i \in at BY <1>1, <1>2 DEF StampAt, RecordAt
  <2>2. ASSUME NEW j \in at PROVE j = i
    <3>1. content[log][j].rec \in Writer /\ j \in DOMAIN content[log] BY Places DEF QInv
    <3>2. content[log][j].rec = w
      BY <1>0, <3>1 DEF RecordAt
    <3>. QED BY <1>1, <3>1, <3>2 DEF QInv, LogInv, OneLine
  <2>. QED BY <2>1, <2>2
<1>4. GetRecord(stamp[w], Meta[w].run, Meta[w].agent) = content[log][i]
  <2>1. i \in Nat BY <1>2, Places DEF QInv
  <2>2. (CHOOSE x \in at : \A y \in at : x <= y) = i
    <3>. HIDE DEF at
    <3>. QED BY <1>3, <2>1
  <2>. QED BY <1>3, <2>2 DEF GetRecord
<1>5. content[log][i] \in Line BY Places DEF QInv
<1>6. kept \subseteq content[log][i].notes BY <1>1 DEF QInv, LogInv, Noted, OneLine
<1>7. Cardinality(content[log][i].notes) >= Cardinality(kept)
  <2>1. content[log][i].notes \in SUBSET Process BY <1>5 DEF Line, Process
  <2>. DEFINE notes == content[log][i].notes
  <2>. HIDE DEF kept, notes
  <2>2. IsFiniteSet(notes) BY <2>1, FS_Subset DEF notes
  <2>3. kept \in SUBSET notes BY <1>6 DEF notes
  <2>4. IsFiniteSet(kept) /\ Cardinality(kept) <= Cardinality(notes) BY <2>2, <2>3, FS_Subset
  <2>5. Cardinality(kept) \in Nat /\ Cardinality(notes) \in Nat BY <2>2, <2>4, FS_CardinalityType
  <2>. QED BY <2>4, <2>5 DEF notes
<1>8. ASSUME NEW k, NEW hit \in QueryAudit(All, k * Limit).hits, hit.rec = w
      PROVE  hit.notes >= Cardinality(kept)
  <2>1. PICK j \in Page(Matched(All), k * Limit) : hit = Summary(content[log][j])
    BY DEF QueryAudit
  <2>2. j \in DOMAIN content[log] BY Places DEF Page, QInv
  <2>3. j = i BY <1>1, <1>8, <2>1, <2>2 DEF Summary, QInv, LogInv, OneLine
  <2>. QED BY <1>7, <2>1, <2>3 DEF Summary
<1>. QED BY <1>4, <1>5, <1>6, <1>8

-----------------------------------------------------------------------------
\* A step of the log that only adds: lines and notes grow, and the address under
\* which annotate_audit_record finds a record stays its own.
LinesKept == Grown /\ \A i \in DOMAIN content[log] : StampAt(i)' = StampAt(i)

\* While no annotation overlaps another call, the log only grows: no step of a
\* writer, of an annotation (which replaces the file) or of a process that dies
\* removes or moves a line, drops a note, or changes the address of a record.
THEOREM LinesAreKept == QSpec => [][LinesKept]_qvars
<1>1. QInv /\ [QNext /\ AnnotatesAlone']_qvars => [LinesKept]_qvars
  <2> SUFFICES ASSUME QInv, QNext, AnnotatesAlone' PROVE LinesKept
    OBVIOUS
  <2>1. CASE NextPage
    <3>1. UNCHANGED <<content, log, stamp>> BY <2>1 DEF NextPage, vars
    <3>. QED BY <3>1 DEF LinesKept, Grown, StampAt
  <2>2. CASE ~NextPage
    <3>1. /\ Grown
          /\ \A i \in DOMAIN content[log] : stamp'[content[log][i].rec] = stamp[content[log][i].rec]
      BY <2>2, CallSteps
    <3>. QED BY <3>1 DEF LinesKept, Grown, StampAt
  <2>. QED BY <2>1, <2>2
<1>. QED BY <1>1, InvariantHolds, PTL DEF QSpec

\* Whatever a call has written and returned, every tool and page shows, while the
\* log is not longer than they read and no annotation overlaps another call.
THEOREM RecordsAreShown == QSpec => []ReadBack
BY InvariantHolds, InvShowsRecords, PTL

\* No annotation that was answered ok is lost, and query_audit counts it.
THEOREM NotesAreShown == QSpec => []NotesShown
BY InvariantHolds, InvShowsNotes, PTL

\* A client that pages to the end has seen every record that was there when it
\* began, whatever the page size and whatever is written meanwhile.
THEOREM PagerMissesNothing == QSpec => []PagerSeesAll
<1>1. QInv => PagerSeesAll BY DEF QInv
<1>. QED BY <1>1, InvariantHolds, PTL
=============================================================================
