------------------------- MODULE WarcStorageProofs -------------------------
(***************************************************************************)
(* Proofs about WarcStorage, for any number of archive() calls of any      *)
(* pages, any number of them at once, any buffer size, and any number of   *)
(* failed uploads, crashes, cancellations and shutdowns.                   *)
(***************************************************************************)
EXTENDS WarcStorage, FiniteSetTheorems, TLAPS

-----------------------------------------------------------------------------
(***************************************************************************)
(* The log.  The records that a writer was ever given, in order, are held  *)
(* by no variable once the writer was replaced; still, the buffer, the     *)
(* copies under way, the objects and the rows all agree with one such log  *)
(* per file, and this is what makes rows and reads consistent.             *)
(***************************************************************************)
PrefixOf(s, t) == Len(s) <= Len(t) /\ \A p \in 1 .. Len(s) : s[p] = t[p]

\* The row x names its own record.
Names(x, log) ==
  /\ x.pos <= Len(log[x.file])
  /\ log[x.file][x.pos] = Rec(x.job, x.revisit)

Writing == {"uploading", "uploaded", "indexing"}

Explains(log) ==
  /\ log \in [Files -> Seq(Record)]
  /\ log[file] = buf
  /\ \A f \in Files : f > file => log[f] = <<>>
  /\ \A f \in Files : PrefixOf(s3[f], log[f])
  /\ \A x \in index : Names(x, log)
  /\ \A j \in Jobs : pc[j] \in Writing => Names(row[j], log)
  /\ \A j \in Jobs : pc[j] = "uploading" => snap[j] # <<>> /\ PrefixOf(snap[j], log[row[j].file])

\* A call's row is made by Write, from the answer of the duplicate query.
RowsOfCalls ==
  \A j \in Jobs : pc[j] \in Writing =>
    row[j] \in Row /\ row[j].job = j /\ row[j].revisit = dup[j]

\* A full record with the digest of j is indexed.
HasOriginal(j) == \E y \in index : ~y.revisit /\ Sha[y.job] = Sha[j]

DupHasOriginal ==
  /\ \A j \in Jobs : pc[j] \in InFlight /\ dup[j] => HasOriginal(j)
  /\ \A x \in index : x.revisit => HasOriginal(x.job)

\* Every new writer is due to a call that is past its reset, a fault or a shutdown.
Past == {j \in Jobs : pc[j] \in {"indexing", "done"}}
WritersCounted == file <= 1 + Cardinality(Past) + faults + stops

Base == TypeOK /\ WritersCounted /\ RowsOfCalls

IInv == Base /\ DupHasOriginal /\ \E log : Explains(log)

-----------------------------------------------------------------------------
(* One call at a time: what the writer holds, the upload holds too.        *)

Held(x) == x.pos <= Len(s3[x.file]) \/ (x.file = file /\ x.pos <= Len(buf))

AloneInFlight ==
  ~overlapped => \A i, j \in Jobs : pc[i] \in InFlight /\ pc[j] \in InFlight => i = j

SerialHolds ==
  /\ \A x \in index : Held(x)
  /\ \A j \in Jobs :
       /\ pc[j] = "indexing" => Held(row[j])
       /\ pc[j] \in {"uploading", "uploaded"} => row[j].file = file /\ row[j].pos <= Len(buf)
       /\ pc[j] = "uploading" => snap[j] = buf
       /\ pc[j] = "uploaded" => s3[file] = buf

SerialInv == AloneInFlight /\ (~overlapped /\ faults = 0 => SerialHolds)

-----------------------------------------------------------------------------
(* Counting writers, and what Append does.                                 *)

LEMMA CountJobs ==
  ASSUME NEW S \in SUBSET Jobs
  PROVE  /\ IsFiniteSet(S) /\ Cardinality(S) \in Nat /\ Cardinality(Jobs) \in Nat
         /\ Cardinality(S) <= Cardinality(Jobs)
         /\ \A j \in Jobs \ S : Cardinality(S \cup {j}) = Cardinality(S) + 1
         /\ \A T \in SUBSET S : Cardinality(T) <= Cardinality(S)
  BY WarcAssumption, FS_Subset, FS_CardinalityType, FS_AddElement

LEMMA AppendFacts ==
  ASSUME NEW S, NEW s \in Seq(S), NEW e \in S
  PROVE  /\ Append(s, e) \in Seq(S)
         /\ Len(Append(s, e)) = Len(s) + 1
         /\ \A p \in 1 .. Len(s) : Append(s, e)[p] = s[p]
         /\ Append(s, e)[Len(s) + 1] = e
         /\ Len(s) \in Nat /\ Append(s, e) # <<>>
  OBVIOUS

LEMMA PrefixFacts ==
  ASSUME NEW S, NEW s \in Seq(S), NEW t \in Seq(S), PrefixOf(s, t), NEW e \in S
  PROVE  /\ PrefixOf(s, Append(t, e))
         /\ PrefixOf(s, s)
         /\ s # <<>> => t # <<>> /\ Head(s) = Head(t)
  BY AppendFacts DEF PrefixOf

\* A number of writers that the counts allow is a number of a file.
LEMMA FileInBounds ==
  ASSUME NEW f \in Nat \ {0}, NEW S \in SUBSET Jobs, NEW a \in 0 .. MaxFaults, NEW b \in 0 .. MaxStops,
         f <= 1 + Cardinality(S) + a + b
  PROVE  f \in Files
  BY CountJobs, WarcAssumption DEF Files

-----------------------------------------------------------------------------
(* Types and writers.                                                      *)

LEMMA InitBase == Init => Base
  <1> SUFFICES ASSUME Init PROVE Base
    OBVIOUS
  <1>1. Past \in SUBSET Jobs /\ Cardinality(Past) \in Nat
    BY CountJobs DEF Past
  <1>2. WritersCounted
    BY <1>1 DEF Init, WritersCounted
  <1>3. file \in Files
    BY <1>1, <1>2, FileInBounds, WarcAssumption DEF Init, WritersCounted
  <1>4. TypeOK
    <2>1. <<>> \in Seq(Record)
      OBVIOUS
    <2>2. row \in [Jobs -> Row \cup {NoRow}]
      BY DEF Init
    <2>3. faults \in 0 .. MaxFaults /\ cancels \in 0 .. MaxCancels /\ stops \in 0 .. MaxStops
      BY WarcAssumption DEF Init
    <2>4. buf \in Seq(Record) /\ s3 \in [Files -> Seq(Record)] /\ snap \in [Jobs -> Seq(Record)]
      BY <2>1 DEF Init
    <2> QED
      BY <1>3, <2>2, <2>3, <2>4 DEF Init, TypeOK, Steps
  <1>5. RowsOfCalls
    BY DEF Init, RowsOfCalls, Writing
  <1> QED BY <1>2, <1>4, <1>5 DEF Base

\* A step that opens no writer and undoes no progress keeps the count.
LEMMA SameWriter ==
  ASSUME TypeOK, WritersCounted, file' = file, Past \subseteq Past', Past' \in SUBSET Jobs,
         faults' \in Nat, stops' \in Nat, faults' >= faults, stops' >= stops
  PROVE  WritersCounted'
  <1>1. Cardinality(Past) \in Nat /\ Cardinality(Past') \in Nat /\ Cardinality(Past) <= Cardinality(Past')
    BY CountJobs
  <1> QED
    BY <1>1, WarcAssumption DEF TypeOK, WritersCounted, Files

\* A step that opens a writer pays for it with a call, a fault or a shutdown.
LEMMA NewWriter ==
  ASSUME TypeOK, WritersCounted, file' = file + 1, Past \subseteq Past', Past' \in SUBSET Jobs,
         faults' \in 0 .. MaxFaults, stops' \in 0 .. MaxStops, faults' >= faults, stops' >= stops,
         \/ faults' = faults + 1 \/ stops' = stops + 1
         \/ \E j \in Jobs \ Past : Past' = Past \cup {j}
  PROVE  WritersCounted' /\ file' \in Files
  <1>0. faults \in Nat /\ stops \in Nat /\ faults' \in Nat /\ stops' \in Nat
    BY WarcAssumption DEF TypeOK
  <1>1. Cardinality(Past) \in Nat /\ Cardinality(Past') \in Nat /\ Cardinality(Past) <= Cardinality(Past')
    BY CountJobs
  <1>2. Cardinality(Past') + faults' + stops' >= Cardinality(Past) + faults + stops + 1
    <2>1. CASE faults' = faults + 1 \/ stops' = stops + 1
      BY <1>0, <1>1, <2>1
    <2>2. CASE \E j \in Jobs \ Past : Past' = Past \cup {j}
      <3>1. Past \in SUBSET Jobs
        BY DEF Past
      <3>2. Cardinality(Past') = Cardinality(Past) + 1
        BY <2>2, <3>1, CountJobs
      <3> QED BY <1>0, <1>1, <3>2
    <2> QED BY <2>1, <2>2
  <1>3. file \in Nat \ {0}
    BY CountJobs, WarcAssumption DEF TypeOK, Files
  <1>4. WritersCounted'
    <2>1. file <= 1 + Cardinality(Past) + faults + stops
      BY DEF WritersCounted
    <2>2. file' <= 1 + Cardinality(Past') + faults' + stops'
      BY <1>0, <1>1, <1>2, <1>3, <2>1
    <2> QED BY <2>2 DEF WritersCounted
  <1>5. file' \in Files
    BY <1>3, <1>4, FileInBounds DEF WritersCounted
  <1> QED BY <1>4, <1>5

LEMMA NextBase == Base /\ [Next]_vars => Base'
  <1> SUFFICES ASSUME Base, [Next]_vars PROVE Base'
    OBVIOUS
  <1> USE WarcAssumption DEF Base, bounds
  <1>a. /\ Past \in SUBSET Jobs /\ Past' \in SUBSET Jobs
        /\ faults \in Nat /\ stops \in Nat /\ pc \in [Jobs -> Steps] /\ file \in Files
    BY DEF Past, TypeOK
  <1>1. ASSUME NEW j \in Jobs, CheckDuplicate(j) PROVE Base'
    <2>1. Past \subseteq Past'
      BY <1>1, <1>a DEF CheckDuplicate, Step, Past
    <2>2. WritersCounted'
      BY <1>1, <1>a, <2>1, SameWriter DEF CheckDuplicate
    <2>3. TypeOK'
      <3>1. (\E x \in index : Url[x.job] = Url[j] /\ Sha[x.job] = Sha[j]) \in BOOLEAN
            /\ (overlapped \/ \E i \in Jobs : pc[i] \in InFlight) \in BOOLEAN
        OBVIOUS
      <3> QED BY <1>1, <3>1 DEF CheckDuplicate, Step, TypeOK, Steps
    <2>4. RowsOfCalls'
      BY <1>1 DEF CheckDuplicate, Step, TypeOK, RowsOfCalls, Writing
    <2> QED BY <2>2, <2>3, <2>4
  <1>2. ASSUME NEW j \in Jobs, Write(j) PROVE Base'
    <2> DEFINE rec == Rec(j, dup[j])
               new == Append(buf, rec)
    <2>1. Past \subseteq Past'
      BY <1>2, <1>a DEF Write, Step, Past
    <2>2. WritersCounted'
      BY <1>2, <1>a, <2>1, SameWriter DEF Write
    <2>3. rec \in Record /\ new \in Seq(Record) /\ Len(new) \in Nat \ {0}
      <3>1. rec \in Record /\ buf \in Seq(Record)
        BY DEF TypeOK, Rec, Record
      <3> QED BY <3>1, AppendFacts
    <2>4. [job |-> j, file |-> file, pos |-> Len(new), revisit |-> dup[j]] \in Row
      BY <2>3 DEF TypeOK, Row
    <2> HIDE DEF new
    <2>5. /\ buf' = new /\ row' = [row EXCEPT ![j] = [job |-> j, file |-> file, pos |-> Len(new), revisit |-> dup[j]]]
          /\ pc' \in [Jobs -> Steps] /\ snap' \in [Jobs -> Seq(Record)]
          /\ \A i \in Jobs \ {j} : pc'[i] = pc[i]
      BY <1>2, <2>3 DEF Write, Step, TypeOK, Steps, new
    <2>6. TypeOK'
      BY <1>2, <2>3, <2>4, <2>5 DEF Write, TypeOK
    <2>7. RowsOfCalls'
      BY <1>2, <2>4, <2>5 DEF Write, TypeOK, RowsOfCalls
    <2> QED BY <2>2, <2>6, <2>7
  <1>3. ASSUME NEW j \in Jobs, PutObject(j) PROVE Base'
    <2>1. Past \subseteq Past'
      BY <1>3, <1>a DEF PutObject, Step, Past
    <2>2. WritersCounted'
      BY <1>3, <1>a, <2>1, SameWriter DEF PutObject
    <2>3. TypeOK'
      BY <1>3 DEF PutObject, Step, TypeOK, Steps
    <2>4. RowsOfCalls'
      BY <1>3 DEF PutObject, Step, TypeOK, RowsOfCalls, Writing
    <2> QED BY <2>2, <2>3, <2>4
  <1>4. ASSUME NEW j \in Jobs, PutFails(j) PROVE Base'
    <2>1. Past \subseteq Past'
      BY <1>4, <1>a DEF PutFails, Step, Past
    <2>2. WritersCounted'
      BY <1>4, <1>a, <2>1, SameWriter DEF PutFails, Fault
    <2>3. TypeOK'
      BY <1>4 DEF PutFails, Fault, Step, TypeOK, Steps
    <2>4. RowsOfCalls'
      BY <1>4 DEF PutFails, Step, TypeOK, RowsOfCalls, Writing
    <2> QED BY <2>2, <2>3, <2>4
  <1>5. ASSUME NEW j \in Jobs, ResetWriter(j) PROVE Base'
    <2>1. j \in Jobs \ Past /\ Past' = Past \cup {j}
      BY <1>5, <1>a DEF ResetWriter, Step, Past
    <2>2. faults' \in 0 .. MaxFaults /\ stops' \in 0 .. MaxStops /\ faults' = faults /\ stops' = stops
      BY <1>5 DEF ResetWriter, TypeOK
    <2>3. WritersCounted' /\ file' \in Files
      BY <1>5, <1>a, <2>1, <2>2, NewWriter DEF ResetWriter
    <2>4. TypeOK'
      <3>1. buf' \in Seq(Record) /\ aged' \in BOOLEAN
        <4>1. buf' = <<>> /\ aged' = FALSE
          BY <1>5 DEF ResetWriter
        <4>2. buf' \in Seq(Record)
          BY <4>1
        <4> QED BY <4>1, <4>2
      <3> QED BY <1>5, <2>2, <2>3, <3>1 DEF ResetWriter, Step, TypeOK, Steps
    <2>5. RowsOfCalls'
      BY <1>5 DEF ResetWriter, Step, TypeOK, RowsOfCalls, Writing
    <2> QED BY <2>3, <2>4, <2>5
  <1>6. ASSUME NEW j \in Jobs, IndexRecord(j) PROVE Base'
    <2>1. Past \subseteq Past'
      BY <1>6, <1>a DEF IndexRecord, Step, Past
    <2>2. WritersCounted'
      BY <1>6, <1>a, <2>1, SameWriter DEF IndexRecord
    <2>3. row[j] \in Row
      BY <1>6 DEF IndexRecord, Step, RowsOfCalls, Writing
    <2>4. TypeOK'
      BY <1>6, <2>3 DEF IndexRecord, Step, TypeOK, Steps
    <2>5. RowsOfCalls'
      BY <1>6 DEF IndexRecord, Step, TypeOK, RowsOfCalls, Writing
    <2> QED BY <2>2, <2>4, <2>5
  <1>7. ASSUME NEW j \in Jobs, Abandoned(j) PROVE Base'
    <2>1. Past \subseteq Past'
      BY <1>7, <1>a DEF Abandoned, Past
    <2>2. WritersCounted'
      BY <1>7, <1>a, <2>1, SameWriter DEF Abandoned
    <2>3. TypeOK'
      BY <1>7 DEF Abandoned, TypeOK, Steps
    <2>4. RowsOfCalls'
      BY <1>7 DEF Abandoned, TypeOK, RowsOfCalls, Writing
    <2> QED BY <2>2, <2>3, <2>4
  <1>8. CASE ShutdownFlush
    <2>1. Past' = Past
      BY <1>8 DEF ShutdownFlush, Past
    <2>2. faults' \in 0 .. MaxFaults /\ stops' \in 0 .. MaxStops /\ faults' >= faults /\ stops' = stops + 1
      BY <1>8 DEF ShutdownFlush, TypeOK
    <2>3. WritersCounted' /\ file' \in Files
      BY <1>8, <1>a, <2>1, <2>2, NewWriter DEF ShutdownFlush
    <2>4. TypeOK'
      <3>1. s3' \in [Files -> Seq(Record)] /\ buf' \in Seq(Record)
        <4>1. buf \in Seq(Record) /\ s3 \in [Files -> Seq(Record)] /\ file \in Files
          BY DEF TypeOK
        <4>2. buf' = <<>> /\ (s3' = [s3 EXCEPT ![file] = buf] \/ s3' = s3)
          BY <1>8 DEF ShutdownFlush
        <4>3. buf' \in Seq(Record)
          BY <4>2
        <4> QED BY <4>1, <4>2, <4>3
      <3> QED BY <1>8, <2>2, <2>3, <3>1 DEF ShutdownFlush, TypeOK
    <2>5. RowsOfCalls'
      BY <1>8 DEF ShutdownFlush, RowsOfCalls
    <2> QED BY <2>3, <2>4, <2>5
  <1>9. CASE Crash
    <2>1. Past \subseteq Past'
      BY <1>9, <1>a DEF Crash, Past, InFlight
    <2>2. faults' \in 0 .. MaxFaults /\ stops' \in 0 .. MaxStops /\ faults' = faults + 1 /\ stops' = stops
      BY <1>9 DEF Crash, Fault, TypeOK
    <2>3. WritersCounted' /\ file' \in Files
      BY <1>9, <1>a, <2>1, <2>2, NewWriter DEF Crash
    <2>4. TypeOK'
      <3>1. buf' \in Seq(Record) /\ aged' \in BOOLEAN
        <4>1. buf' = <<>> /\ aged' = FALSE
          BY <1>9 DEF Crash
        <4>2. buf' \in Seq(Record)
          BY <4>1
        <4> QED BY <4>1, <4>2
      <3> QED BY <1>9, <2>2, <2>3, <3>1 DEF Crash, Fault, TypeOK, Steps
    <2>5. RowsOfCalls'
      BY <1>9 DEF Crash, TypeOK, RowsOfCalls, Writing, InFlight
    <2> QED BY <2>3, <2>4, <2>5
  <1>10. CASE UNCHANGED vars
    BY <1>10 DEF vars, TypeOK, WritersCounted, Past, RowsOfCalls
  <1> QED
    BY <1>1, <1>2, <1>3, <1>4, <1>5, <1>6, <1>7, <1>8, <1>9, <1>10 DEF Next

-----------------------------------------------------------------------------
(* Revisits.                                                               *)

\* Rows are only added, and an added revisit row repeats what its call was told.
LEMMA NextDup == Base /\ DupHasOriginal /\ [Next]_vars => DupHasOriginal'
  <1> SUFFICES ASSUME Base, DupHasOriginal, [Next]_vars PROVE DupHasOriginal'
    OBVIOUS
  <1> USE DEF DupHasOriginal, HasOriginal
  <1>a. pc \in [Jobs -> Steps] /\ dup \in [Jobs -> BOOLEAN] /\ index \subseteq Row
    BY DEF Base, TypeOK
  <1>1. ASSUME NEW j \in Jobs, CheckDuplicate(j) PROVE DupHasOriginal'
    <2>1. index' = index /\ pc' = [pc EXCEPT ![j] = "checked"]
          /\ \E answered \in BOOLEAN : dup' =
               [dup EXCEPT ![j] = answered /\ \E x \in index : Url[x.job] = Url[j] /\ Sha[x.job] = Sha[j]]
      BY <1>1 DEF CheckDuplicate, Step
    <2>2. ASSUME NEW x \in index, Sha[x.job] = Sha[j] PROVE HasOriginal(j)
      <3>1. CASE x.revisit
        BY <2>2, <3>1
      <3>2. CASE ~x.revisit
        BY <2>2, <3>2
      <3> QED BY <3>1, <3>2
    <2>3. ASSUME NEW i \in Jobs, pc'[i] \in InFlight, dup'[i] PROVE HasOriginal(i)
      <3>1. CASE i = j
        BY <1>a, <2>1, <2>2, <2>3, <3>1
      <3>2. CASE i # j
        BY <1>a, <2>1, <2>3, <3>2
      <3> QED BY <3>1, <3>2
    <2> QED BY <2>1, <2>3
  <1>2. ASSUME NEW j \in Jobs, IndexRecord(j) PROVE DupHasOriginal'
    <2>1. index' = index \cup {row[j]} /\ dup' = dup /\ pc' = [pc EXCEPT ![j] = "done"] /\ pc[j] = "indexing"
      BY <1>2 DEF IndexRecord, Step
    <2>2. row[j].job = j /\ row[j].revisit = dup[j]
      BY <2>1 DEF Base, RowsOfCalls, Writing
    <2>3. row[j].revisit => HasOriginal(row[j].job)
      <3> SUFFICES ASSUME row[j].revisit PROVE HasOriginal(row[j].job)
        OBVIOUS
      <3>1. dup[j]
        BY <2>2, Zenon
      <3>2. pc[j] \in InFlight
        BY <2>1 DEF InFlight
      <3> QED BY <2>2, <3>1, <3>2
    <2> QED BY <1>a, <2>1, <2>3 DEF InFlight
  <1>3. ASSUME index' = index, dup' = dup, \A i \in Jobs : pc'[i] \in InFlight => pc[i] \in InFlight
        PROVE  DupHasOriginal'
    BY <1>3
  <1>4. ASSUME NEW j \in Jobs, Write(j) \/ PutObject(j) \/ PutFails(j) \/ ResetWriter(j) \/ Abandoned(j)
        PROVE  DupHasOriginal'
    <2>1. index' = index /\ dup' = dup
      BY <1>4 DEF Write, PutObject, PutFails, ResetWriter, Abandoned
    <2>2. \A i \in Jobs : pc'[i] \in InFlight => pc[i] \in InFlight
      BY <1>4, <1>a DEF Write, PutObject, PutFails, ResetWriter, Abandoned, Step, InFlight
    <2> QED BY <1>3, <2>1, <2>2
  <1>5. CASE ShutdownFlush \/ Crash \/ UNCHANGED vars
    <2>1. index' = index /\ dup' = dup
      BY <1>5 DEF ShutdownFlush, Crash, vars
    <2>2. \A i \in Jobs : pc'[i] \in InFlight => pc[i] \in InFlight
      BY <1>5, <1>a DEF ShutdownFlush, Crash, vars, InFlight
    <2> QED BY <1>3, <2>1, <2>2
  <1> QED
    BY <1>1, <1>2, <1>4, <1>5 DEF Next

-----------------------------------------------------------------------------
(* The log explains every view of a file.                                  *)

LEMMA InitExplains == Init => \E log : Explains(log)
  <1> SUFFICES ASSUME Init PROVE Explains(s3)
    OBVIOUS
  <1>1. s3 \in [Files -> Seq(Record)] /\ file \in Files
    BY InitBase DEF Base, TypeOK
  <1>2. \A f \in Files : s3[f] = <<>> /\ PrefixOf(s3[f], s3[f])
    BY <1>1 DEF Init, PrefixOf
  <1> QED
    BY <1>1, <1>2 DEF Init, Explains, Writing

\* Write extends the log of the current file, everything else leaves the logs alone.
LEMMA WriteExplains ==
  ASSUME Base, Base', NEW log, Explains(log), NEW j \in Jobs, Write(j)
  PROVE  \E lg : Explains(lg)'
  <1> DEFINE rec == Rec(j, dup[j])
             new == Append(buf, rec)
  <1>1. /\ file \in Files /\ buf \in Seq(Record) /\ rec \in Record /\ log \in [Files -> Seq(Record)]
        /\ log[file] = buf /\ s3 \in [Files -> Seq(Record)] /\ pc \in [Jobs -> Steps]
        /\ snap \in [Jobs -> Seq(Record)] /\ row \in [Jobs -> Row \cup {NoRow}] /\ index \subseteq Row
    BY DEF Base, TypeOK, Rec, Record, Explains
  <1>2. /\ new \in Seq(Record) /\ Len(new) = Len(buf) + 1 /\ new[Len(new)] = rec /\ new # <<>>
        /\ Len(buf) \in Nat /\ \A p \in 1 .. Len(buf) : new[p] = buf[p]
    BY <1>1, AppendFacts
  <1>3. PrefixOf(new, new)
    BY <1>2 DEF PrefixOf
  <1>4. \A s \in Seq(Record) : PrefixOf(s, buf) => PrefixOf(s, new)
    BY <1>1, PrefixFacts
  <1> HIDE DEF new
  <1>5. /\ file' = file /\ buf' = new /\ s3' = s3 /\ index' = index
        /\ row' = [row EXCEPT ![j] = [job |-> j, file |-> file, pos |-> Len(new), revisit |-> dup[j]]]
        /\ \A i \in Jobs \ {j} : pc'[i] = pc[i] /\ snap'[i] = snap[i] /\ row'[i] = row[i]
        /\ pc'[j] = "uploading" => snap'[j] = new
    BY <1>1, <1>2 DEF Write, Step, new
  <1> PICK lg : lg = [log EXCEPT ![file] = new]
    OBVIOUS
  <1>6. lg \in [Files -> Seq(Record)] /\ lg[file] = new /\ \A f \in Files \ {file} : lg[f] = log[f]
    BY <1>1, <1>2
  <1>7. \A f \in Files, s \in Seq(Record) : PrefixOf(s, log[f]) => PrefixOf(s, lg[f])
    BY <1>1, <1>4, <1>6
  <1>8. ASSUME NEW x \in Row, Names(x, log) PROVE Names(x, lg)
    <2>1. x.file \in Files /\ x.pos \in Nat \ {0}
      BY DEF Row
    <2>2. CASE x.file = file
      BY <1>1, <1>2, <1>6, <1>8, <2>1, <2>2 DEF Names
    <2>3. CASE x.file # file
      BY <1>6, <1>8, <2>1, <2>3 DEF Names
    <2> QED BY <2>2, <2>3
  <1>9. row'[j].file = file /\ row'[j].pos = Len(new) /\ row'[j].job = j /\ row'[j].revisit = dup[j]
    BY <1>1, <1>5
  <1>10. Names(row'[j], lg)
    <2>1. Len(new) <= Len(new)
      BY <1>2
    <2> QED BY <1>2, <1>6, <1>9, <2>1 DEF Names
  <1> HIDE DEF rec
  <1>11. \A i \in Jobs : pc'[i] \in Writing => Names(row'[i], lg)
    BY <1>5, <1>8, <1>10 DEF Explains, Base, RowsOfCalls
  <1>12. \A x \in index' : Names(x, lg)
    BY <1>1, <1>5, <1>8 DEF Explains
  <1>13. \A f \in Files : PrefixOf(s3'[f], lg[f])
    BY <1>1, <1>5, <1>7 DEF Explains
  <1>14. \A i \in Jobs : pc'[i] = "uploading" => snap'[i] # <<>> /\ PrefixOf(snap'[i], lg[row'[i].file])
    <2> SUFFICES ASSUME NEW i \in Jobs, pc'[i] = "uploading"
                 PROVE  snap'[i] # <<>> /\ PrefixOf(snap'[i], lg[row'[i].file])
      OBVIOUS
    <2>1. CASE i = j
      BY <1>2, <1>3, <1>5, <1>6, <1>9, <2>1
    <2>2. CASE i # j
      <3>1. pc[i] = "uploading" /\ row'[i] = row[i] /\ snap'[i] = snap[i] /\ row[i] \in Row
        BY <1>5, <2>2 DEF Base, RowsOfCalls, Writing
      <3>2. row[i].file \in Files /\ snap[i] \in Seq(Record)
        BY <1>1, <3>1 DEF Row
      <3> QED BY <1>7, <3>1, <3>2 DEF Explains
    <2> QED BY <2>1, <2>2
  <1>15. \A f \in Files : f > file' => lg[f] = <<>>
    BY <1>5, <1>6, CountJobs, WarcAssumption DEF Explains, Files
  <1>16. lg \in [Files -> Seq(Record)] /\ lg[file'] = buf'
    BY <1>5, <1>6
  <1> QED
    BY <1>11, <1>12, <1>13, <1>14, <1>15, <1>16 DEF Explains

\* A step that appends to no buffer keeps the log: it may take up the next writer, put
\* another prefix of the log into S3, or add a row that names its own record.
LEMMA KeepExplains ==
  ASSUME Base, Base', NEW log, Explains(log),
         \/ file' = file /\ buf' = buf
         \/ file' = file + 1 /\ buf' = <<>>,
         \A f \in Files : s3'[f] = s3[f] \/ PrefixOf(s3'[f], log[f]),
         \A x \in index' : x \in index \/ Names(x, log),
         row' = row, snap' = snap,
         \A i \in Jobs : /\ pc'[i] \in Writing => pc[i] \in Writing
                         /\ pc'[i] = "uploading" => pc[i] = "uploading"
  PROVE  Explains(log)'
  <1>1. log[file'] = buf'
    BY DEF Base, TypeOK, Explains, Files
  <1>2. \A f \in Files : f > file' => log[f] = <<>>
    BY CountJobs, WarcAssumption DEF Base, TypeOK, Explains, Files
  <1>3. \A f \in Files : PrefixOf(s3'[f], log[f])
    BY DEF Explains
  <1> QED
    BY <1>1, <1>2, <1>3 DEF Explains

LEMMA NextExplains ==
  ASSUME Base, Base', [Next]_vars, \E log : Explains(log)
  PROVE  \E log : Explains(log)'
  <1> PICK log : Explains(log)
    OBVIOUS
  <1>a. /\ pc \in [Jobs -> Steps] /\ file \in Files /\ s3 \in [Files -> Seq(Record)]
        /\ log[file] = buf /\ log \in [Files -> Seq(Record)]
    BY DEF Base, TypeOK, Explains
  <1>1. ASSUME NEW j \in Jobs, Write(j) PROVE \E lg : Explains(lg)'
    BY <1>1, WriteExplains
  <1>2. ASSUME NEW j \in Jobs, CheckDuplicate(j) \/ PutFails(j) \/ Abandoned(j) PROVE Explains(log)'
    <2>1. /\ file' = file /\ buf' = buf /\ s3' = s3 /\ index' = index /\ row' = row /\ snap' = snap
      BY <1>2 DEF CheckDuplicate, PutFails, Abandoned
    <2>2. \A i \in Jobs : /\ pc'[i] \in Writing => pc[i] \in Writing
                          /\ pc'[i] = "uploading" => pc[i] = "uploading"
      BY <1>2, <1>a DEF CheckDuplicate, PutFails, Abandoned, Step, Writing
    <2> QED BY <2>1, <2>2, KeepExplains
  <1>3. ASSUME NEW j \in Jobs, PutObject(j) PROVE Explains(log)'
    <2>1. /\ file' = file /\ buf' = buf /\ index' = index /\ row' = row /\ snap' = snap
          /\ s3' = [s3 EXCEPT ![row[j].file] = snap[j]] /\ pc[j] = "uploading"
          /\ pc' = [pc EXCEPT ![j] = "uploaded"]
      BY <1>3 DEF PutObject, Step
    <2>2. \A i \in Jobs : /\ pc'[i] \in Writing => pc[i] \in Writing
                          /\ pc'[i] = "uploading" => pc[i] = "uploading"
      BY <1>a, <2>1 DEF Writing
    <2>3. PrefixOf(snap[j], log[row[j].file])
      BY <2>1 DEF Explains
    <2>4. \A f \in Files : s3'[f] = s3[f] \/ PrefixOf(s3'[f], log[f])
      BY <1>a, <2>1, <2>3
    <2> QED BY <2>1, <2>2, <2>4, KeepExplains
  <1>4. ASSUME NEW j \in Jobs, ResetWriter(j) PROVE Explains(log)'
    <2>1. /\ file' = file + 1 /\ buf' = <<>> /\ s3' = s3 /\ index' = index /\ row' = row /\ snap' = snap
          /\ pc[j] = "uploaded" /\ pc' = [pc EXCEPT ![j] = "indexing"]
      BY <1>4 DEF ResetWriter, Step
    <2>2. \A i \in Jobs : /\ pc'[i] \in Writing => pc[i] \in Writing
                          /\ pc'[i] = "uploading" => pc[i] = "uploading"
      BY <1>a, <2>1 DEF Writing
    <2> QED BY <2>1, <2>2, KeepExplains
  <1>5. ASSUME NEW j \in Jobs, IndexRecord(j) PROVE Explains(log)'
    <2>1. /\ file' = file /\ buf' = buf /\ s3' = s3 /\ index' = index \cup {row[j]} /\ row' = row /\ snap' = snap
          /\ pc[j] = "indexing" /\ pc' = [pc EXCEPT ![j] = "done"]
      BY <1>5 DEF IndexRecord, Step
    <2>2. \A i \in Jobs : /\ pc'[i] \in Writing => pc[i] \in Writing
                          /\ pc'[i] = "uploading" => pc[i] = "uploading"
      BY <1>a, <2>1 DEF Writing
    <2>3. Names(row[j], log)
      BY <2>1 DEF Explains, Writing
    <2> QED BY <2>1, <2>2, <2>3, KeepExplains
  <1>6. CASE ShutdownFlush
    <2>1. /\ file' = file + 1 /\ buf' = <<>> /\ index' = index /\ row' = row /\ snap' = snap /\ pc' = pc
          /\ s3' = [s3 EXCEPT ![file] = buf] \/ s3' = s3
      BY <1>6 DEF ShutdownFlush
    <2>2. PrefixOf(buf, buf) /\ Len(buf) \in Nat
      BY DEF Base, TypeOK, PrefixOf
    <2>3. \A f \in Files : s3'[f] = s3[f] \/ PrefixOf(s3'[f], log[f])
      BY <1>a, <2>1, <2>2
    <2> QED BY <2>1, <2>3, KeepExplains
  <1>7. CASE Crash
    <2>1. /\ file' = file + 1 /\ buf' = <<>> /\ s3' = s3 /\ index' = index /\ row' = row /\ snap' = snap
          /\ pc' = [j \in Jobs |-> IF pc[j] \in InFlight THEN "done" ELSE pc[j]]
      BY <1>7 DEF Crash
    <2>2. \A i \in Jobs : /\ pc'[i] \in Writing => pc[i] \in Writing
                          /\ pc'[i] = "uploading" => pc[i] = "uploading"
      BY <1>a, <2>1 DEF Writing
    <2> QED BY <2>1, <2>2, KeepExplains
  <1>8. CASE UNCHANGED vars
    <2>1. /\ file' = file /\ buf' = buf /\ s3' = s3 /\ index' = index /\ row' = row /\ snap' = snap /\ pc' = pc
      BY <1>8 DEF vars
    <2> QED BY <2>1, KeepExplains
  <1> QED
    BY <1>1, <1>2, <1>3, <1>4, <1>5, <1>6, <1>7, <1>8 DEF Next

-----------------------------------------------------------------------------
(* The theorems.                                                           *)

LEMMA InitIInv == Init => IInv
  <1>1. Init => DupHasOriginal
    BY DEF Init, DupHasOriginal, InFlight
  <1> QED BY <1>1, InitBase, InitExplains DEF IInv

LEMMA NextIInv == IInv /\ [Next]_vars => IInv'
  BY NextBase, NextDup, NextExplains DEF IInv

\* Throughout every behaviour the files have a log that all their views agree with.
THEOREM Invariance == Spec => []IInv
  BY InitIInv, NextIInv, PTL DEF Spec

\* Type correctness: in particular no more files are opened than calls, faults and
\* shutdowns account for.
THEOREM TypeCorrect == Spec => []TypeOK
  <1>1. IInv => TypeOK
    BY DEF IInv, Base
  <1> QED BY <1>1, Invariance, PTL

\* For any number of overlapping, failing and cancelled uploads, an index row never points
\* at somebody else's record.
THEOREM RowsAreSound == Spec => []RowsPointAtTheirOwn
  <1>1. IInv => RowsPointAtTheirOwn
    <2> SUFFICES ASSUME IInv, NEW x \in index, x.pos <= Len(s3[x.file])
                 PROVE  s3[x.file][x.pos] = Rec(x.job, x.revisit)
      BY DEF RowsPointAtTheirOwn
    <2>1. PICK log : Explains(log)
      BY DEF IInv
    <2>2. /\ x.file \in Files /\ x.pos \in Nat \ {0} /\ s3[x.file] \in Seq(Record)
      BY DEF IInv, Base, TypeOK, Row
    <2>3. x.pos \in 1 .. Len(s3[x.file])
      BY <2>2
    <2>4. PrefixOf(s3[x.file], log[x.file]) /\ Names(x, log)
      BY <2>1, <2>2 DEF Explains
    <2> QED
      BY <2>3, <2>4 DEF PrefixOf, Names
  <1> QED BY <1>1, Invariance, PTL

\* For any pages and any interleaving, a revisit row always has an indexed full record
\* with its digest.
THEOREM RevisitsResolve == Spec => []RevisitHasOriginal
  <1>1. IInv => RevisitHasOriginal
    BY DEF IInv, DupHasOriginal, HasOriginal, RevisitHasOriginal, Originals
  <1> QED BY <1>1, Invariance, PTL

-----------------------------------------------------------------------------
(***************************************************************************)
(* Serial calls.  A record is never only in the copy that is uploaded: the *)
(* buffer still holds it until the copy has arrived, and no one else can   *)
(* have replaced the buffer.  So the invariant drops the third disjunct of *)
(* Kept.                                                                   *)
(***************************************************************************)

\* What S3 holds of the current file the buffer holds too.
LEMMA BufferCovers ==
  ASSUME IInv, NEW f \in Files
  PROVE  /\ Len(s3[f]) \in Nat /\ Len(buf) \in Nat
         /\ f = file => Len(s3[f]) <= Len(buf)
  <1>1. PICK log : Explains(log)
    BY DEF IInv
  <1>2. PrefixOf(s3[f], log[f]) /\ log[file] = buf
    BY <1>1 DEF Explains
  <1>3. s3[f] \in Seq(Record) /\ buf \in Seq(Record)
    BY DEF IInv, Base, TypeOK
  <1> QED BY <1>2, <1>3 DEF PrefixOf

LEMMA NextSerial == IInv /\ SerialInv /\ [Next]_vars => SerialInv'
  <1> SUFFICES ASSUME IInv, SerialInv, [Next]_vars PROVE SerialInv'
    OBVIOUS
  <1>a. /\ pc \in [Jobs -> Steps] /\ file \in Files /\ s3 \in [Files -> Seq(Record)] /\ buf \in Seq(Record)
        /\ snap \in [Jobs -> Seq(Record)] /\ row \in [Jobs -> Row \cup {NoRow}] /\ index \subseteq Row
        /\ faults \in Nat /\ overlapped \in BOOLEAN
    BY WarcAssumption DEF IInv, Base, TypeOK
  <1>b. \A x \in Row : x.file \in Files /\ x.pos \in Nat
    BY DEF Row
  <1>c. \A j \in Jobs : pc[j] \in Writing => row[j] \in Row
    BY DEF IInv, Base, RowsOfCalls
  <1>d. \A f \in Files : /\ Len(s3[f]) \in Nat /\ Len(buf) \in Nat
                         /\ f = file => Len(s3[f]) <= Len(buf)
    BY BufferCovers
  <1>1. AloneInFlight'
    <2>1. ASSUME NEW j \in Jobs, CheckDuplicate(j) PROVE AloneInFlight'
      BY <1>a, <2>1 DEF CheckDuplicate, Step, AloneInFlight, InFlight
    <2>2. ASSUME overlapped' = overlapped, \A i \in Jobs : pc'[i] \in InFlight => pc[i] \in InFlight
          PROVE  AloneInFlight'
      BY <2>2 DEF SerialInv, AloneInFlight
    <2>3. ASSUME NEW j \in Jobs, Write(j) \/ PutObject(j) \/ PutFails(j) \/ ResetWriter(j) \/ IndexRecord(j)
                                   \/ Abandoned(j)
          PROVE  overlapped' = overlapped /\ \A i \in Jobs : pc'[i] \in InFlight => pc[i] \in InFlight
      BY <1>a, <2>3 DEF Write, PutObject, PutFails, ResetWriter, IndexRecord, Abandoned, Step, InFlight
    <2>4. CASE ShutdownFlush \/ Crash \/ UNCHANGED vars
      BY <1>a, <2>2, <2>4 DEF ShutdownFlush, Crash, vars, InFlight
    <2> QED
      BY <2>1, <2>2, <2>3, <2>4 DEF Next
  <1>2. ASSUME ~overlapped', faults' = 0 PROVE SerialHolds'
    <2>a. ASSUME ~overlapped, faults = 0
          PROVE  SerialHolds /\ \A i, j \in Jobs : pc[i] \in InFlight /\ pc[j] \in InFlight => i = j
      BY <2>a DEF SerialInv, AloneInFlight
    <2>1. ASSUME NEW j \in Jobs, CheckDuplicate(j) PROVE SerialHolds'
      <3>1. /\ file' = file /\ buf' = buf /\ s3' = s3 /\ index' = index /\ row' = row /\ snap' = snap
            /\ faults' = faults /\ pc' = [pc EXCEPT ![j] = "checked"]
            /\ ~overlapped
        BY <1>2, <2>1 DEF CheckDuplicate, Step, bounds
      <3>2. SerialHolds
        BY <1>2, <2>a, <3>1
      <3> QED BY <1>a, <3>1, <3>2 DEF SerialHolds, Held
    <2>2. ASSUME NEW j \in Jobs, Write(j) PROVE SerialHolds'
      <3> DEFINE new == Append(buf, Rec(j, dup[j]))
      <3>1. /\ file' = file /\ buf' = new /\ s3' = s3 /\ index' = index
            /\ row' = [row EXCEPT ![j] = [job |-> j, file |-> file, pos |-> Len(new), revisit |-> dup[j]]]
            /\ faults' = faults /\ overlapped' = overlapped /\ pc[j] = "checked"
            /\ \/ pc' = [pc EXCEPT ![j] = "uploading"] /\ snap' = [snap EXCEPT ![j] = new]
               \/ pc' = [pc EXCEPT ![j] = "indexing"] /\ snap' = snap
        BY <2>2 DEF Write, Step, bounds
      <3>2. SerialHolds /\ \A i \in Jobs : i # j => pc[i] \notin InFlight
        BY <1>2, <2>a, <3>1 DEF InFlight
      <3>3. Len(new) \in Nat /\ Len(new) > Len(buf)
        <4>1. dup[j] \in BOOLEAN
          BY DEF IInv, Base, TypeOK
        <4>2. Rec(j, dup[j]) \in Record
          BY <4>1 DEF Rec, Record
        <4> QED BY <1>a, <4>2, AppendFacts
      <3> HIDE DEF new
      <3>4. \A x \in index' : Held(x)'
        BY <1>a, <1>b, <1>d, <3>1, <3>2, <3>3 DEF SerialHolds, Held
      <3>5. row'[j].file = file /\ row'[j].pos = Len(new)
        BY <1>a, <3>1
      <3>6. Held(row[j])'
        BY <3>1, <3>3, <3>5 DEF Held
      <3>7. \A i \in Jobs : i # j => pc'[i] \notin Writing
        BY <1>a, <3>1, <3>2 DEF InFlight, Writing
      <3>8. pc'[j] \in {"uploading", "indexing"} /\ (pc'[j] = "uploading" => snap'[j] = new)
        BY <1>a, <3>1
      <3> QED
        BY <3>1, <3>3, <3>4, <3>5, <3>6, <3>7, <3>8 DEF SerialHolds, Writing
    <2>3. ASSUME NEW j \in Jobs, PutObject(j) PROVE SerialHolds'
      <3>1. /\ file' = file /\ buf' = buf /\ s3' = [s3 EXCEPT ![row[j].file] = snap[j]] /\ index' = index
            /\ row' = row /\ snap' = snap /\ faults' = faults /\ overlapped' = overlapped
            /\ pc[j] = "uploading" /\ pc' = [pc EXCEPT ![j] = "uploaded"]
        BY <2>3 DEF PutObject, Step, bounds
      <3>2. SerialHolds /\ \A i \in Jobs : i # j => pc[i] \notin InFlight
        BY <1>2, <2>a, <3>1 DEF InFlight
      <3>3. row[j].file = file /\ row[j].pos <= Len(buf) /\ snap[j] = buf
        BY <3>1, <3>2 DEF SerialHolds
      <3>4. s3' = [s3 EXCEPT ![file] = buf]
        BY <3>1, <3>3
      <3>5. \A x \in index' : Held(x)'
        BY <1>a, <1>b, <1>d, <3>1, <3>2, <3>4 DEF SerialHolds, Held
      <3>6. \A i \in Jobs : i # j => pc'[i] \notin Writing
        BY <1>a, <3>1, <3>2 DEF InFlight, Writing
      <3> QED
        BY <1>a, <3>1, <3>3, <3>4, <3>5, <3>6 DEF SerialHolds, Writing
    <2>4. ASSUME NEW j \in Jobs, PutFails(j) PROVE FALSE
      BY <1>2, <1>a, <2>4 DEF PutFails, Fault
    <2>5. ASSUME NEW j \in Jobs, ResetWriter(j) PROVE SerialHolds'
      <3>1. /\ file' = file + 1 /\ buf' = <<>> /\ s3' = s3 /\ index' = index
            /\ row' = row /\ snap' = snap /\ faults' = faults /\ overlapped' = overlapped
            /\ pc[j] = "uploaded" /\ pc' = [pc EXCEPT ![j] = "indexing"]
        BY <2>5 DEF ResetWriter, Step, bounds
      <3>2. SerialHolds /\ \A i \in Jobs : i # j => pc[i] \notin InFlight
        BY <1>2, <2>a, <3>1 DEF InFlight
      <3>3. row[j].file = file /\ row[j].pos <= Len(buf) /\ s3[file] = buf
        BY <3>1, <3>2 DEF SerialHolds
      <3>4. \A x \in index' : Held(x)'
        BY <3>1, <3>2, <3>3 DEF SerialHolds, Held
      <3>5. Held(row[j])'
        BY <3>1, <3>3 DEF Held
      <3>6. \A i \in Jobs : i # j => pc'[i] \notin Writing
        BY <1>a, <3>1, <3>2 DEF InFlight, Writing
      <3> QED
        BY <1>a, <3>1, <3>4, <3>5, <3>6 DEF SerialHolds, Writing
    <2>6. ASSUME NEW j \in Jobs, IndexRecord(j) PROVE SerialHolds'
      <3>1. /\ file' = file /\ buf' = buf /\ s3' = s3 /\ index' = index \cup {row[j]}
            /\ row' = row /\ snap' = snap /\ faults' = faults /\ overlapped' = overlapped
            /\ pc[j] = "indexing" /\ pc' = [pc EXCEPT ![j] = "done"]
        BY <2>6 DEF IndexRecord, Step, bounds
      <3>2. SerialHolds
        BY <1>2, <2>a, <3>1
      <3> QED
        BY <1>a, <3>1, <3>2 DEF SerialHolds, Held
    <2>7. ASSUME NEW j \in Jobs, Abandoned(j) PROVE SerialHolds'
      <3>1. /\ file' = file /\ buf' = buf /\ s3' = s3 /\ index' = index
            /\ row' = row /\ snap' = snap /\ faults' = faults /\ overlapped' = overlapped
            /\ pc' = [pc EXCEPT ![j] = "done"]
        BY <2>7 DEF Abandoned
      <3>2. SerialHolds
        BY <1>2, <2>a, <3>1
      <3> QED
        BY <1>a, <3>1, <3>2 DEF SerialHolds, Held
    <2>8. CASE ShutdownFlush
      <3>1. /\ file' = file + 1 /\ buf' = <<>> /\ index' = index
            /\ row' = row /\ snap' = snap /\ overlapped' = overlapped /\ pc' = pc
            /\ \A j \in Jobs : pc[j] \notin InFlight
        BY <2>8 DEF ShutdownFlush
      <3>2. s3' = [s3 EXCEPT ![file] = buf] /\ faults = 0
        BY <1>2, <1>a, <2>8 DEF ShutdownFlush
      <3>3. SerialHolds
        BY <1>2, <2>a, <3>1, <3>2
      <3>4. \A x \in index' : Held(x)'
        BY <1>a, <1>b, <1>d, <3>1, <3>2, <3>3 DEF SerialHolds, Held
      <3> QED
        BY <3>1, <3>4 DEF SerialHolds, InFlight
    <2>9. CASE Crash
      BY <1>2, <1>a, <2>9 DEF Crash, Fault
    <2>10. CASE UNCHANGED vars
      BY <1>2, <2>a, <2>10 DEF vars, bounds, SerialHolds, Held
    <2> QED
      BY <2>1, <2>2, <2>3, <2>4, <2>5, <2>6, <2>7, <2>8, <2>9, <2>10 DEF Next
  <1> QED
    BY <1>1, <1>2 DEF SerialInv

\* While the calls come one at a time and nothing fails, no indexed record is lost, for
\* any number of calls, cancellations at any await, and shutdowns.
THEOREM SerialCallsKeepAll == Spec => []SerialCallsLoseNothing
  <1>1. Init => SerialInv
    BY DEF Init, SerialInv, AloneInFlight, SerialHolds, InFlight
  <1>2. SerialInv => SerialCallsLoseNothing
    BY DEF SerialInv, SerialHolds, SerialCallsLoseNothing, Held, Kept
  <1> QED
    BY <1>1, <1>2, NextSerial, Invariance, PTL DEF Spec

-----------------------------------------------------------------------------
(***************************************************************************)
(* Reads.  Two rows of one place are one row, by the log; and while the    *)
(* calls come one at a time, a row that is about to be indexed was         *)
(* captured after all the indexed ones.                                    *)
(***************************************************************************)
Ordered == ~overlapped => \A x \in index, j \in Jobs : pc[j] \in Writing => Earlier(x, row[j])

ReadInv == SerialInv /\ Ordered

LEMMA NextOrdered == IInv /\ SerialInv /\ Ordered /\ [Next]_vars => Ordered'
  <1> SUFFICES ASSUME IInv, SerialInv, Ordered, [Next]_vars, ~overlapped',
                      NEW x \in index', NEW i \in Jobs, pc'[i] \in Writing
               PROVE  Earlier(x, row'[i])
    BY DEF Ordered, Earlier
  <1>a. /\ pc \in [Jobs -> Steps] /\ file \in Files /\ buf \in Seq(Record) /\ index \subseteq Row
        /\ row \in [Jobs -> Row \cup {NoRow}] /\ overlapped \in BOOLEAN
    BY DEF IInv, Base, TypeOK
  <1>1. ASSUME ~overlapped, x \in index, row' = row, pc[i] \in Writing PROVE Earlier(x, row'[i])
    BY <1>1 DEF Ordered
  <1>2. ASSUME NEW j \in Jobs, CheckDuplicate(j) PROVE Earlier(x, row'[i])
    <2>1. ~overlapped /\ index' = index /\ row' = row /\ pc' = [pc EXCEPT ![j] = "checked"]
      BY <1>2 DEF CheckDuplicate, Step
    <2> QED BY <1>1, <1>a, <2>1 DEF Writing
  <1>3. ASSUME NEW j \in Jobs, Write(j) PROVE Earlier(x, row'[i])
    <2> DEFINE new == Append(buf, Rec(j, dup[j]))
    <2>1. /\ index' = index /\ overlapped' = overlapped /\ pc[j] = "checked"
          /\ row' = [row EXCEPT ![j] = [job |-> j, file |-> file, pos |-> Len(new), revisit |-> dup[j]]]
          /\ \A k \in Jobs : k # j => pc'[k] = pc[k]
      BY <1>3, <1>a DEF Write, Step
    <2>2. CASE i = j
      <3>1. row'[i].file = file /\ row'[i].pos = Len(new)
        BY <1>a, <2>1, <2>2
      <3>2. Len(new) = Len(buf) + 1 /\ Len(buf) \in Nat
        <4>1. Rec(j, dup[j]) \in Record
          BY DEF IInv, Base, TypeOK, Rec, Record
        <4> QED BY <1>a, <4>1, AppendFacts
      <3>3. x.file \in Files /\ x.pos \in Nat \ {0}
        BY <1>a, <2>1 DEF Row
      <3>4. PICK log : Explains(log)
        BY DEF IInv
      <3>5. x.pos <= Len(log[x.file]) /\ log[file] = buf /\ (x.file > file => log[x.file] = <<>>)
        BY <2>1, <3>3, <3>4 DEF Explains, Names
      <3>6. ~(x.file > file)
        BY <3>3, <3>5
      <3>7. file \in Int /\ x.file \in Int
        BY <1>a, <3>3, CountJobs, WarcAssumption DEF Files
      <3> HIDE DEF new
      <3> QED BY <3>1, <3>2, <3>3, <3>5, <3>6, <3>7 DEF Earlier
    <2>3. CASE i # j
      <3>1. row'[i] = row[i] /\ pc[i] \in Writing
        BY <1>a, <2>1, <2>3
      <3> QED BY <2>1, <3>1 DEF Ordered
    <2> QED BY <2>2, <2>3
  <1>4. ASSUME NEW j \in Jobs, IndexRecord(j) PROVE Earlier(x, row'[i])
    <2>1. /\ index' = index \cup {row[j]} /\ row' = row /\ overlapped' = overlapped
          /\ pc[j] = "indexing" /\ pc' = [pc EXCEPT ![j] = "done"]
      BY <1>4 DEF IndexRecord, Step
    <2>2. pc[i] \in Writing /\ i # j
      BY <1>a, <2>1 DEF Writing
    <2>3. pc[i] \in InFlight /\ pc[j] \in InFlight
      BY <2>1, <2>2 DEF Writing, InFlight
    <2> QED
      BY <2>1, <2>2, <2>3 DEF SerialInv, AloneInFlight
  <1>5. ASSUME NEW j \in Jobs, PutObject(j) \/ PutFails(j) \/ ResetWriter(j) \/ Abandoned(j)
        PROVE  Earlier(x, row'[i])
    <2>1. index' = index /\ row' = row /\ overlapped' = overlapped
      BY <1>5 DEF PutObject, PutFails, ResetWriter, Abandoned
    <2>2. pc[i] \in Writing
      BY <1>a, <1>5 DEF PutObject, PutFails, ResetWriter, Abandoned, Step, Writing
    <2> QED BY <1>1, <2>1, <2>2
  <1>6. CASE ShutdownFlush \/ Crash \/ UNCHANGED vars
    <2>1. index' = index /\ row' = row /\ overlapped' = overlapped
      BY <1>6 DEF ShutdownFlush, Crash, vars
    <2>2. pc[i] \in Writing
      BY <1>a, <1>6 DEF ShutdownFlush, Crash, vars, Writing
    <2> QED BY <1>1, <2>1, <2>2
  <1> QED
    BY <1>2, <1>3, <1>4, <1>5, <1>6 DEF Next

\* Of two rows that are named by one log and neither of which was captured before the
\* other, both are the same row.
LEMMA OneRowPerPlace ==
  ASSUME NEW log, NEW y \in Row, NEW z \in Row, Names(y, log), Names(z, log),
         ~Earlier(y, z), ~Earlier(z, y)
  PROVE  y = z
  <1>1. /\ y.file \in Int /\ z.file \in Int /\ y.pos \in Int /\ z.pos \in Int
    BY CountJobs, WarcAssumption DEF Row, Files
  <1>2. y.file = z.file /\ y.pos = z.pos
    BY <1>1 DEF Earlier
  <1>3. Rec(y.job, y.revisit) = Rec(z.job, z.revisit)
    BY <1>2 DEF Names
  <1>4. y.job = z.job /\ y.revisit = z.revisit
    BY <1>3 DEF Rec
  <1> QED
    BY <1>2, <1>4 DEF Row

\* What a step does to the first record of a file that is in S3: nothing.
LEMMA FirstRecordStays ==
  ASSUME IInv, Next, NEW x \in index, s3[x.file] # <<>>
  PROVE  Head(s3'[x.file]) = Head(s3[x.file])
  <1>1. PICK log : Explains(log)
    BY DEF IInv
  <1>2. /\ x.file \in Files /\ s3 \in [Files -> Seq(Record)] /\ log \in [Files -> Seq(Record)]
        /\ file \in Files /\ buf \in Seq(Record) /\ snap \in [Jobs -> Seq(Record)] /\ log[file] = buf
    BY <1>1 DEF IInv, Base, TypeOK, Row, Explains
  <1>3. \A f \in Files, s \in Seq(Record) :
          PrefixOf(s, log[f]) /\ s # <<>> => log[f] # <<>> /\ Head(s) = Head(log[f])
    <2> SUFFICES ASSUME NEW f \in Files, NEW s \in Seq(Record), PrefixOf(s, log[f]), s # <<>>
                 PROVE  log[f] # <<>> /\ Head(s) = Head(log[f])
      OBVIOUS
    <2>1. Len(s) \in Nat \ {0} /\ Len(log[f]) \in Nat /\ log[f] \in Seq(Record)
      BY <1>2
    <2>2. s[1] = log[f][1] /\ Len(log[f]) # 0
      BY <2>1 DEF PrefixOf
    <2> QED BY <2>1, <2>2
  <1>4. Head(s3[x.file]) = Head(log[x.file]) /\ log[x.file] # <<>>
    BY <1>1, <1>2, <1>3 DEF Explains
  <1>5. ASSUME NEW j \in Jobs, PutObject(j) PROVE Head(s3'[x.file]) = Head(s3[x.file])
    <2>1. PrefixOf(snap[j], log[row[j].file]) /\ snap[j] # <<>> /\ s3' = [s3 EXCEPT ![row[j].file] = snap[j]]
      BY <1>1, <1>5 DEF PutObject, Step, Explains
    <2> QED BY <1>2, <1>3, <1>4, <2>1
  <1>6. CASE ShutdownFlush
    <2>1. s3' = [s3 EXCEPT ![file] = buf] \/ s3' = s3
      BY <1>6 DEF ShutdownFlush
    <2> QED BY <1>2, <1>4, <2>1
  <1>7. CASE s3' = s3
    BY <1>7
  <1> QED
    BY <1>5, <1>6, <1>7 DEF Next, CheckDuplicate, Write, PutFails, ResetWriter, IndexRecord, Abandoned, Crash

\* A row answers with the same record for good, for any order in which copies of its file
\* arrive in S3, but for revisits after overlapping calls: those may move to an earlier
\* capture of the same digest that was indexed late.
THEOREM ReadsStayTheSame == Spec => ReadsAreStable
  <1> DEFINE A == \A x \in index : \A t \in Targets(x), u \in Targets(x)' :
                    \/ u = t /\ (s3[t.file] # <<>> => BodyRead(t)' = BodyRead(t))
                    \/ x.revisit /\ overlapped /\ Earlier(u, t)
  <1>1. IInv /\ IInv' /\ ReadInv /\ [Next]_vars => [A]_vars
    <2> SUFFICES ASSUME IInv, IInv', ReadInv, Next, NEW x \in index, NEW t \in Targets(x), NEW u \in Targets(x)'
                 PROVE  \/ u = t /\ (s3[t.file] # <<>> => Head(s3'[t.file]) = Head(s3[t.file]))
                        \/ x.revisit /\ overlapped /\ Earlier(u, t)
      BY DEF BodyRead
    <2>1. t \in index /\ t \in Originals(x) /\ \A z \in Originals(x) : ~Earlier(z, t)
      BY DEF Targets, Originals
    <2>2. s3[t.file] # <<>> => Head(s3'[t.file]) = Head(s3[t.file])
      BY <2>1, FirstRecordStays
    <2>3. CASE ~x.revisit
      BY <2>2, <2>3 DEF Targets, Originals
    <2>4. CASE x.revisit
      <3>1. /\ u \in index' /\ ~u.revisit /\ Sha[u.job] = Sha[x.job]
            /\ \A z \in index' : ~z.revisit /\ Sha[z.job] = Sha[x.job] => ~Earlier(z, u)
        BY <2>4 DEF Targets, Originals, Earlier
      <3>2. /\ ~t.revisit /\ Sha[t.job] = Sha[x.job]
            /\ \A z \in index : ~z.revisit /\ Sha[z.job] = Sha[x.job] => ~Earlier(z, t)
        BY <2>1, <2>4 DEF Originals
      <3>3. index \subseteq Row /\ index' \subseteq Row
        BY DEF IInv, Base, TypeOK
      <3>4. index' = index \/ \E j \in Jobs : IndexRecord(j)
        BY DEF Next, CheckDuplicate, Write, PutObject, PutFails, ResetWriter, Abandoned, ShutdownFlush, Crash
      <3>5. t \in index'
        BY <2>1, <3>4 DEF IndexRecord
      <3>6. ~Earlier(t, u)
        BY <3>1, <3>2, <3>5
      <3>7. \E log : Names(t, log) /\ Names(u, log)
        <4>1. PICK log : Explains(log)'
          BY DEF IInv
        <4> QED BY <3>1, <3>5, <4>1 DEF Explains, Names
      <3>8. ~Earlier(u, t) => u = t
        BY <2>1, <3>1, <3>3, <3>6, <3>7, OneRowPerPlace
      <3>9. Earlier(u, t) => overlapped
        <4> SUFFICES ASSUME Earlier(u, t), ~overlapped PROVE FALSE
          OBVIOUS
        <4>1. u \notin index
          BY <3>1, <3>2
        <4>2. PICK j \in Jobs : IndexRecord(j)
          BY <3>1, <3>4, <4>1
        <4>3. u = row[j] /\ pc[j] \in Writing
          BY <3>1, <4>1, <4>2 DEF IndexRecord, Step, Writing
        <4> QED BY <2>1, <3>6, <4>3 DEF ReadInv, Ordered
      <3> QED BY <2>2, <2>4, <3>8, <3>9
    <2> QED BY <2>3, <2>4
  <1>2. Init => ReadInv
    BY DEF Init, ReadInv, Ordered, SerialInv, AloneInFlight, SerialHolds, InFlight
  <1>3. IInv /\ ReadInv /\ [Next]_vars => ReadInv'
    BY NextSerial, NextOrdered DEF ReadInv
  <1> QED
    BY <1>1, <1>2, <1>3, Invariance, PTL DEF Spec, ReadsAreStable
=============================================================================
