---------------------------- MODULE WarcStorage ----------------------------
(***************************************************************************)
(* WarcStorage.archive and _rotate (services/warc/storage.py), with the    *)
(* in-memory writer, the deduplication index in PostgreSQL, the objects in *)
(* S3, and what GET /v1/archive/{id} reads back.                           *)
(*                                                                         *)
(* All jobs of a worker share one writer and one event loop: control moves *)
(* from one job to another only at an await (the duplicate query, the      *)
(* upload, the index commit), so one action is what a job does between two *)
(* awaits.  A page is a URL and a digest; a file is the number of the      *)
(* writer that filled it (file names carry a random suffix).               *)
(***************************************************************************)
EXTENDS Integers, Sequences, FiniteSets

CONSTANTS
  Jobs,         \* the archive() calls
  Url, Sha,     \* the URL and the digest each call archives
  MaxArchiving, \* calls in progress at once (max_jobs of the worker)
  MaxRecords,   \* records that make a buffer reach warc_max_size_bytes
  MaxFaults,    \* bound on failed uploads and crashes
  MaxCancels,   \* bound on calls cut short by a cancellation or a failed commit
  MaxStops      \* bound on orderly shutdowns

ASSUME WarcAssumption ==
  /\ IsFiniteSet(Jobs)
  /\ MaxArchiving \in Nat \ {0}
  /\ MaxRecords \in Nat \ {0}
  /\ MaxFaults \in Nat
  /\ MaxCancels \in Nat
  /\ MaxStops \in Nat

VARIABLES
  file,     \* the current writer's file
  buf,      \* the current writer's records
  aged,     \* whether the current writer was found older than warc_max_age_seconds
  s3,       \* the objects in S3: the records of each file, <<>> if there is none
  index,    \* the rows of warc_index
  pc,       \* where each call is
  dup,      \* per call: whether a duplicate was found
  row,      \* per call: the index row it will insert
  snap,     \* per call: the bytes it uploads
  overlapped, \* history: whether two calls were ever in progress at once
  faults, cancels, stops

bounds == <<faults, cancels, stops>>
vars == <<file, buf, aged, s3, index, pc, dup, row, snap, overlapped, bounds>>

Steps     == {"idle", "checked", "uploading", "uploaded", "indexing", "done"}
InFlight  == {"checked", "uploading", "uploaded", "indexing"}
Files     == 1 .. Cardinality(Jobs) + MaxFaults + MaxStops + 1
NoRow     == [job |-> {}, file |-> 0, pos |-> 0, revisit |-> FALSE]
Rec(j, r) == [job |-> j, revisit |-> r]

Init ==
  /\ file = 1
  /\ buf = <<>>
  /\ aged = FALSE
  /\ s3 = [f \in Files |-> <<>>]
  /\ index = {}
  /\ pc = [j \in Jobs |-> "idle"]
  /\ dup = [j \in Jobs |-> FALSE]
  /\ row = [j \in Jobs |-> NoRow]
  /\ snap = [j \in Jobs |-> <<>>]
  /\ overlapped = FALSE
  /\ faults = 0
  /\ cancels = 0
  /\ stops = 0

Step(j, from, to) == pc[j] = from /\ pc' = [pc EXCEPT ![j] = to]
Fault == faults < MaxFaults /\ faults' = faults + 1 /\ UNCHANGED <<cancels, stops>>

-----------------------------------------------------------------------------

\* Faulty variant: the duplicate is looked up among the records of the buffer too.
CheckDuplicate_Buffered(j) ==
  /\ Cardinality({i \in Jobs : pc[i] \in InFlight}) < MaxArchiving
  /\ Step(j, "idle", "checked")
  /\ overlapped' = (overlapped \/ \E i \in Jobs : pc[i] \in InFlight)
  /\ \E answered \in BOOLEAN :
       dup' = [dup EXCEPT ![j] = answered /\
         \/ \E x \in index : Url[x.job] = Url[j] /\ Sha[x.job] = Sha[j]
         \/ \E i \in 1 .. Len(buf) : Url[buf[i].job] = Url[j] /\ Sha[buf[i].job] = Sha[j]]
  /\ UNCHANGED <<file, buf, aged, s3, index, row, snap, bounds>>

\* check_duplicate: a row with the same URL and digest; a query that fails finds none.
CheckDuplicate(j) ==
  /\ Cardinality({i \in Jobs : pc[i] \in InFlight}) < MaxArchiving
  /\ Step(j, "idle", "checked")
  /\ overlapped' = (overlapped \/ \E i \in Jobs : pc[i] \in InFlight)
  /\ \E answered \in BOOLEAN :
       dup' = [dup EXCEPT ![j] =
         answered /\ \E x \in index : Url[x.job] = Url[j] /\ Sha[x.job] = Sha[j]]
  /\ UNCHANGED <<file, buf, aged, s3, index, row, snap, bounds>>

\* The record is appended and its file name captured; a buffer that is full or old (at
\* any time, for the model, and then until it is replaced) is copied for the upload
\* before the first await.
Write(j) ==
  LET rec == Rec(j, dup[j])
      new == Append(buf, rec)
  IN
  /\ buf' = new
  /\ row' = [row EXCEPT ![j] =
               [job |-> j, file |-> file, pos |-> Len(new), revisit |-> dup[j]]]
  /\ aged' \in {aged, TRUE}
  /\ \/ /\ aged' \/ Len(new) >= MaxRecords
        /\ Step(j, "checked", "uploading")
        /\ snap' = [snap EXCEPT ![j] = new]
     \/ /\ ~aged' /\ Len(new) < MaxRecords
        /\ Step(j, "checked", "indexing")
        /\ snap' = snap
  /\ UNCHANGED <<file, s3, index, dup, overlapped, bounds>>

\* put_object takes effect: the whole object is replaced by the copy.
PutObject(j) ==
  /\ Step(j, "uploading", "uploaded")
  /\ s3' = [s3 EXCEPT ![row[j].file] = snap[j]]
  /\ UNCHANGED <<file, buf, aged, index, dup, row, snap, overlapped, bounds>>

\* The upload fails: logged, and treated as done.
PutFails(j) ==
  /\ Fault
  /\ Step(j, "uploading", "uploaded")
  /\ UNCHANGED <<file, buf, aged, s3, index, dup, row, snap, overlapped>>

\* Faulty variant: the buffer is emptied but the file name stays.
ResetWriter_SameName(j) ==
  /\ Step(j, "uploaded", "indexing")
  /\ file' = file
  /\ buf' = <<>>
  /\ aged' = FALSE
  /\ UNCHANGED <<s3, index, dup, row, snap, overlapped, bounds>>

\* The call resumes and replaces whatever writer is current by then.
ResetWriter(j) ==
  /\ Step(j, "uploaded", "indexing")
  /\ file' = file + 1
  /\ buf' = <<>>
  /\ aged' = FALSE
  /\ UNCHANGED <<s3, index, dup, row, snap, overlapped, bounds>>

IndexRecord(j) ==
  /\ Step(j, "indexing", "done")
  /\ index' = index \cup {row[j]}
  /\ UNCHANGED <<file, buf, aged, s3, dup, row, snap, overlapped, bounds>>

\* Cancelled at an await, or the commit of the row fails: nothing else is done.
Abandoned(j) ==
  /\ cancels < MaxCancels
  /\ cancels' = cancels + 1
  /\ pc[j] \in InFlight
  /\ pc' = [pc EXCEPT ![j] = "done"]
  /\ UNCHANGED <<file, buf, aged, s3, index, dup, row, snap, overlapped, faults, stops>>

\* shutdown_flush, once the worker has no task left: the buffer, empty or not, is
\* uploaded or lost, and the next process starts with a writer of its own.
ShutdownFlush ==
  /\ \A j \in Jobs : pc[j] \notin InFlight
  /\ stops < MaxStops
  /\ stops' = stops + 1
  /\ \/ /\ s3' = [s3 EXCEPT ![file] = buf]
        /\ faults' = faults
     \/ /\ faults < MaxFaults
        /\ faults' = faults + 1
        /\ s3' = s3
  /\ file' = file + 1
  /\ buf' = <<>>
  /\ aged' = FALSE
  /\ UNCHANGED <<index, pc, dup, row, snap, overlapped, cancels>>

\* The process dies; a new one starts with an empty writer.
Crash ==
  /\ Fault
  /\ pc' = [j \in Jobs |-> IF pc[j] \in InFlight THEN "done" ELSE pc[j]]
  /\ file' = file + 1
  /\ buf' = <<>>
  /\ aged' = FALSE
  /\ UNCHANGED <<s3, index, dup, row, snap, overlapped>>

Next ==
  \/ \E j \in Jobs : \/ CheckDuplicate(j) \/ Write(j) \/ PutObject(j) \/ PutFails(j)
                     \/ ResetWriter(j) \/ IndexRecord(j) \/ Abandoned(j)
  \/ ShutdownFlush
  \/ Crash

Spec == Init /\ [][Next]_vars

-----------------------------------------------------------------------------
(* What GET /v1/archive/{id} reads.                                        *)

\* captured_at: records are dated as they are written, so by file and by place in it.
Earlier(y, z) == y.file < z.file \/ (y.file = z.file /\ y.pos < z.pos)

\* The rows a read may go to: the row itself, or for a revisit the full records with the
\* same digest, whatever their URL.
Originals(x) == IF x.revisit THEN {y \in index : ~y.revisit /\ Sha[y.job] = Sha[x.job]}
                ELSE {x}

\* The row whose file is read: the one captured first (none, if there is no original).
Targets(x) == {y \in Originals(x) : \A z \in Originals(x) : ~Earlier(z, y)}

\* Faulty variant: the loop over the records goes on to the last.
BodyRead_Last(y) == s3[y.file][Len(s3[y.file])]

\* extract_body takes the first record of the file; the offset is not used.
BodyRead(y) == Head(s3[y.file])

-----------------------------------------------------------------------------
(* Properties.                                                             *)

Record == [job : Jobs, revisit : BOOLEAN]
Row    == [job : Jobs, file : Files, pos : Nat \ {0}, revisit : BOOLEAN]

\* Type correctness: every variable stays in the range that its declaration describes.
TypeOK ==
  /\ file \in Files
  /\ buf \in Seq(Record)
  /\ aged \in BOOLEAN
  /\ s3 \in [Files -> Seq(Record)]
  /\ index \subseteq Row
  /\ pc \in [Jobs -> Steps]
  /\ dup \in [Jobs -> BOOLEAN]
  /\ row \in [Jobs -> Row \cup {NoRow}]
  /\ snap \in [Jobs -> Seq(Record)]
  /\ overlapped \in BOOLEAN
  /\ faults \in 0 .. MaxFaults
  /\ cancels \in 0 .. MaxCancels
  /\ stops \in 0 .. MaxStops

\* Whatever uploads overlap, fail or are cut short, an index row never points at
\* somebody else's record: its place in the object is empty or holds its own record.
RowsPointAtTheirOwn ==
  \A x \in index : x.pos <= Len(s3[x.file]) => s3[x.file][x.pos] = Rec(x.job, x.revisit)

\* A revisit row always has an indexed full record with its digest, so reading it never
\* answers "Original WARC record not found", although the revisit was decided before
\* the await that the other call needed to be indexed.
RevisitHasOriginal == \A x \in index : Originals(x) # {}

\* A record that is indexed is in S3, in the buffer that will be uploaded under the
\* indexed name, or in the copy that is being uploaded.
Kept(x) ==
  \/ x.pos <= Len(s3[x.file])
  \/ x.file = file /\ x.pos <= Len(buf)
  \/ \E j \in Jobs : pc[j] = "uploading" /\ row[j].file = x.file /\ x.pos <= Len(snap[j])

\* A record that is indexed and lost takes a failed upload, a crash or two calls at once:
\* while the calls come one at a time nothing is lost, also when an upload is cancelled
\* half-way and the same file is uploaded again with more records.
SerialCallsLoseNothing == ~overlapped /\ faults = 0 => \A x \in index : Kept(x)

\* What a row answers changes in one case only: a revisit, after calls that overlapped,
\* may move to an earlier capture of the same digest (written earlier, indexed later).
\* Otherwise it answers with the same record for good: uploading a file again, with more
\* records or with an older copy that arrives late, changes no earlier answer
\* (extract_body reads from the start of the file, and file names are never reused).
ReadsAreStable ==
  [][\A x \in index : \A t \in Targets(x), u \in Targets(x)' :
       \/ u = t /\ (s3[t.file] # <<>> => BodyRead(t)' = BodyRead(t))
       \/ x.revisit /\ overlapped /\ Earlier(u, t)]_vars

-----------------------------------------------------------------------------
(* A statement of the repository's own text that the code does not satisfy.*)

\* "... so the index row matches the file actually uploaded to S3": two calls that
\* overlap break it with no fault at all.  Both upload the current file under the same
\* key, the copy without the second record arrives last and replaces the object that
\* had it, and the writer that still holds it is thrown away; the second record is then
\* indexed.  (With a third call there is another way: the second upload to resume throws
\* away the new writer that the first one made, with the records written to it since.)
IndexMatchesUpload == \A x \in index : Kept(x)

=============================================================================
