----------------------------- MODULE Compliance -----------------------------
(***************************************************************************)
(* The compliance service (services/compliance): the writer that brings    *)
(* audit.trail into ClickHouse in batches, and the reports, which a        *)
(* request starts in a goroutine of its own.                               *)
(*                                                                         *)
(* A message is its offset.  What a report says is left out: it is an      *)
(* object in storage, with a signature if there is a key to sign with.     *)
(*                                                                         *)
(* The worker that should take up pending reports is modelled as it is:    *)
(* the three text columns of a pending row are NULL (001_create_reports,   *)
(* repository.go CreateReportJob), pgx refuses to scan NULL into a string, *)
(* and so every listing with a pending report in it is an error.           *)
(***************************************************************************)
EXTENDS Integers, Sequences, FiniteSets

CONSTANTS
  NumMessages,  \* messages of audit.trail
  Poison,       \* the ones that cannot be decoded
  BatchSize,    \* CLICKHOUSE_BULK_FLUSH_ROWS
  NumReports,   \* reports that are asked for
  Signing,      \* "yes" or "no": is there a signing key?
  Capacity,     \* of the bulkhead: COMPLIANCE_REPORT_MAX_CONCURRENT
  MaxFaults,    \* bound: calls of ClickHouse, PostgreSQL, S3 and Kafka that fail
  MaxCrashes    \* bound: restarts

ASSUME NumbersAssumption ==
  /\ {NumMessages, NumReports, MaxFaults, MaxCrashes} \subseteq Nat
  /\ {BatchSize, Capacity} \subseteq Nat \ {0}
ASSUME PoisonAssumption == Poison \subseteq 1..NumMessages
ASSUME SigningAssumption == Signing \in {"yes", "no"}

VARIABLES
  writer,       \* [pc, next, batch, ticked]
  committed,    \* the committed offset: the next message after a restart
  ingested,     \* ClickHouse: the messages it holds
  twice,        \* history: messages that were written more than once
  refused,      \* history: messages of a batch whose write was answered with an error
  redelivered,  \* history: messages delivered again after a restart
  reports,      \* PostgreSQL: [status, key, sig] of every report asked for
  objects,      \* S3
  gens,         \* requests and generateReports under way: [job, by, pc, sig]
  queue,        \* what the worker still has to do of its list
  rejected,     \* history: reports whose request found the bulkhead full
  interrupted,  \* history: reports under way at a restart
  unrecorded,   \* history: reports with an ignored error
  faults, crashes

writerVars == <<writer, committed, ingested, twice, refused, redelivered>>
reportVars == <<reports, objects, gens, queue, rejected, interrupted, unrecorded>>
vars == <<writerVars, reportVars, faults, crashes>>

Messages == 1..NumMessages
Jobs == 1..NumReports
Row(status, key, sig) == [status |-> status, key |-> key, sig |-> sig]
NotAsked == Row("none", "NULL", "NULL")
Started == [pc |-> "select", next |-> 1, batch |-> <<>>, ticked |-> "no"]

Init ==
  /\ writer = Started
  /\ committed = 1 /\ ingested = {} /\ twice = {} /\ refused = {} /\ redelivered = {}
  /\ reports = [j \in Jobs |-> NotAsked]
  /\ objects = {} /\ gens = {} /\ queue = {}
  /\ rejected = {} /\ interrupted = {} /\ unrecorded = {}
  /\ faults = 0 /\ crashes = 0

Fault == faults < MaxFaults /\ faults' = faults + 1
NoFault == faults' = faults

-----------------------------------------------------------------------------
(* The writer.                                                             *)

InBatch == {writer.batch[i] : i \in DOMAIN writer.batch}
WriterGoto(w) == writer' = w

\* The ticker fires.
FlushTick ==
  /\ writer.ticked = "no"
  /\ writer' = [writer EXCEPT !.ticked = "yes"]
  /\ UNCHANGED <<committed, ingested, twice, refused, redelivered, reportVars, faults, crashes>>

\* Mutant: the offsets are committed before the write.
SelectCommits ==
  /\ writer.pc = "select"
  /\ IF writer.ticked = "yes"
     THEN writer' = [writer EXCEPT !.ticked = "no", !.pc = IF writer.batch = <<>> THEN "select" ELSE "flush"]
     ELSE writer' = [writer EXCEPT !.pc = "fetch"]
  /\ committed' = writer.next
  /\ UNCHANGED <<ingested, twice, refused, redelivered, reportVars, faults, crashes>>

\* select: the ticker comes first; otherwise the writer waits for a message, and
\* does not look at the ticker until one has come.
Select ==
  /\ writer.pc = "select"
  /\ IF writer.ticked = "yes"
     THEN writer' = [writer EXCEPT !.ticked = "no", !.pc = IF writer.batch = <<>> THEN "select" ELSE "flush"]
     ELSE writer' = [writer EXCEPT !.pc = "fetch"]
  /\ UNCHANGED <<committed, ingested, twice, refused, redelivered, reportVars, faults, crashes>>

FetchMessage ==
  /\ writer.pc = "fetch" /\ writer.next <= NumMessages
  /\ writer' = [writer EXCEPT !.next = @ + 1, !.batch = Append(@, writer.next),
                              !.pc = IF Len(writer.batch) + 1 >= BatchSize THEN "flush" ELSE "select"]
  /\ UNCHANGED <<committed, ingested, twice, refused, redelivered, reportVars, faults, crashes>>

\* IngestEvents: all rows or none; the answer to Send can be lost.  Without a
\* message that can be decoded there is nothing to write.  After an error the
\* batch is given up.
IngestEvents ==
  LET rows == InBatch \ Poison
      written == ingested' = ingested \cup rows /\ twice' = twice \cup (rows \cap ingested) IN
  /\ writer.pc = "flush"
  /\ \/ written /\ NoFault /\ refused' = refused /\ WriterGoto([writer EXCEPT !.pc = "commit"])
     \/ /\ rows # {} /\ Fault /\ refused' = refused \cup rows
        /\ written \/ UNCHANGED <<ingested, twice>>
        /\ WriterGoto([writer EXCEPT !.pc = "select", !.batch = <<>>])
  /\ UNCHANGED <<committed, redelivered, reportVars, crashes>>

\* Mutant: the batch is not forgotten after the commit.
CommitBatchKeeps ==
  /\ writer.pc = "commit"
  /\ \/ committed' = writer.batch[Len(writer.batch)] + 1 /\ NoFault
     \/ committed' = committed /\ Fault
  /\ WriterGoto([writer EXCEPT !.pc = "select"])
  /\ UNCHANGED <<ingested, twice, refused, redelivered, reportVars, crashes>>

\* A commit that fails is only logged.
CommitBatch ==
  /\ writer.pc = "commit"
  /\ \/ committed' = writer.batch[Len(writer.batch)] + 1 /\ NoFault
     \/ committed' = committed /\ Fault
  /\ WriterGoto([writer EXCEPT !.pc = "select", !.batch = <<>>])
  /\ UNCHANGED <<ingested, twice, refused, redelivered, reportVars, crashes>>

-----------------------------------------------------------------------------
(* The reports.                                                            *)

UpdateReportStatus(j, row) == reports' = [reports EXCEPT ![j] = row]

\* An update whose error nobody looks at.
TryUpdate(j, row) ==
  \/ UpdateReportStatus(j, row) /\ NoFault /\ unrecorded' = unrecorded
  \/ reports' = reports /\ Fault /\ unrecorded' = unrecorded \cup {j}

Gen(j, by, pc) == [job |-> j, by |-> by, pc |-> pc, sig |-> ""]
Goto(g, pc) == gens' = (gens \ {g}) \cup {[g EXCEPT !.pc = pc]}
Return(g) == gens' = gens \ {g}

\* The slots in use: a request holds one while it starts the goroutine, the
\* worker while it generates.
InUse == Cardinality({g \in gens : g.pc = "launch" \/ g.by = "worker"})

TryAcquire == InUse < Capacity

\* CreateReport: the row first.  The request gives up after an error, although the
\* row may be there; an error without a row changes nothing.
CreateReportJob(j) ==
  /\ reports[j] = NotAsked /\ \A i \in 1..j - 1 : reports[i] # NotAsked
  /\ reports' = [reports EXCEPT ![j] = Row("pending", "NULL", "NULL")]
  /\ \/ gens' = gens \cup {Gen(j, "request", "acquire")} /\ NoFault /\ unrecorded' = unrecorded
     \/ gens' = gens /\ Fault /\ unrecorded' = unrecorded \cup {j}
  /\ UNCHANGED <<writerVars, objects, queue, rejected, interrupted, crashes>>

\* CreateReport: when the bulkhead is full the answer is 429, and the row stays.
Execute(g) ==
  /\ g.pc = "acquire"
  /\ \/ TryAcquire /\ Goto(g, "launch") /\ rejected' = rejected
     \/ ~TryAcquire /\ Return(g) /\ rejected' = rejected \cup {g.job}
  /\ UNCHANGED <<writerVars, reports, objects, queue, interrupted, unrecorded, faults, crashes>>

\* Inside Execute the goroutine is only started: the slot is given back at once.
Launch(g) ==
  /\ g.pc = "launch" /\ Goto(g, "mark")
  /\ UNCHANGED <<writerVars, reports, objects, queue, rejected, interrupted, unrecorded, faults, crashes>>

\* generateReport.
MarkGenerating(g) ==
  /\ g.pc = "mark" /\ TryUpdate(g.job, Row("generating", "", ""))
  /\ Goto(g, "upload")
  /\ UNCHANGED <<writerVars, objects, queue, rejected, interrupted, crashes>>

\* Mutant: the error of the upload is not looked at.
UploadIgnored(g) ==
  /\ g.pc = "upload"
  /\ \/ objects' = objects \cup {<<"pdf", g.job>>} /\ NoFault
     \/ objects' = objects /\ Fault
  /\ Goto(g, "ready")
  /\ UNCHANGED <<writerVars, reports, queue, rejected, interrupted, unrecorded, crashes>>

\* Mutant: an upload waits for the others that have begun.
UploadWaits(g) ==
  /\ g.pc = "upload" /\ \A h \in gens : h = g \/ h.pc # "upload"
  /\ objects' = objects \cup {<<"pdf", g.job>>} /\ Goto(g, "ready")
  /\ UNCHANGED <<writerVars, reports, queue, rejected, interrupted, unrecorded, faults, crashes>>

\* The PDF is made, signed if there is a key, and uploaded.  A failed signature is
\* only logged.
Upload(g) ==
  /\ g.pc = "upload"
  /\ \/ /\ objects' = objects \cup {<<"pdf", g.job>>}
        /\ \/ Signing = "yes" /\ NoFault
              /\ gens' = (gens \ {g}) \cup {[g EXCEPT !.pc = "sign", !.sig = "sig"]}
           \/ Goto(g, "ready") /\ (IF Signing = "yes" THEN Fault ELSE NoFault)
     \/ objects' = objects /\ Fault /\ Goto(g, "fail")
  /\ UNCHANGED <<writerVars, reports, queue, rejected, interrupted, unrecorded, crashes>>

\* The signature's object; an error is ignored.
UploadSignature(g) ==
  /\ g.pc = "sign"
  /\ \/ objects' = objects \cup {<<"sig", g.job>>} /\ NoFault /\ unrecorded' = unrecorded
     \/ objects' = objects /\ Fault /\ unrecorded' = unrecorded \cup {g.job}
  /\ Goto(g, "ready")
  /\ UNCHANGED <<writerVars, reports, queue, rejected, interrupted, crashes>>

MarkReady(g) ==
  /\ g.pc = "ready" /\ TryUpdate(g.job, Row("ready", "pdf", g.sig))
  /\ Return(g)
  /\ UNCHANGED <<writerVars, objects, queue, rejected, interrupted, crashes>>

\* Mutant: a failed report is only logged.
MarkFailedNot(g) ==
  /\ g.pc = "fail" /\ UNCHANGED <<reports, unrecorded, faults>>
  /\ Return(g)
  /\ UNCHANGED <<writerVars, objects, queue, rejected, interrupted, crashes>>

MarkFailed(g) ==
  /\ g.pc = "fail" /\ TryUpdate(g.job, Row("failed", "", ""))
  /\ Return(g)
  /\ UNCHANGED <<writerVars, objects, queue, rejected, interrupted, crashes>>

\* Mutant: a NULL column is read as the empty string.
ScanNull(row) == TRUE

\* rows.Scan into strings.
Scan(row) == row.key # "NULL" /\ row.sig # "NULL"

\* DownloadReport redirects to the object.
DownloadReport(j) == Scan(reports[j]) /\ reports[j].status = "ready"

\* The pending rows; no list when one of them cannot be scanned.
GetPendingReports ==
  LET pending == {j \in Jobs : reports[j].status = "pending"} IN
  IF \A j \in pending : Scan(reports[j]) THEN pending ELSE {}

\* The worker lists, and then generates one report of its list after the other, in
\* the order of their creation; it skips one for which the bulkhead has no room.
StartWorker ==
  /\ \A g \in gens : g.by # "worker"
  /\ IF queue = {} THEN queue' = GetPendingReports /\ gens' = gens
     ELSE \E j \in queue :
            /\ \A k \in queue : j <= k
            /\ queue' = queue \ {j}
            /\ gens' = IF TryAcquire THEN gens \cup {Gen(j, "worker", "mark")} ELSE gens
  /\ UNCHANGED <<writerVars, reports, objects, rejected, interrupted, unrecorded, faults, crashes>>

-----------------------------------------------------------------------------
\* The service restarts.
Restart ==
  /\ crashes < MaxCrashes /\ crashes' = crashes + 1
  /\ writer' = [Started EXCEPT !.next = committed]
  /\ redelivered' = redelivered \cup committed..writer.next - 1
  /\ gens' = {} /\ queue' = {}
  /\ interrupted' = interrupted \cup {g.job : g \in gens}
  /\ UNCHANGED <<committed, ingested, twice, refused, reports, objects, rejected, unrecorded, faults>>

GenStep(g) ==
  \/ Execute(g) \/ Launch(g) \/ MarkGenerating(g) \/ Upload(g) \/ UploadSignature(g)
  \/ MarkReady(g) \/ MarkFailed(g)

Generating == \E g \in gens : GenStep(g)

Next ==
  \/ FlushTick \/ Select \/ FetchMessage \/ IngestEvents \/ CommitBatch
  \/ \E j \in Jobs : CreateReportJob(j)
  \/ Generating \/ StartWorker
  \/ Restart

Spec == Init /\ [][Next]_vars

\* Every goroutine that was started keeps running.
FairSpec == Spec /\ \A j \in Jobs : WF_vars(\E g \in gens : g.job = j /\ GenStep(g))

-----------------------------------------------------------------------------
(* Properties.                                                             *)

Writers == [pc : {"select", "fetch", "flush", "commit"}, next : 1..NumMessages + 1,
            batch : Seq(Messages), ticked : {"yes", "no"}]
Rows == [status : {"none", "pending", "generating", "ready", "failed"},
         key : {"NULL", "", "pdf"}, sig : {"NULL", "", "sig"}]
Gens == [job : Jobs, by : {"request", "worker"}, sig : {"", "sig"},
         pc : {"acquire", "launch", "mark", "upload", "sign", "ready", "fail"}]

\* Types, a committed offset that is not ahead of the reader, and no more slots of
\* the bulkhead in use than it has (bulkhead.go:24-30).
TypeOK ==
  /\ writer \in Writers /\ committed \in 1..writer.next
  /\ ingested \subseteq Messages \ Poison
  /\ twice \subseteq Messages /\ refused \subseteq Messages /\ redelivered \subseteq Messages
  /\ reports \in [Jobs -> Rows]
  /\ objects \subseteq {"pdf", "sig"} \X Jobs
  /\ gens \subseteq Gens /\ IsFiniteSet(gens) /\ InUse <= Capacity
  /\ queue \subseteq Jobs
  /\ rejected \subseteq Jobs /\ interrupted \subseteq Jobs /\ unrecorded \subseteq Jobs
  /\ faults \in 0..MaxFaults /\ crashes \in 0..MaxCrashes

\* A committed message is in ClickHouse, or could not be decoded, or the write of
\* its batch was answered with an error: a commit never covers a message that the
\* writer has not dealt with.  And a message is written, and counted by
\* event_counts_daily, twice only after a restart has delivered it again
\* (clickhouse_writer.go:50-121).
IngestedOrRefused ==
  /\ \A m \in 1..committed - 1 : m \in ingested \cup Poison \cup refused
  /\ twice \subseteq redelivered

\* The status of a report can be relied on.  If it is ready it can be downloaded,
\* and a signature it names too unless an error was ignored.  If it is neither
\* ready nor failed it is under way, or found the bulkhead full, or was
\* interrupted by a restart, or had an error that was ignored: there is no other
\* way to be left behind (handler.go:115-161, 177-268).
StatusExplained ==
  \A j \in Jobs :
    /\ DownloadReport(j) =>
         /\ <<"pdf", j>> \in objects
         /\ reports[j].sig # "" => <<"sig", j>> \in objects \/ j \in unrecorded
    /\ reports[j].status \in {"pending", "generating"} =>
         j \in rejected \cup interrupted \cup unrecorded \/ \E g \in gens : g.job = j

\* A report that is ready stays so: nobody generates it a second time.  This needs
\* that the worker's listing fails, for the worker and the goroutine of a request
\* do not exclude each other (handler.go:140-144, 278-294).
ReadyStays ==
  [][\A j \in Jobs : reports[j].status = "ready" => reports'[j] = reports[j]]_vars

\* A report whose goroutine was started becomes ready or failed, unless a restart
\* or an ignored error comes in between (handler.go:140-144, 196-268).
LaunchedFinishes ==
  \A j \in Jobs :
    (\E g \in gens : g.job = j /\ g.pc = "mark")
      ~> (reports[j].status \in {"ready", "failed"} \/ j \in interrupted \cup unrecorded)
==============================================================================
