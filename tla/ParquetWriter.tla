---------------------------- MODULE ParquetWriter ----------------------------
(***************************************************************************)
(* ParquetResearchWriter of parquet_research.py, the sink of every public   *)
(* collector: appends fill a buffer, a full buffer is handed to one writer  *)
(* task as a segment, and a thread of that task publishes the segment as a  *)
(* file that appears complete or not at all.  Appenders, a flusher, the     *)
(* close task and the writer task share one asyncio.Condition; between two  *)
(* sections of it the others run.  A segment whose write failed stays       *)
(* queued for the close to retry, and the process can die at any moment.    *)
(***************************************************************************)
EXTENDS Naturals, Sequences, FiniteSets

CONSTANTS
    Appenders,
    MaxSegment,     \* ParquetRotation.max_records
    MaxPending,     \* _MAX_PENDING_SEGMENTS
    MaxRecords,     \* bound: records accepted
    MaxFailures     \* bound: segment writes that fail

ASSUME WriterBounds ==
    /\ MaxSegment \in Nat \ {0} /\ MaxPending \in Nat \ {0}
    /\ {MaxRecords, MaxFailures} \subseteq Nat
ASSUME AppendersAssumption == "flusher" \notin Appenders /\ "closer" \notin Appenders

VARIABLES
    accepted,   \* records accepted so far
    buffer,     \* _buffer
    pending,    \* _pending: segments [records, part]
    lastPart,   \* _part_number
    lifecycle,  \* _phase, or "crashed"
    failed,     \* _writer_error is set
    inflight,   \* _inflight: the part a thread works on
    writer,     \* where the writer task is, "none" without one
    thread,     \* what the thread has done
    place,      \* where each caller is
    asleep,     \* the callers that wait on the condition
    parts,      \* visible files, by part number
    partials,   \* hidden files a crash left
    failures

writerVars == <<accepted, buffer, pending, lastPart, lifecycle, failed, inflight, writer,
                thread, place, asleep, parts, partials, failures>>

Callers == Appenders \cup {"flusher", "closer"}
PartNumbers == 1 .. MaxRecords
NoPart == 0
Segments == [records : Seq(Nat), part : Nat]

WriterTypeOK ==
    /\ accepted \in Nat /\ lastPart \in Nat /\ failures \in Nat
    /\ buffer \in Seq(Nat) /\ pending \in Seq(Segments)
    /\ lifecycle \in {"open", "closing", "closed", "failed", "crashed"}
    /\ failed \in BOOLEAN
    /\ inflight \in Nat
    /\ writer \in {"none", "top", "thread"}
    /\ thread \in {"none", "writing", "visible", "ok", "error"}
    /\ place \in [Callers -> {"idle", "append", "settle", "first", "second", "last"}]
    /\ asleep \subseteq Callers
    /\ parts \in [PartNumbers -> Seq(Nat)]
    /\ partials \subseteq PartNumbers

WriterInit ==
    /\ accepted = 0 /\ buffer = <<>> /\ pending = <<>> /\ lastPart = 0
    /\ lifecycle = "open" /\ failed = FALSE /\ inflight = NoPart
    /\ writer = "none" /\ thread = "none"
    /\ place = [c \in Callers |-> "idle"] /\ asleep = {}
    /\ parts = [p \in PartNumbers |-> <<>>] /\ partials = {} /\ failures = 0

disk == <<parts, partials>>
task == <<inflight, thread, failures>>
Alive == lifecycle # "crashed"
Awake(c) == Alive /\ c \notin asleep

-----------------------------------------------------------------------------
(* Sections of the condition.                                              *)

\* _ensure_writer_locked, with the queue and error flag it finds.
WriterNeeded(queue, error) == writer = "none" /\ queue # <<>> /\ ~ error /\ inflight = NoPart
EnsureWriter(queue, error) == writer' = IF WriterNeeded(queue, error) THEN "top" ELSE writer

\* _enqueue_segment_locked: the whole buffer becomes the next part.
Enqueue(records) ==
    /\ lastPart' = lastPart + 1 /\ buffer' = <<>>
    /\ pending' = Append(pending, [records |-> records, part |-> lastPart + 1])
    /\ EnsureWriter(pending', failed)
EnqueueBuffer ==
    IF buffer # <<>> THEN Enqueue(buffer)
    ELSE UNCHANGED <<buffer, pending, lastPart, writer>>

\* append: waits for room, raises, or takes the record; due stands for the
\* bounds on bytes and time.
Appending(a) == Awake(a) /\ place[a] \in {"idle", "append"}
Room == Len(pending) < MaxPending
AppendWaits(a) ==
    /\ Appending(a) /\ ~ Room /\ ~ failed /\ lifecycle = "open"
    /\ place' = [place EXCEPT ![a] = "append"] /\ asleep' = asleep \cup {a}
    /\ UNCHANGED <<accepted, buffer, pending, lastPart, lifecycle, failed, writer, task,
                   disk>>
AppendRaises(a) ==
    /\ Appending(a) /\ place[a] = "append" /\ (failed \/ lifecycle # "open")
    /\ place' = [place EXCEPT ![a] = "idle"]
    /\ UNCHANGED <<accepted, buffer, pending, lastPart, lifecycle, failed, writer, asleep,
                   task, disk>>
AppendTakes(a) ==
    /\ Appending(a) /\ Room /\ ~ failed /\ lifecycle = "open"
    /\ accepted < MaxRecords /\ accepted' = accepted + 1
    /\ place' = [place EXCEPT ![a] = "idle"]
    /\ LET filled == Append(buffer, accepted + 1)
       IN  \E due \in BOOLEAN :
              IF due \/ Len(filled) >= MaxSegment THEN Enqueue(filled)
              ELSE buffer' = filled /\ UNCHANGED <<pending, lastPart, writer>>
    /\ UNCHANGED <<lifecycle, failed, asleep, task, disk>>

\* flush, up to its wait.
Flush ==
    /\ Awake("flusher") /\ place["flusher"] = "idle" /\ lifecycle = "open" /\ ~ failed
    /\ EnqueueBuffer
    /\ place' = [place EXCEPT !["flusher"] = "settle"]
    /\ UNCHANGED <<accepted, lifecycle, failed, asleep, task, disk>>

\* aclose: the first call starts the close task; cancelling a caller leaves it.
Close ==
    /\ Alive /\ lifecycle = "open" /\ lifecycle' = "closing"
    /\ EnqueueBuffer
    /\ place' = [place EXCEPT !["closer"] = "first"]
    /\ UNCHANGED <<accepted, failed, asleep, task, disk>>

\* _wait_until_settled, for a flush and the close task.
NotifyAll == asleep' = {}
Settled == inflight = NoPart /\ (failed \/ (pending = <<>> /\ writer = "none"))
WaitToSettle(c) ==
    /\ Awake(c) /\ place[c] \in {"settle", "first", "second", "last"}
    /\ ~ Settled
    /\ EnsureWriter(pending, failed)
    /\ asleep' = asleep \cup {c}
    /\ UNCHANGED <<accepted, buffer, pending, lastPart, lifecycle, failed, place, task, disk>>
FlushReturns ==
    /\ Awake("flusher") /\ place["flusher"] = "settle" /\ Settled
    /\ place' = [place EXCEPT !["flusher"] = "idle"]
    /\ UNCHANGED <<accepted, buffer, pending, lastPart, lifecycle, failed, writer, asleep,
                   task, disk>>

\* _finish_close: a failed segment is tried twice more.
Unwritten == failed /\ pending # <<>>
CloseRetries ==
    /\ Awake("closer") /\ place["closer"] \in {"first", "second"} /\ Settled
    /\ Unwritten
    /\ failed' = FALSE /\ EnsureWriter(pending, FALSE)
    /\ place' = [place EXCEPT !["closer"] = IF @ = "first" THEN "second" ELSE "last"]
    /\ UNCHANGED <<accepted, buffer, pending, lastPart, lifecycle, asleep, task, disk>>
CloseEnds ==
    /\ Awake("closer") /\ place["closer"] \in {"first", "second", "last"} /\ Settled
    /\ place["closer"] = "last" \/ ~ Unwritten
    /\ lifecycle' = IF failed \/ pending # <<>> \/ buffer # <<>> THEN "failed" ELSE "closed"
    /\ place' = [place EXCEPT !["closer"] = "idle"]
    /\ NotifyAll
    /\ UNCHANGED <<accepted, buffer, pending, lastPart, failed, writer, task, disk>>

-----------------------------------------------------------------------------
(* The writer task and its thread.                                         *)

\* _writer_loop: leave on an error or an empty queue, else start a thread on
\* the first segment; it stays queued until its file is visible.
WriterLeaves ==
    /\ Alive /\ writer = "top" /\ (failed \/ pending = <<>>)
    /\ writer' = "none" /\ NotifyAll
    /\ UNCHANGED <<accepted, buffer, pending, lastPart, lifecycle, failed, place, task, disk>>
WriterStarts ==
    /\ Alive /\ writer = "top" /\ ~ failed /\ pending # <<>>
    /\ writer' = "thread" /\ inflight' = Head(pending).part /\ thread' = "writing"
    /\ UNCHANGED <<accepted, buffer, pending, lastPart, lifecycle, failed, place, asleep,
                   disk, failures>>

\* A mutant: a segment leaves the queue whether or not its file was written.
CommitAnyhow ==
    /\ Alive /\ writer = "thread" /\ thread \in {"ok", "error"}
    /\ failed' = (failed \/ thread = "error")
    /\ pending' = Tail(pending)
    /\ inflight' = NoPart /\ thread' = "none" /\ writer' = "top"
    /\ NotifyAll
    /\ UNCHANGED <<accepted, buffer, lastPart, lifecycle, place, disk, failures>>

\* _commit_inflight, after the thread is joined.
Commit ==
    /\ Alive /\ writer = "thread" /\ thread \in {"ok", "error"}
    /\ failed' = (failed \/ thread = "error")
    /\ pending' = IF thread = "ok" THEN Tail(pending) ELSE pending
    /\ inflight' = NoPart /\ thread' = "none" /\ writer' = "top"
    /\ NotifyAll
    /\ UNCHANGED <<accepted, buffer, lastPart, lifecycle, place, disk, failures>>

\* _write_segment: a hidden file, renamed, then the directory synced.
ThreadShows ==
    /\ Alive /\ thread = "writing" /\ thread' = "visible"
    /\ parts' = [parts EXCEPT ![inflight] = Head(pending).records]
    /\ UNCHANGED <<accepted, buffer, pending, lastPart, lifecycle, failed, inflight, writer,
                   place, asleep, partials, failures>>
ThreadSyncs ==
    /\ Alive /\ thread = "visible" /\ thread' = "ok"
    /\ UNCHANGED <<accepted, buffer, pending, lastPart, lifecycle, failed, inflight, writer,
                   place, asleep, disk, failures>>
ThreadFails ==
    /\ Alive /\ thread \in {"writing", "visible"} /\ thread' = "error"
    /\ failures < MaxFailures /\ failures' = failures + 1
    /\ UNCHANGED <<accepted, buffer, pending, lastPart, lifecycle, failed, inflight, writer,
                   place, asleep, disk>>

\* The process dies; the file being written stays behind under its hidden name.
WriterDies ==
    /\ Alive /\ lifecycle' = "crashed"
    /\ partials' = IF thread = "writing" THEN partials \cup {inflight} ELSE partials
    /\ UNCHANGED <<accepted, buffer, pending, lastPart, failed, inflight, writer, thread,
                   place, asleep, parts, failures>>

WriterTask == WriterLeaves \/ WriterStarts \/ Commit
Thread == ThreadShows \/ ThreadSyncs \/ ThreadFails
CloseTask == WaitToSettle("closer") \/ CloseRetries \/ CloseEnds

WriterNext ==
    \/ \E a \in Appenders : AppendWaits(a) \/ AppendRaises(a) \/ AppendTakes(a)
    \/ Flush \/ WaitToSettle("flusher") \/ FlushReturns
    \/ Close \/ CloseTask \/ WriterTask \/ Thread \/ WriterDies

\* The event loop runs a task that can run, and a thread that was started ends.
WriterFairness == WF_writerVars(CloseTask) /\ WF_writerVars(WriterTask) /\ WF_writerVars(Thread)

WriterSpec == WriterInit /\ [][WriterNext]_writerVars /\ WriterFairness

-----------------------------------------------------------------------------
(* What makes the writer correct.                                          *)

\* What a reader sees who takes the visible files in the order of their names.
Seen ==
    LET upTo[p \in 0 .. MaxRecords] == IF p = 0 THEN <<>> ELSE upTo[p - 1] \o parts[p]
    IN  upTo[MaxRecords]

Log == INSTANCE RecordLog WITH MaxUnseen <- MaxPending * MaxSegment, seen <- Seen,
                               state <- lifecycle

\* The writer is a log: the visible files hold the accepted records, in order and
\* once, up to some record; no retry or crash changes that; at most two queued
\* segments are missing from them; and a close ends, as a success only with
\* every accepted record visible.  (append, flush, aclose and _writer_loop.)
WriterIsALog == Log!LogSpec
=============================================================================
