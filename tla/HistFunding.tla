----------------------------- MODULE HistFunding -----------------------------
(***************************************************************************)
(* One month of a Hyperliquid funding dataset in research/hist_etl: the     *)
(* raw files, the Parquet file, its sidecar and the view that reads it, as  *)
(* `hist_etl sync` writes them.  A sync may die between any two files and   *)
(* may be asked for an earlier --today; the operator may move the settled   *)
(* raw file aside, change the dataset's range or acknowledge a hole.        *)
(*                                                                         *)
(* Time is counted in complete UTC days of the month; a day stands for its  *)
(* settlement slots, and an answer of the venue for the slots it has.       *)
(***************************************************************************)
EXTENDS Integers

CONSTANTS
    NoFile,
    MonthDays,
    MaxEdits         \* bound: what the operator does besides syncing

ASSUME MonthBounds == MonthDays \in Nat \ {0} /\ MaxEdits \in Nat

Days == 0 .. MonthDays - 1
Slots(first, end) == first .. end - 1

\* A raw file, or the venue's answer: its window, the slots with a print, and
\* whether one of them has two.
Raws == [first : Days, end : 1 .. MonthDays, rows : SUBSET Days, doubled : BOOLEAN]
Sources == [settled : BOOLEAN, raw : Raws]
\* A sidecar is provisional exactly when its source is the open file; one of an
\* earlier version does not record its window.
Sidecars == [source : Sources, windowed : BOOLEAN]

ASSUME NoFileIsNone == NoFile \notin Raws \cup Sources \cup Sidecars

VARIABLES
    day,           \* the UTC date
    from, to,      \* the dataset's range inside the month
    knownHoles,    \* spec.known_holes
    settledRaw,    \* COIN-funding-YYYY-MM.json
    openRaw,       \* COIN-funding-YYYY-MM.open.json
    parquet,       \* the month file: the source it was built from
    sidecar,       \* its .sources.json
    listed,        \* the catalog's view reads the month file
    stage,         \* what the sync under way does next, "idle" without one
    job,           \* its --today and --rebuild, the raw file it reads, its report
    edits,
    moved,         \* the settled raw file was moved aside once
    ranged,        \* the range was changed once
    cutShort       \* syncs that died between the month file and its sidecar

range == <<from, to, knownHoles>>
raws == <<settledRaw, openRaw>>
output == <<parquet, sidecar>>
history == <<edits, moved, ranged, cutShort>>
fundingVars == <<day, range, raws, output, listed, stage, job, history>>

FundingTypeOK ==
    /\ day \in 0 .. MonthDays /\ from \in Days /\ to \in 1 .. MonthDays /\ from < to
    /\ knownHoles \subseteq Days
    /\ settledRaw \in Raws \cup {NoFile} /\ openRaw \in Raws \cup {NoFile}
    /\ parquet \in Sources \cup {NoFile} /\ sidecar \in Sidecars \cup {NoFile}
    /\ listed \in BOOLEAN /\ {moved, ranged} \subseteq BOOLEAN
    /\ stage \in {"idle", "month", "materialize", "sidecar", "refresh"}
    /\ job \in [today : 0 .. MonthDays, rebuild : BOOLEAN, settled : BOOLEAN,
              report : {"none", "clean", "gap"}]
    /\ edits \in 0 .. MaxEdits /\ cutShort \subseteq {"first", "rebuild"}

WholeMonth == [first |-> 0, end |-> MonthDays, rows |-> Days, doubled |-> FALSE]

NewJob(today, rebuild) ==
    [today |-> today, rebuild |-> rebuild, settled |-> FALSE, report |-> "none"]

\* Nothing was synced yet, or an earlier version settled the month.
FundingInit ==
    /\ day \in {0, MonthDays} /\ from = 0 /\ to = MonthDays /\ knownHoles = {}
    /\ openRaw = NoFile
    /\ \/ settledRaw = NoFile /\ parquet = NoFile /\ sidecar = NoFile
       \/ /\ day = MonthDays /\ settledRaw = WholeMonth
          /\ parquet = [settled |-> TRUE, raw |-> WholeMonth]
          /\ sidecar = [source |-> parquet, windowed |-> FALSE]
    /\ listed = FALSE /\ stage = "idle" /\ job = NewJob(0, FALSE)
    /\ edits = 0 /\ moved = FALSE /\ ranged = FALSE /\ cutShort = {}

-----------------------------------------------------------------------------
(* What a sync decides from.                                               *)

\* funding_windows: the month's window for the cutoff --today.
WindowEnd == IF job.today < to THEN job.today ELSE to
HasWindow == from < WindowEnd
Complete == WindowEnd = to

\* A mutant: only the settled file is looked at.
AheadOfSettled == ~ Complete /\ settledRaw # NoFile /\ settledRaw.first = from
                  /\ settledRaw.end > WindowEnd

\* ahead_of_cutoff: a raw file already reaches past an earlier cutoff.
AheadOfCutoff ==
    /\ ~ Complete
    /\ \E raw \in {settledRaw, openRaw} \ {NoFile} : raw.first = from /\ raw.end > WindowEnd

\* A mutant: an ended month settles whatever its answer lacks.
ReadyOnceEnded(raw) == Complete /\ ~ raw.doubled

\* ready_to_settle, with slot_conflicts and funding_holes.
ReadyToSettle(raw) ==
    Complete /\ ~ raw.doubled /\ Slots(from, WindowEnd) \subseteq raw.rows \cup knownHoles

\* _load_raw_source: the raw file is of the window the manifest asks for.
RawFits(raw) ==
    /\ raw.first = from
    /\ IF job.settled THEN raw.end = WindowEnd ELSE from < raw.end /\ raw.end <= WindowEnd

\* _sidecar_covers: funding_view_files selects the month file.
InView ==
    /\ parquet # NoFile /\ sidecar # NoFile /\ sidecar.windowed
    /\ LET raw == sidecar.source.raw
       IN  /\ raw.first = from
           /\ IF sidecar.source.settled THEN raw.end = to ELSE from < raw.end /\ raw.end <= to

\* decide_output: what becomes of an existing month file.
DecideOutput(source, rebuild) ==
    IF parquet = NoFile THEN "write"
    ELSE IF sidecar = NoFile THEN IF rebuild THEN "write" ELSE "untracked"
    ELSE IF sidecar.source = source THEN "audit"
    ELSE IF rebuild THEN "write" ELSE "changed"

\* _decide: a provisional file is always replaced, and so is one whose sidecar
\* does not record its window.
Provisional == parquet # NoFile /\ sidecar # NoFile /\ ~ sidecar.source.settled
Decide(source, rebuild) ==
    LET action == IF Provisional
                  THEN IF DecideOutput(source, FALSE) = "audit" THEN "audit" ELSE "write"
                  ELSE DecideOutput(source, rebuild)
    IN  IF action = "audit" /\ ~ sidecar.windowed THEN "write" ELSE action

JobRaw == IF job.settled THEN settledRaw ELSE openRaw
JobSource == [settled |-> job.settled, raw |-> JobRaw]
Usable == RawFits(JobRaw) /\ ~ JobRaw.doubled

-----------------------------------------------------------------------------
(* A sync, as far as this month goes (_sync_hyperliquid).                  *)

\* run_sync: --today never passes the real date.
StartSync ==
    /\ stage = "idle" /\ stage' = "month"
    /\ \E today \in 0 .. day, rebuild \in BOOLEAN :
           job' = NewJob(today, rebuild)
    /\ UNCHANGED <<day, range, raws, output, listed, history>>

\* The month has no window yet.
NoMonth ==
    /\ stage = "month" /\ stage' = "refresh"
    /\ ~ HasWindow
    /\ UNCHANGED <<day, range, raws, output, listed, job, history>>

\* The month is ahead of the cutoff, or could not be fetched.
SkipMonth ==
    /\ stage = "month" /\ stage' = "refresh" /\ HasWindow
    /\ AheadOfCutoff \/ settledRaw = NoFile
    /\ job' = [job EXCEPT !.report = "gap"]
    /\ UNCHANGED <<day, range, raws, output, listed, history>>

\* A settled raw file is never fetched again.
ReuseSettled ==
    /\ stage = "month" /\ HasWindow /\ ~ AheadOfCutoff
    /\ settledRaw # NoFile
    /\ stage' = "materialize" /\ job' = [job EXCEPT !.settled = TRUE]
    /\ UNCHANGED <<day, range, raws, output, listed, history>>

\* fetch_funding and write_raw: the answer may be truncated or conflicting.
Fetch ==
    /\ stage = "month" /\ HasWindow /\ ~ AheadOfCutoff
    /\ settledRaw = NoFile
    /\ \E rows \in SUBSET Slots(from, WindowEnd), doubled \in BOOLEAN :
           LET raw == [first |-> from, end |-> WindowEnd, rows |-> rows, doubled |-> doubled]
           IN  /\ doubled => rows # {}
               /\ IF ReadyToSettle(raw) THEN settledRaw' = raw /\ openRaw' = openRaw
                  ELSE openRaw' = raw /\ settledRaw' = settledRaw
               /\ job' = [job EXCEPT !.settled = ReadyToSettle(raw)]
    /\ stage' = "materialize"
    /\ UNCHANGED <<day, range, output, listed, history>>

\* funding_holes over _hole_window; _audit_parquet compares the month file's rows
\* and source.
NoHoles ==
    Slots(from, IF Complete THEN WindowEnd ELSE JobRaw.end) \subseteq JobRaw.rows \cup knownHoles
AuditPasses == parquet.settled = job.settled /\ parquet.raw.rows = JobRaw.rows
Report(good) == job' = [job EXCEPT !.report = IF good /\ NoHoles THEN "clean" ELSE "gap"]

\* materialize_funding_month: another window, conflicting prints, an audit, or a
\* refusal to overwrite; the file stays.
KeepMonth ==
    /\ stage = "materialize" /\ stage' = "refresh"
    /\ Usable => Decide(JobSource, job.rebuild) # "write"
    /\ Report(Usable /\ Decide(JobSource, job.rebuild) = "audit" /\ AuditPasses)
    /\ UNCHANGED <<day, range, raws, output, listed, history>>

\* _write_parquet: the month file, then its sidecar.
WriteMonth ==
    /\ stage = "materialize" /\ stage' = "sidecar"
    /\ Usable /\ Decide(JobSource, job.rebuild) = "write"
    /\ parquet' = JobSource /\ Report(TRUE)
    /\ UNCHANGED <<day, range, raws, sidecar, listed, history>>
WriteSidecar ==
    /\ stage = "sidecar" /\ stage' = "refresh"
    /\ sidecar' = [source |-> JobSource, windowed |-> TRUE]
    /\ UNCHANGED <<day, range, raws, parquet, listed, job, history>>

\* refresh_catalog with funding_view_files; `hist_etl catalog` does only this.
RefreshView ==
    /\ stage \in {"refresh", "idle"} /\ stage' = "idle"
    /\ listed' = InView /\ job' = NewJob(0, FALSE)
    /\ UNCHANGED <<day, range, raws, output, history>>

\* The sync dies, or stops for want of disk space.
SyncDies ==
    /\ stage # "idle" /\ stage' = "idle" /\ job' = NewJob(0, FALSE)
    /\ cutShort' = IF stage # "sidecar" THEN cutShort
                   ELSE cutShort \cup (IF job.rebuild THEN {"rebuild"} ELSE {})
                                 \cup (IF sidecar = NoFile THEN {"first"} ELSE {})
    /\ UNCHANGED <<day, range, raws, output, listed, edits, moved, ranged>>

-----------------------------------------------------------------------------
(* The clock and the operator; a sync read both when it started.           *)

DayPasses ==
    /\ stage = "idle" /\ day < MonthDays /\ day' = day + 1
    /\ UNCHANGED <<range, raws, output, listed, stage, job, history>>

Edit == stage = "idle" /\ edits < MaxEdits /\ edits' = edits + 1
MoveAside ==
    /\ Edit /\ settledRaw # NoFile /\ settledRaw' = NoFile /\ moved' = TRUE
    /\ UNCHANGED <<day, range, openRaw, output, listed, stage, job, ranged, cutShort>>
ChangeRange ==
    /\ Edit
    /\ from' \in Days /\ to' \in 1 .. MonthDays /\ from' < to' /\ <<from', to'>> # <<from, to>>
    /\ ranged' = TRUE
    /\ UNCHANGED <<day, knownHoles, raws, output, listed, stage, job, moved, cutShort>>
AcknowledgeHole ==
    /\ Edit
    /\ \E slot \in Days \ knownHoles : knownHoles' = knownHoles \cup {slot}
    /\ UNCHANGED <<day, from, to, raws, output, listed, stage, job, moved, ranged, cutShort>>

Sync == StartSync \/ NoMonth \/ SkipMonth \/ ReuseSettled \/ Fetch \/ KeepMonth \/ WriteMonth
        \/ WriteSidecar \/ RefreshView \/ SyncDies
Operator == MoveAside \/ ChangeRange \/ AcknowledgeHole
FundingNext == Sync \/ DayPasses \/ Operator

FundingSpec == FundingInit /\ [][FundingNext]_fundingVars

-----------------------------------------------------------------------------
(* What makes the month correct.                                           *)

RebuildBetweenFiles == "rebuild" \in cutShort \/ (stage = "sidecar" /\ job.rebuild)

\* What the view takes for a settled month has a print in every slot of its
\* range that is not acknowledged, one each; only a --rebuild, before its sidecar
\* is written or when it died there, puts another file under a settled sidecar.
\* (ready_to_settle, _decide, _write_parquet, _sidecar_covers.)
SettledMonthIsWhole ==
    InView /\ sidecar.source.settled =>
        \/ /\ Slots(from, to) \subseteq parquet.raw.rows \cup knownHoles
           /\ ~ parquet.raw.doubled
        \/ parquet # sidecar.source /\ RebuildBetweenFiles

\* The prints the view reads: a refresh fixes its list of files, a query reads what
\* is in them then.
ViewPrints == IF listed THEN parquet.raw.rows ELSE {}

\* The month file was built from a settled raw file that the operator has moved
\* aside; a --rebuild replaces it, and so does any sync if the one that wrote it died
\* before its sidecar.
SettledMovedAside ==
    settledRaw = NoFile /\ parquet.settled /\ (job.rebuild \/ Provisional)

\* No print is taken from the view of a range that was never changed, by an earlier
\* --today, a death between any two files or another decision, but by an answer of
\* the venue that no longer has it, and then the sync has the hole as a gap to report;
\* or by a sync after the operator moved the settled raw file aside.  (ahead_of_cutoff,
\* _sync_hyperliquid, _decide, _write_parquet, funding_holes.)
PrintsStayInView ==
    [][ViewPrints \ (ViewPrints' \cup knownHoles) # {}
         => ranged' \/ job'.report = "gap" \/ SettledMovedAside]_fundingVars

\* Once a sync is through with the month and reported no gap, the month file has a
\* print for every slot up to the sync's cutoff that is not acknowledged, whatever was
\* lost, cut short or moved before.  (funding_holes, _audit_parquet.)
CleanIsWhole ==
    stage = "refresh" /\ job.report = "clean"
        => Slots(from, WindowEnd) \subseteq parquet.raw.rows \cup knownHoles

\* A month the sync went through without reporting a gap is in the view.
\* (materialize_funding_month, _load_raw_source, funding_view_files.)
NotSelectedIsReported == stage = "refresh" /\ job.report = "clean" => InView

\* A settled file of a shorter range is taken for the open month when the cutoff is
\* where it ends; nothing else passes without a gap and stays out of the view.
CleanIsSelected ==
    stage = "refresh" /\ job.report = "clean"
        => InView \/ (ranged /\ job.settled /\ settledRaw.end < to)

\* A sync refuses to replace a month file for two reasons only: one died before
\* the sidecar of its first file, or the operator moved the settled raw file aside
\* and did not ask to rebuild.  (decide_output, _decide.)
RefusalExplained ==
    stage = "materialize" /\ Usable
        => /\ Decide(JobSource, job.rebuild) = "untracked" => "first" \in cutShort
           /\ Decide(JobSource, job.rebuild) = "changed" => moved
=============================================================================
