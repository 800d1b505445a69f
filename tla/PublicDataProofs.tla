-------------------------- MODULE PublicDataProofs --------------------------
(***************************************************************************)
(* The data taken from public venues.  What a funding month is, whatever    *)
(* dies, is truncated, is asked for again or is moved, for months of any    *)
(* length and any number of edits.  Then the followed books: the record is  *)
(* the venue's book, for any number of levels, changes, faults, sessions    *)
(* and requests and any buffer.                                             *)
(***************************************************************************)
EXTENDS HistFunding, VenueBooks, SequenceTheorems, WellFoundedInduction, TLAPS

-----------------------------------------------------------------------------
(* The funding month.                                                       *)

Whole(raw) == ~ raw.doubled /\ Slots(raw.first, raw.end) \subseteq raw.rows \cup knownHoles

\* What was settled has every settlement of its window, once.
SettledIsWhole ==
    /\ settledRaw # NoFile => Whole(settledRaw)
    /\ sidecar # NoFile /\ sidecar.source.settled => Whole(sidecar.source.raw)

\* The raw file a sync goes on with is there, and is of its window if it was
\* fetched; a month with a settled raw file goes on with that one.
JobHasRaw ==
    stage \in {"materialize", "sidecar"} =>
        /\ JobRaw # NoFile
        /\ job.settled <=> settledRaw # NoFile
        /\ ~ job.settled => openRaw.first = from /\ openRaw.end = WindowEnd

\* Between the two files: the month file is the job's, and replaces that of a settled
\* sidecar only on demand.
BetweenFiles ==
    stage = "sidecar" =>
        /\ parquet = JobSource /\ Usable
        /\ sidecar # NoFile /\ sidecar.source.settled
               => job.rebuild \/ sidecar.source = JobSource

\* What a sidecar says of the month file and of the settled raw file.
SidecarKnown ==
    /\ sidecar # NoFile => parquet # NoFile
    /\ parquet # NoFile /\ sidecar = NoFile => stage = "sidecar" \/ "first" \in cutShort
    /\ sidecar # NoFile /\ sidecar.source.settled =>
           /\ parquet = sidecar.source \/ RebuildBetweenFiles
           /\ moved \/ settledRaw = sidecar.source.raw

\* While the range is the first one, settled files are of all of it, and the open
\* raw file reaches as far as what was made from any earlier one.
FirstRange ==
    ~ ranged =>
        /\ from = 0 /\ to = MonthDays
        /\ settledRaw # NoFile => settledRaw.first = 0 /\ settledRaw.end = MonthDays
        /\ openRaw # NoFile => openRaw.first = 0
        /\ sidecar # NoFile /\ ~ sidecar.source.settled
               => openRaw # NoFile /\ sidecar.source.raw.end <= openRaw.end

NothingReported == stage = "month" => job.report = "none"

FundingInv ==
    /\ FundingTypeOK
    /\ SettledIsWhole
    /\ JobHasRaw
    /\ BetweenFiles
    /\ SidecarKnown
    /\ FirstRange
    /\ NothingReported
    /\ CleanIsSelected

-----------------------------------------------------------------------------
\* The raw file a sync reads is a source of a month file.
LEMMA JobSourceIsSource ==
    ASSUME FundingInv, JobRaw # NoFile PROVE JobSource \in Sources
BY DEF FundingInv, FundingTypeOK, JobSource, JobRaw, Sources

\* A settled month file is replaced on demand, or by one of the same raw file.
LEMMA ReplacedOnDemand ==
    ASSUME FundingInv, sidecar # NoFile, sidecar.source.settled,
           Decide(JobSource, job.rebuild) = "write"
    PROVE  job.rebuild \/ sidecar.source = JobSource
BY DEF FundingInv, SidecarKnown, Decide, DecideOutput, Provisional

\* An audited month file is made from the job's raw file, and its sidecar has a window.
LEMMA AuditedIsSame ==
    ASSUME FundingInv, Decide(JobSource, job.rebuild) = "audit"
    PROVE  /\ parquet # NoFile /\ sidecar # NoFile
           /\ sidecar.windowed /\ sidecar.source = JobSource
BY DEF Decide, DecideOutput, Provisional

\* The sidecar of a usable raw file is in the view, but for a settled one of a
\* range that was changed.
LEMMA UsableIsSelected ==
    ASSUME FundingInv, stage \in {"materialize", "sidecar"}, Usable
    PROVE  /\ JobSource.raw = JobRaw /\ JobSource.settled = job.settled
           /\ JobRaw.first = from
           /\ IF job.settled THEN JobRaw.end = to \/ (ranged /\ settledRaw.end < to)
              ELSE from < JobRaw.end /\ JobRaw.end <= to
<1>1. JobRaw \in Raws /\ JobRaw.end \in Int /\ to \in Int /\ job.today \in Int /\ from \in Int
    BY MonthBounds DEF FundingInv, JobHasRaw, JobRaw, FundingTypeOK, Raws, Days
<1>2. WindowEnd <= to
    BY <1>1 DEF WindowEnd
<1>3. ~ ranged /\ job.settled => JobRaw.end = to
    BY DEF FundingInv, JobHasRaw, FirstRange, JobRaw
<1>4. WindowEnd \in Int
    BY <1>1 DEF WindowEnd
<1>5. RawFits(JobRaw)
    BY DEF Usable
<1> QED
    BY <1>1, <1>2, <1>3, <1>4, <1>5 DEF JobSource, RawFits, JobRaw, FundingInv, FundingTypeOK

\* A sync starts with nothing reported.
LEMMA StartSyncKeeps ==
    ASSUME FundingInv, StartSync PROVE FundingInv'
<1>1. FundingTypeOK'
    BY MonthBounds, NoFileIsNone
    DEF FundingInv, FundingTypeOK, StartSync, NewJob, range, raws, output, history
<1>2. SettledIsWhole'
    BY MonthBounds, NoFileIsNone
    DEF FundingInv, SettledIsWhole, Whole, StartSync, NewJob, range, raws, output, history
<1>3. JobHasRaw'
    BY MonthBounds, NoFileIsNone
    DEF FundingInv, JobHasRaw, JobRaw, WindowEnd, StartSync, NewJob, range, raws, output,
        history
<1>4. BetweenFiles'
    BY MonthBounds, NoFileIsNone
    DEF FundingInv, BetweenFiles, JobSource, JobRaw, Usable, RawFits, WindowEnd, StartSync,
        NewJob, range, raws, output, history
<1>5. SidecarKnown'
    BY MonthBounds, NoFileIsNone
    DEF FundingInv, SidecarKnown, RebuildBetweenFiles, StartSync, NewJob, range, raws,
        output, history
<1>6. FirstRange'
    BY MonthBounds, NoFileIsNone
    DEF FundingInv, FirstRange, StartSync, NewJob, range, raws, output, history
<1>7. NothingReported'
    BY MonthBounds, NoFileIsNone
    DEF FundingInv, NothingReported, StartSync, NewJob, range, raws, output, history
<1>8. CleanIsSelected'
    BY MonthBounds, NoFileIsNone
    DEF FundingInv, CleanIsSelected, InView, StartSync, NewJob, range, raws, output, history
<1> QED
    BY <1>1, <1>2, <1>3, <1>4, <1>5, <1>6, <1>7, <1>8 DEF FundingInv

\* A month without a window is left alone.
LEMMA NoMonthKeeps ==
    ASSUME FundingInv, NoMonth PROVE FundingInv'
<1>1. FundingTypeOK'
    BY MonthBounds, NoFileIsNone
    DEF FundingInv, FundingTypeOK, NoMonth, range, raws, output, history
<1>2. SettledIsWhole'
    BY MonthBounds, NoFileIsNone
    DEF FundingInv, SettledIsWhole, Whole, NoMonth, range, raws, output, history
<1>3. JobHasRaw'
    BY MonthBounds, NoFileIsNone
    DEF FundingInv, JobHasRaw, JobRaw, WindowEnd, NoMonth, range, raws, output, history
<1>4. BetweenFiles'
    BY MonthBounds, NoFileIsNone
    DEF FundingInv, BetweenFiles, JobSource, JobRaw, Usable, RawFits, WindowEnd, NoMonth,
        range, raws, output, history
<1>5. SidecarKnown'
    BY MonthBounds, NoFileIsNone
    DEF FundingInv, SidecarKnown, RebuildBetweenFiles, NoMonth, range, raws, output, history
<1>6. FirstRange'
    BY MonthBounds, NoFileIsNone
    DEF FundingInv, FirstRange, NoMonth, range, raws, output, history
<1>7. NothingReported'
    BY MonthBounds, NoFileIsNone
    DEF FundingInv, NothingReported, NoMonth, range, raws, output, history
<1>8. CleanIsSelected'
    BY DEF FundingInv, CleanIsSelected, NothingReported, NoMonth
<1> QED
    BY <1>1, <1>2, <1>3, <1>4, <1>5, <1>6, <1>7, <1>8 DEF FundingInv

\* A month that is ahead or could not be fetched is a gap.
LEMMA SkipMonthKeeps ==
    ASSUME FundingInv, SkipMonth PROVE FundingInv'
<1>1. FundingTypeOK'
    BY MonthBounds, NoFileIsNone
    DEF FundingInv, FundingTypeOK, SkipMonth, range, raws, output, history
<1>2. SettledIsWhole'
    BY MonthBounds, NoFileIsNone
    DEF FundingInv, SettledIsWhole, Whole, SkipMonth, range, raws, output, history
<1>3. JobHasRaw'
    BY MonthBounds, NoFileIsNone
    DEF FundingInv, JobHasRaw, JobRaw, WindowEnd, SkipMonth, range, raws, output, history
<1>4. BetweenFiles'
    BY MonthBounds, NoFileIsNone
    DEF FundingInv, BetweenFiles, JobSource, JobRaw, Usable, RawFits, WindowEnd, SkipMonth,
        range, raws, output, history
<1>5. SidecarKnown'
    BY MonthBounds, NoFileIsNone
    DEF FundingInv, SidecarKnown, RebuildBetweenFiles, SkipMonth, range, raws, output, history
<1>6. FirstRange'
    BY MonthBounds, NoFileIsNone
    DEF FundingInv, FirstRange, SkipMonth, range, raws, output, history
<1>7. NothingReported'
    BY MonthBounds, NoFileIsNone
    DEF FundingInv, NothingReported, SkipMonth, range, raws, output, history
<1>8. CleanIsSelected'
    BY MonthBounds, NoFileIsNone
    DEF FundingInv, CleanIsSelected, InView, SkipMonth, range, raws, output, history
<1> QED
    BY <1>1, <1>2, <1>3, <1>4, <1>5, <1>6, <1>7, <1>8 DEF FundingInv

\* A settled raw file is whole already.
LEMMA ReuseSettledKeeps ==
    ASSUME FundingInv, ReuseSettled PROVE FundingInv'
<1>1. FundingTypeOK'
    BY MonthBounds, NoFileIsNone
    DEF FundingInv, FundingTypeOK, ReuseSettled, range, raws, output, history
<1>2. SettledIsWhole'
    BY MonthBounds, NoFileIsNone
    DEF FundingInv, SettledIsWhole, Whole, ReuseSettled, range, raws, output, history
<1>3. JobHasRaw'
    BY MonthBounds, NoFileIsNone
    DEF FundingInv, JobHasRaw, JobRaw, WindowEnd, ReuseSettled, range, raws, output, history
<1>4. BetweenFiles'
    BY MonthBounds, NoFileIsNone
    DEF FundingInv, BetweenFiles, JobSource, JobRaw, Usable, RawFits, WindowEnd,
        ReuseSettled, range, raws, output, history
<1>5. SidecarKnown'
    BY MonthBounds, NoFileIsNone
    DEF FundingInv, SidecarKnown, RebuildBetweenFiles, ReuseSettled, range, raws, output,
        history
<1>6. FirstRange'
    BY MonthBounds, NoFileIsNone
    DEF FundingInv, FirstRange, ReuseSettled, range, raws, output, history
<1>7. NothingReported'
    BY MonthBounds, NoFileIsNone
    DEF FundingInv, NothingReported, ReuseSettled, range, raws, output, history
<1>8. CleanIsSelected'
    BY MonthBounds, NoFileIsNone
    DEF FundingInv, CleanIsSelected, InView, ReuseSettled, range, raws, output, history
<1> QED
    BY <1>1, <1>2, <1>3, <1>4, <1>5, <1>6, <1>7, <1>8 DEF FundingInv

\* A fetched raw file is whole if it settles, and reaches as far as the one before
\* while the range is the first one.
LEMMA FetchKeeps ==
    ASSUME FundingInv, Fetch PROVE FundingInv'
<1> PICK rows \in SUBSET Slots(from, WindowEnd), doubled \in BOOLEAN :
        LET raw == [first |-> from, end |-> WindowEnd, rows |-> rows, doubled |-> doubled]
        IN  /\ doubled => rows # {}
            /\ IF ReadyToSettle(raw) THEN settledRaw' = raw /\ openRaw' = openRaw
               ELSE openRaw' = raw /\ settledRaw' = settledRaw
            /\ job' = [job EXCEPT !.settled = ReadyToSettle(raw)]
    BY DEF Fetch
<1> DEFINE raw == [first |-> from, end |-> WindowEnd, rows |-> rows, doubled |-> doubled]
<1>a. /\ from \in Days /\ from \in Int /\ to \in 1 .. MonthDays /\ to \in Int
      /\ job.today \in Int /\ from < WindowEnd /\ WindowEnd \in Int /\ WindowEnd <= to
    BY MonthBounds DEF FundingInv, FundingTypeOK, Days, WindowEnd, Fetch, HasWindow
<1>b. WindowEnd \in 1 .. MonthDays /\ Slots(from, WindowEnd) \subseteq Days
    BY <1>a, MonthBounds DEF Days, Slots
<1>c. raw \in Raws /\ raw # NoFile
    BY <1>a, <1>b, NoFileIsNone DEF Raws
<1>d. /\ job'.settled = ReadyToSettle(raw) /\ job'.today = job.today /\ job'.report = job.report
      /\ job' \in [today : 0 .. MonthDays, rebuild : BOOLEAN, settled : BOOLEAN,
                  report : {"none", "clean", "gap"}]
    BY DEF FundingInv, FundingTypeOK, ReadyToSettle
<1>e. /\ ReadyToSettle(raw) => settledRaw' = raw /\ openRaw' = openRaw
      /\ ~ ReadyToSettle(raw) => openRaw' = raw /\ settledRaw' = NoFile
    BY DEF Fetch
<1>f. WindowEnd' = WindowEnd
    BY <1>d DEF Fetch, WindowEnd, range
<1>g. stage = "month" /\ stage' = "materialize" /\ settledRaw = NoFile
    BY DEF Fetch
<1>h. raw.first = from /\ raw.end = WindowEnd /\ raw.rows = rows /\ raw.doubled = doubled
    OBVIOUS
<1> HIDE DEF raw
<1>1. FundingTypeOK'
    BY <1>c, <1>d, <1>e, <1>g
    DEF FundingInv, FundingTypeOK, Fetch, range, raws, output, history
<1>2. SettledIsWhole'
  <2>1. ReadyToSettle(raw) => Whole(raw)
    BY <1>h DEF ReadyToSettle, Whole
  <2> QED
    BY <1>e, <2>1 DEF FundingInv, SettledIsWhole, Whole, Fetch, range, output
<1>3. JobHasRaw'
    BY <1>c, <1>d, <1>e, <1>f, <1>h DEF JobHasRaw, JobRaw, Fetch, range
<1>4. BetweenFiles'
    BY <1>g DEF BetweenFiles
<1>5. SidecarKnown'
    BY <1>e, <1>g, NoFileIsNone
    DEF FundingInv, FundingTypeOK, SidecarKnown, RebuildBetweenFiles, Fetch, Sidecars, Sources,
        output, history
<1>6. FirstRange'
  <2> SUFFICES ASSUME ~ ranged PROVE FirstRange'
    BY DEF FirstRange, Fetch, history
  <2>1. from = 0 /\ to = MonthDays /\ (openRaw # NoFile => openRaw.first = 0)
    BY DEF FundingInv, FirstRange
  <2>2. ReadyToSettle(raw) => WindowEnd = to
    BY DEF ReadyToSettle, Complete
  <2>3. openRaw # NoFile => openRaw.end \in Int /\ openRaw.end <= MonthDays
    BY MonthBounds DEF FundingInv, FundingTypeOK, Raws
  <2>4. openRaw # NoFile => openRaw.end <= WindowEnd
    BY <1>a, <2>1, <2>3 DEF Fetch, AheadOfCutoff, Complete
  <2>5. sidecar # NoFile /\ ~ sidecar.source.settled
           => openRaw # NoFile /\ sidecar.source.raw.end <= openRaw.end
              /\ sidecar.source.raw.end \in Int
    BY MonthBounds DEF FundingInv, FundingTypeOK, FirstRange, Sidecars, Sources, Raws
  <2>6. UNCHANGED <<from, to, sidecar, ranged>>
    BY DEF Fetch, range, output, history
  <2>7. CASE ReadyToSettle(raw)
    BY <1>c, <1>e, <1>h, <2>1, <2>2, <2>5, <2>6, <2>7 DEF FirstRange
  <2>8. CASE ~ ReadyToSettle(raw)
    BY <1>a, <1>c, <1>e, <1>h, <2>1, <2>3, <2>4, <2>5, <2>6, <2>8 DEF FirstRange
  <2> QED
    BY <2>7, <2>8
<1>7. NothingReported'
    BY <1>g DEF NothingReported
<1>8. CleanIsSelected'
    BY <1>g DEF CleanIsSelected
<1> QED
    BY <1>1, <1>2, <1>3, <1>4, <1>5, <1>6, <1>7, <1>8 DEF FundingInv

\* A month file that stays is reported, or is the one the raw file asks for.
LEMMA KeepMonthKeeps ==
    ASSUME FundingInv, KeepMonth PROVE FundingInv'
<1>1. FundingTypeOK'
    BY MonthBounds, NoFileIsNone
    DEF FundingInv, FundingTypeOK, KeepMonth, Report, range, raws, output, history
<1>2. SettledIsWhole'
    BY MonthBounds, NoFileIsNone
    DEF FundingInv, SettledIsWhole, Whole, KeepMonth, Report, range, raws, output, history
<1>3. JobHasRaw'
    BY MonthBounds, NoFileIsNone
    DEF FundingInv, JobHasRaw, JobRaw, WindowEnd, KeepMonth, Report, range, raws, output,
        history
<1>4. BetweenFiles'
    BY MonthBounds, NoFileIsNone
    DEF FundingInv, BetweenFiles, JobSource, JobRaw, Usable, RawFits, WindowEnd, KeepMonth,
        Report, range, raws, output, history
<1>5. SidecarKnown'
    BY MonthBounds, NoFileIsNone
    DEF FundingInv, SidecarKnown, RebuildBetweenFiles, KeepMonth, Report, range, raws,
        output, history
<1>6. FirstRange'
    BY MonthBounds, NoFileIsNone
    DEF FundingInv, FirstRange, KeepMonth, Report, range, raws, output, history
<1>7. NothingReported'
    BY MonthBounds, NoFileIsNone
    DEF FundingInv, NothingReported, KeepMonth, Report, range, raws, output, history
<1>8. CleanIsSelected'
  <2> SUFFICES ASSUME job'.report = "clean"
               PROVE  InView' \/ (ranged /\ job'.settled /\ settledRaw.end < to)
    BY DEF CleanIsSelected, KeepMonth, range, raws, history
  <2>1. Usable /\ Decide(JobSource, job.rebuild) = "audit" /\ job'.settled = job.settled
    BY DEF FundingInv, FundingTypeOK, KeepMonth, Report
  <2>2. InView' = InView
    BY DEF KeepMonth, InView, range, output
  <2> QED
    BY <2>1, <2>2, AuditedIsSame, UsableIsSelected DEF InView, KeepMonth
<1> QED
    BY <1>1, <1>2, <1>3, <1>4, <1>5, <1>6, <1>7, <1>8 DEF FundingInv

\* A new month file is of a usable raw file.
LEMMA WriteMonthKeeps ==
    ASSUME FundingInv, WriteMonth PROVE FundingInv'
<1>1. FundingTypeOK'
  <2>1. JobSource \in Sources
    BY JobSourceIsSource DEF FundingInv, JobHasRaw, WriteMonth
  <2>2. job' \in [today : 0 .. MonthDays, rebuild : BOOLEAN, settled : BOOLEAN,
                 report : {"none", "clean", "gap"}]
    BY DEF FundingInv, FundingTypeOK, WriteMonth, Report
  <2> QED
    BY <2>1, <2>2 DEF FundingInv, FundingTypeOK, WriteMonth, range, raws, output, history
<1>2. SettledIsWhole'
    BY MonthBounds, NoFileIsNone
    DEF FundingInv, SettledIsWhole, Whole, WriteMonth, Report, range, raws, output, history
<1>3. JobHasRaw'
    BY MonthBounds, NoFileIsNone
    DEF FundingInv, JobHasRaw, JobRaw, WindowEnd, WriteMonth, Report, range, raws, output,
        history
<1>4. BetweenFiles'
  <2>1. job'.settled = job.settled /\ job'.today = job.today /\ job'.rebuild = job.rebuild
    BY DEF FundingInv, FundingTypeOK, WriteMonth, Report
  <2>2. JobRaw' = JobRaw /\ WindowEnd' = WindowEnd
    BY <2>1 DEF WriteMonth, JobRaw, WindowEnd, range, raws
  <2>3. JobSource' = JobSource
    BY <2>1, <2>2 DEF JobSource
  <2>4. Usable'
    BY <2>1, <2>2 DEF WriteMonth, Usable, RawFits, range
  <2>5. sidecar # NoFile /\ sidecar.source.settled => job.rebuild \/ sidecar.source = JobSource
    BY ReplacedOnDemand DEF WriteMonth
  <2> QED
    BY <2>1, <2>3, <2>4, <2>5 DEF WriteMonth, BetweenFiles
<1>5. SidecarKnown'
  <2>1. job'.rebuild = job.rebuild /\ JobRaw # NoFile
    BY DEF FundingInv, FundingTypeOK, WriteMonth, Report, JobHasRaw
  <2>2. parquet' # NoFile
    BY <2>1, JobSourceIsSource, NoFileIsNone DEF WriteMonth
  <2>3. sidecar # NoFile /\ sidecar.source.settled => job.rebuild \/ sidecar.source = JobSource
    BY ReplacedOnDemand DEF WriteMonth
  <2> QED
    BY <2>1, <2>2, <2>3
    DEF FundingInv, SidecarKnown, RebuildBetweenFiles, WriteMonth, raws, history
<1>6. FirstRange'
    BY MonthBounds, NoFileIsNone
    DEF FundingInv, FirstRange, WriteMonth, Report, range, raws, output, history
<1>7. NothingReported'
    BY MonthBounds, NoFileIsNone
    DEF FundingInv, NothingReported, WriteMonth, Report, range, raws, output, history
<1>8. CleanIsSelected'
    BY MonthBounds, NoFileIsNone
    DEF FundingInv, CleanIsSelected, InView, WriteMonth, Report, range, raws, output, history
<1> QED
    BY <1>1, <1>2, <1>3, <1>4, <1>5, <1>6, <1>7, <1>8 DEF FundingInv

\* With its sidecar the month file is known, and selected.
LEMMA WriteSidecarKeeps ==
    ASSUME FundingInv, WriteSidecar PROVE FundingInv'
<1>1. FundingTypeOK'
  <2>1. JobSource \in Sources
    BY JobSourceIsSource DEF FundingInv, JobHasRaw, WriteSidecar
  <2>2. sidecar' \in Sidecars
    BY <2>1 DEF WriteSidecar, Sidecars
  <2> QED
    BY <2>2 DEF FundingInv, FundingTypeOK, WriteSidecar, range, raws, output, history
<1>2. SettledIsWhole'
  <2>1. sidecar'.source.settled => settledRaw # NoFile /\ sidecar'.source.raw = settledRaw
    BY DEF FundingInv, JobHasRaw, WriteSidecar, JobSource, JobRaw
  <2> QED
    BY <2>1 DEF FundingInv, SettledIsWhole, Whole, WriteSidecar, range, raws
<1>3. JobHasRaw'
    BY MonthBounds, NoFileIsNone
    DEF FundingInv, JobHasRaw, JobRaw, WindowEnd, WriteSidecar, range, raws, output, history
<1>4. BetweenFiles'
    BY MonthBounds, NoFileIsNone
    DEF FundingInv, BetweenFiles, JobSource, JobRaw, Usable, RawFits, WindowEnd,
        WriteSidecar, range, raws, output, history
<1>5. SidecarKnown'
  <2>1. JobSource \in Sources
    BY JobSourceIsSource DEF FundingInv, JobHasRaw, WriteSidecar
  <2>2. sidecar' \in Sidecars /\ sidecar'.source = JobSource
    BY <2>1 DEF WriteSidecar, Sidecars
  <2>3. parquet = JobSource
    BY DEF FundingInv, BetweenFiles, WriteSidecar
  <2>4. sidecar' # NoFile /\ parquet # NoFile /\ parquet = sidecar'.source
    BY <2>1, <2>2, <2>3, NoFileIsNone
  <2>5. sidecar'.source.settled => sidecar'.source.raw = settledRaw
    BY <2>2 DEF JobSource, JobRaw
  <2> QED
    BY <2>4, <2>5 DEF SidecarKnown, WriteSidecar, raws, output
<1>6. FirstRange'
  <2>1. ~ sidecar'.source.settled => openRaw # NoFile /\ sidecar'.source.raw = openRaw
    BY DEF FundingInv, JobHasRaw, WriteSidecar, JobSource, JobRaw
  <2>2. openRaw # NoFile => openRaw.end \in Int
    BY DEF FundingInv, FundingTypeOK, Raws
  <2> QED
    BY <2>1, <2>2 DEF FundingInv, FirstRange, WriteSidecar, range, raws, history
<1>7. NothingReported'
    BY MonthBounds, NoFileIsNone
    DEF FundingInv, NothingReported, WriteSidecar, range, raws, output, history
<1>8. CleanIsSelected'
  <2>1. JobSource \in Sources /\ sidecar' \in Sidecars /\ parquet # NoFile
    BY JobSourceIsSource, NoFileIsNone
    DEF FundingInv, JobHasRaw, BetweenFiles, WriteSidecar, Sidecars
  <2>2. sidecar' # NoFile /\ sidecar'.windowed /\ sidecar'.source = JobSource
    BY <2>1, NoFileIsNone DEF WriteSidecar
  <2>3. Usable
    BY DEF FundingInv, BetweenFiles, WriteSidecar
  <2>4. InView' \/ (ranged /\ job.settled /\ settledRaw.end < to)
    BY <2>1, <2>2, <2>3, UsableIsSelected DEF WriteSidecar, InView, range
  <2> QED
    BY <2>4 DEF CleanIsSelected, WriteSidecar, range, raws, history
<1> QED
    BY <1>1, <1>2, <1>3, <1>4, <1>5, <1>6, <1>7, <1>8 DEF FundingInv

\* The view follows the sidecar.
LEMMA RefreshViewKeeps ==
    ASSUME FundingInv, RefreshView PROVE FundingInv'
<1>1. FundingTypeOK'
  <2>1. listed' \in BOOLEAN
    BY DEF RefreshView, InView
  <2> QED
    BY <2>1, MonthBounds DEF FundingInv, FundingTypeOK, RefreshView, NewJob, range, raws,
        output, history
<1>2. SettledIsWhole'
    BY MonthBounds, NoFileIsNone
    DEF FundingInv, SettledIsWhole, Whole, RefreshView, NewJob, range, raws, output, history
<1>3. JobHasRaw'
    BY MonthBounds, NoFileIsNone
    DEF FundingInv, JobHasRaw, JobRaw, WindowEnd, RefreshView, NewJob, range, raws, output,
        history
<1>4. BetweenFiles'
    BY MonthBounds, NoFileIsNone
    DEF FundingInv, BetweenFiles, JobSource, JobRaw, Usable, RawFits, WindowEnd,
        RefreshView, NewJob, range, raws, output, history
<1>5. SidecarKnown'
    BY MonthBounds, NoFileIsNone
    DEF FundingInv, SidecarKnown, RebuildBetweenFiles, RefreshView, NewJob, range, raws,
        output, history
<1>6. FirstRange'
    BY MonthBounds, NoFileIsNone
    DEF FundingInv, FirstRange, RefreshView, NewJob, range, raws, output, history
<1>7. NothingReported'
    BY MonthBounds, NoFileIsNone
    DEF FundingInv, NothingReported, RefreshView, NewJob, range, raws, output, history
<1>8. CleanIsSelected'
    BY MonthBounds, NoFileIsNone
    DEF FundingInv, CleanIsSelected, InView, RefreshView, NewJob, range, raws, output, history
<1> QED
    BY <1>1, <1>2, <1>3, <1>4, <1>5, <1>6, <1>7, <1>8 DEF FundingInv

\* A death between the two files is remembered.
LEMMA SyncDiesKeeps ==
    ASSUME FundingInv, SyncDies PROVE FundingInv'
<1>1. FundingTypeOK'
    BY MonthBounds, NoFileIsNone
    DEF FundingInv, FundingTypeOK, SyncDies, NewJob, range, raws, output, history
<1>2. SettledIsWhole'
    BY MonthBounds, NoFileIsNone
    DEF FundingInv, SettledIsWhole, Whole, SyncDies, NewJob, range, raws, output, history
<1>3. JobHasRaw'
    BY MonthBounds, NoFileIsNone
    DEF FundingInv, JobHasRaw, JobRaw, WindowEnd, SyncDies, NewJob, range, raws, output, history
<1>4. BetweenFiles'
    BY MonthBounds, NoFileIsNone
    DEF FundingInv, BetweenFiles, JobSource, JobRaw, Usable, RawFits, WindowEnd, SyncDies,
        NewJob, range, raws, output, history
<1>5. SidecarKnown'
    BY MonthBounds, NoFileIsNone
    DEF FundingInv, SidecarKnown, RebuildBetweenFiles, SyncDies, NewJob, range, raws,
        output, history
<1>6. FirstRange'
    BY MonthBounds, NoFileIsNone
    DEF FundingInv, FirstRange, SyncDies, NewJob, range, raws, output, history
<1>7. NothingReported'
    BY MonthBounds, NoFileIsNone
    DEF FundingInv, NothingReported, SyncDies, NewJob, range, raws, output, history
<1>8. CleanIsSelected'
    BY MonthBounds, NoFileIsNone
    DEF FundingInv, CleanIsSelected, InView, SyncDies, NewJob, range, raws, output, history
<1> QED
    BY <1>1, <1>2, <1>3, <1>4, <1>5, <1>6, <1>7, <1>8 DEF FundingInv

\* A day changes nothing.
LEMMA DayPassesKeeps ==
    ASSUME FundingInv, DayPasses PROVE FundingInv'
<1>1. FundingTypeOK'
    BY MonthBounds, NoFileIsNone
    DEF FundingInv, FundingTypeOK, DayPasses, range, raws, output, history
<1>2. SettledIsWhole'
    BY MonthBounds, NoFileIsNone
    DEF FundingInv, SettledIsWhole, Whole, DayPasses, range, raws, output, history
<1>3. JobHasRaw'
    BY MonthBounds, NoFileIsNone
    DEF FundingInv, JobHasRaw, JobRaw, WindowEnd, DayPasses, range, raws, output, history
<1>4. BetweenFiles'
    BY MonthBounds, NoFileIsNone
    DEF FundingInv, BetweenFiles, JobSource, JobRaw, Usable, RawFits, WindowEnd, DayPasses,
        range, raws, output, history
<1>5. SidecarKnown'
    BY MonthBounds, NoFileIsNone
    DEF FundingInv, SidecarKnown, RebuildBetweenFiles, DayPasses, range, raws, output, history
<1>6. FirstRange'
    BY MonthBounds, NoFileIsNone
    DEF FundingInv, FirstRange, DayPasses, range, raws, output, history
<1>7. NothingReported'
    BY MonthBounds, NoFileIsNone
    DEF FundingInv, NothingReported, DayPasses, range, raws, output, history
<1>8. CleanIsSelected'
    BY MonthBounds, NoFileIsNone
    DEF FundingInv, CleanIsSelected, InView, DayPasses, range, raws, output, history
<1> QED
    BY <1>1, <1>2, <1>3, <1>4, <1>5, <1>6, <1>7, <1>8 DEF FundingInv

\* A moved raw file no longer vouches for its sidecar.
LEMMA MoveAsideKeeps ==
    ASSUME FundingInv, MoveAside PROVE FundingInv'
<1>1. FundingTypeOK'
    BY MonthBounds, NoFileIsNone
    DEF FundingInv, FundingTypeOK, MoveAside, Edit, range, raws, output, history
<1>2. SettledIsWhole'
    BY MonthBounds, NoFileIsNone
    DEF FundingInv, SettledIsWhole, Whole, MoveAside, Edit, range, raws, output, history
<1>3. JobHasRaw'
    BY MonthBounds, NoFileIsNone
    DEF FundingInv, JobHasRaw, JobRaw, WindowEnd, MoveAside, Edit, range, raws, output, history
<1>4. BetweenFiles'
    BY MonthBounds, NoFileIsNone
    DEF FundingInv, BetweenFiles, JobSource, JobRaw, Usable, RawFits, WindowEnd, MoveAside,
        Edit, range, raws, output, history
<1>5. SidecarKnown'
    BY MonthBounds, NoFileIsNone
    DEF FundingInv, SidecarKnown, RebuildBetweenFiles, MoveAside, Edit, range, raws, output,
        history
<1>6. FirstRange'
    BY MonthBounds, NoFileIsNone
    DEF FundingInv, FirstRange, MoveAside, Edit, range, raws, output, history
<1>7. NothingReported'
    BY MonthBounds, NoFileIsNone
    DEF FundingInv, NothingReported, MoveAside, Edit, range, raws, output, history
<1>8. CleanIsSelected'
    BY MonthBounds, NoFileIsNone
    DEF FundingInv, CleanIsSelected, InView, MoveAside, Edit, range, raws, output, history
<1> QED
    BY <1>1, <1>2, <1>3, <1>4, <1>5, <1>6, <1>7, <1>8 DEF FundingInv

\* A changed range ends what holds for the first one.
LEMMA ChangeRangeKeeps ==
    ASSUME FundingInv, ChangeRange PROVE FundingInv'
<1>1. FundingTypeOK'
    BY MonthBounds, NoFileIsNone
    DEF FundingInv, FundingTypeOK, ChangeRange, Edit, range, raws, output, history
<1>2. SettledIsWhole'
    BY MonthBounds, NoFileIsNone
    DEF FundingInv, SettledIsWhole, Whole, ChangeRange, Edit, range, raws, output, history
<1>3. JobHasRaw'
    BY MonthBounds, NoFileIsNone
    DEF FundingInv, JobHasRaw, JobRaw, WindowEnd, ChangeRange, Edit, range, raws, output,
        history
<1>4. BetweenFiles'
    BY MonthBounds, NoFileIsNone
    DEF FundingInv, BetweenFiles, JobSource, JobRaw, Usable, RawFits, WindowEnd,
        ChangeRange, Edit, range, raws, output, history
<1>5. SidecarKnown'
    BY MonthBounds, NoFileIsNone
    DEF FundingInv, SidecarKnown, RebuildBetweenFiles, ChangeRange, Edit, range, raws,
        output, history
<1>6. FirstRange'
    BY MonthBounds, NoFileIsNone
    DEF FundingInv, FirstRange, ChangeRange, Edit, range, raws, output, history
<1>7. NothingReported'
    BY MonthBounds, NoFileIsNone
    DEF FundingInv, NothingReported, ChangeRange, Edit, range, raws, output, history
<1>8. CleanIsSelected'
    BY MonthBounds, NoFileIsNone
    DEF FundingInv, CleanIsSelected, InView, ChangeRange, Edit, range, raws, output, history
<1> QED
    BY <1>1, <1>2, <1>3, <1>4, <1>5, <1>6, <1>7, <1>8 DEF FundingInv

\* A whole month stays whole.
LEMMA AcknowledgeHoleKeeps ==
    ASSUME FundingInv, AcknowledgeHole PROVE FundingInv'
<1>1. FundingTypeOK'
    BY MonthBounds, NoFileIsNone
    DEF FundingInv, FundingTypeOK, AcknowledgeHole, Edit, range, raws, output, history
<1>2. SettledIsWhole'
    BY MonthBounds, NoFileIsNone
    DEF FundingInv, SettledIsWhole, Whole, AcknowledgeHole, Edit, range, raws, output, history
<1>3. JobHasRaw'
    BY MonthBounds, NoFileIsNone
    DEF FundingInv, JobHasRaw, JobRaw, WindowEnd, AcknowledgeHole, Edit, range, raws,
        output, history
<1>4. BetweenFiles'
    BY MonthBounds, NoFileIsNone
    DEF FundingInv, BetweenFiles, JobSource, JobRaw, Usable, RawFits, WindowEnd,
        AcknowledgeHole, Edit, range, raws, output, history
<1>5. SidecarKnown'
    BY MonthBounds, NoFileIsNone
    DEF FundingInv, SidecarKnown, RebuildBetweenFiles, AcknowledgeHole, Edit, range, raws,
        output, history
<1>6. FirstRange'
    BY MonthBounds, NoFileIsNone
    DEF FundingInv, FirstRange, AcknowledgeHole, Edit, range, raws, output, history
<1>7. NothingReported'
    BY MonthBounds, NoFileIsNone
    DEF FundingInv, NothingReported, AcknowledgeHole, Edit, range, raws, output, history
<1>8. CleanIsSelected'
    BY MonthBounds, NoFileIsNone
    DEF FundingInv, CleanIsSelected, InView, AcknowledgeHole, Edit, range, raws, output, history
<1> QED
    BY <1>1, <1>2, <1>3, <1>4, <1>5, <1>6, <1>7, <1>8 DEF FundingInv

-----------------------------------------------------------------------------
LEMMA InitFunding ==
    FundingInit => FundingInv
<1> SUFFICES ASSUME FundingInit PROVE FundingInv
    OBVIOUS
<1>1. WholeMonth \in Raws
    BY MonthBounds DEF WholeMonth, Raws, Days
<1>2. [settled |-> TRUE, raw |-> WholeMonth] \in Sources
    BY <1>1 DEF Sources
<1> DEFINE settled == [settled |-> TRUE, raw |-> WholeMonth]
<1>3. [source |-> settled, windowed |-> FALSE] \in Sidecars /\ settled # NoFile
    BY <1>2, NoFileIsNone DEF Sidecars
<1>4. /\ [source |-> settled, windowed |-> FALSE] # NoFile
      /\ settled.raw = WholeMonth /\ settled.settled
    BY <1>3, NoFileIsNone
<1> HIDE DEF settled
<1>5. \/ settledRaw = NoFile /\ parquet = NoFile /\ sidecar = NoFile
      \/ /\ settledRaw = WholeMonth /\ parquet = settled
         /\ sidecar = [source |-> settled, windowed |-> FALSE]
    BY DEF FundingInit, settled
<1>6. /\ sidecar # NoFile => /\ sidecar \in Sidecars /\ parquet # NoFile
                             /\ settledRaw = WholeMonth /\ parquet = sidecar.source
                             /\ sidecar.source.raw = WholeMonth /\ sidecar.source.settled
      /\ parquet # NoFile => sidecar # NoFile
  <2>1. CASE sidecar = [source |-> settled, windowed |-> FALSE] /\ parquet = settled
    BY <1>3, <1>4, <1>5, <2>1
  <2> QED
    BY <1>5, <2>1
<1>7. FundingTypeOK
  <2>1. job \in [today : 0 .. MonthDays, rebuild : BOOLEAN, settled : BOOLEAN,
                report : {"none", "clean", "gap"}]
    BY MonthBounds DEF FundingInit, NewJob
  <2>2. settledRaw \in Raws \cup {NoFile} /\ parquet \in Sources \cup {NoFile}
        /\ sidecar \in Sidecars \cup {NoFile}
    BY <1>1, <1>2, <1>6 DEF FundingInit
  <2>3. /\ day \in 0 .. MonthDays /\ from \in Days /\ to \in 1 .. MonthDays /\ from < to
        /\ edits \in 0 .. MaxEdits
    BY MonthBounds DEF FundingInit, Days
  <2> QED
    BY <2>1, <2>2, <2>3 DEF FundingInit, FundingTypeOK
<1>8. SettledIsWhole
  <2>1. Whole(WholeMonth)
    BY DEF Whole, WholeMonth, Slots, Days
  <2> QED
    BY <1>6, <2>1 DEF FundingInit, SettledIsWhole
<1>9. JobHasRaw /\ BetweenFiles /\ NothingReported /\ CleanIsSelected
    BY DEF FundingInit, JobHasRaw, BetweenFiles, NothingReported, CleanIsSelected
<1>10. SidecarKnown
    BY <1>6 DEF SidecarKnown
<1>11. FirstRange
    BY <1>6 DEF FundingInit, FirstRange, WholeMonth
<1> QED
    BY <1>7, <1>8, <1>9, <1>10, <1>11 DEF FundingInv

LEMMA StepFunding ==
    FundingInv /\ [FundingNext]_fundingVars => FundingInv'
<1> SUFFICES ASSUME FundingInv, [FundingNext]_fundingVars PROVE FundingInv'
    OBVIOUS
<1>1. CASE UNCHANGED fundingVars
  <2>1. UNCHANGED <<day, from, to, knownHoles, settledRaw, openRaw, parquet, sidecar, listed,
                    stage, job, edits, moved, ranged, cutShort>>
    BY <1>1 DEF fundingVars, range, raws, output, history
  <2> QED
    BY <2>1 DEF FundingInv, FundingTypeOK, SettledIsWhole, Whole, JobHasRaw, JobRaw, WindowEnd,
        BetweenFiles, JobSource, Usable, RawFits, SidecarKnown, RebuildBetweenFiles, FirstRange,
        NothingReported, CleanIsSelected, InView
<1>2. CASE Sync
    BY <1>2, StartSyncKeeps, NoMonthKeeps, SkipMonthKeeps, ReuseSettledKeeps, FetchKeeps,
       KeepMonthKeeps, WriteMonthKeeps, WriteSidecarKeeps, RefreshViewKeeps, SyncDiesKeeps
    DEF Sync
<1>3. CASE DayPasses \/ Operator
    BY <1>3, DayPassesKeeps, MoveAsideKeeps, ChangeRangeKeeps, AcknowledgeHoleKeeps DEF Operator
<1> QED
    BY <1>1, <1>2, <1>3 DEF FundingNext

\* The invariant holds of every month, whatever dies and whoever edits.
THEOREM FundingCorrect ==
    FundingSpec => []FundingInv
BY InitFunding, StepFunding, PTL DEF FundingSpec

\* Every variable of the month keeps its type.
THEOREM FundingTypeCorrect ==
    FundingSpec => []FundingTypeOK
<1>1. FundingInv => FundingTypeOK
    BY DEF FundingInv
<1> QED
    BY <1>1, FundingCorrect, PTL

\* What the view takes for a settled month has every settlement once, unless a
\* --rebuild is, or was cut off, between the month file and its sidecar.
\* (ready_to_settle, _decide, _write_parquet, _sidecar_covers.)
THEOREM SettledMonthAlwaysWhole ==
    FundingSpec => []SettledMonthIsWhole
<1>1. FundingInv => SettledMonthIsWhole
  <2> SUFFICES ASSUME FundingInv, InView, sidecar.source.settled
               PROVE  \/ /\ Slots(from, to) \subseteq parquet.raw.rows \cup knownHoles
                         /\ ~ parquet.raw.doubled
                      \/ parquet # sidecar.source /\ RebuildBetweenFiles
    BY DEF SettledMonthIsWhole
  <2>1. sidecar # NoFile /\ sidecar.source.raw.first = from /\ sidecar.source.raw.end = to
    BY DEF InView
  <2>2. Whole(sidecar.source.raw)
    BY <2>1 DEF FundingInv, SettledIsWhole
  <2>3. parquet = sidecar.source \/ RebuildBetweenFiles
    BY <2>1 DEF FundingInv, SidecarKnown
  <2> QED
    BY <2>1, <2>2, <2>3 DEF Whole
<1> QED
    BY <1>1, FundingCorrect, PTL

\* A sync that reports nothing of a month has it in the view, but for a settled raw
\* file of a shorter range.  (_load_raw_source, funding_view_files.)
THEOREM CleanIsAlwaysSelected ==
    FundingSpec => []CleanIsSelected
<1>1. FundingInv => CleanIsSelected
    BY DEF FundingInv
<1> QED
    BY <1>1, FundingCorrect, PTL

\* A refusal to replace a month file has one of two causes.  (decide_output, _decide.)
THEOREM RefusalAlwaysExplained ==
    FundingSpec => []RefusalExplained
<1>1. FundingInv => RefusalExplained
  <2> SUFFICES ASSUME FundingInv, stage = "materialize"
               PROVE  /\ Decide(JobSource, job.rebuild) = "untracked" => "first" \in cutShort
                      /\ Decide(JobSource, job.rebuild) = "changed" => moved
    BY DEF RefusalExplained
  <2>1. ASSUME Decide(JobSource, job.rebuild) = "untracked" PROVE "first" \in cutShort
    <3>1. parquet # NoFile /\ sidecar = NoFile
        BY <2>1 DEF Decide, DecideOutput, Provisional
    <3> QED
        BY <3>1 DEF FundingInv, SidecarKnown
  <2>2. ASSUME Decide(JobSource, job.rebuild) = "changed", ~ moved PROVE FALSE
    <3>1. sidecar # NoFile /\ sidecar.source # JobSource /\ sidecar.source.settled
        BY <2>2 DEF Decide, DecideOutput, Provisional
    <3>2. sidecar \in Sidecars /\ sidecar.source \in Sources /\ sidecar.source.raw \in Raws
        BY <3>1 DEF FundingInv, FundingTypeOK, Sidecars, Sources
    <3>3. settledRaw = sidecar.source.raw
        BY <2>2, <3>1 DEF FundingInv, SidecarKnown
    <3>4. job.settled /\ JobRaw = settledRaw
        BY <3>2, <3>3, NoFileIsNone DEF FundingInv, JobHasRaw, JobRaw
    <3>5. sidecar.source = [settled |-> TRUE, raw |-> settledRaw] /\ job.settled = TRUE
        BY <3>1, <3>2, <3>3, <3>4 DEF Sources, FundingInv, FundingTypeOK
    <3> QED
        BY <3>1, <3>4, <3>5 DEF JobSource
  <2> QED
    BY <2>1, <2>2 DEF FundingInv, FundingTypeOK
<1> QED
    BY <1>1, FundingCorrect, PTL

-----------------------------------------------------------------------------
(* The prints in the month file.                                            *)

\* A raw file and the month file have prints of their window only.
RowsInWindow ==
    /\ settledRaw # NoFile => settledRaw.rows \subseteq Slots(settledRaw.first, settledRaw.end)
    /\ openRaw # NoFile => openRaw.rows \subseteq Slots(openRaw.first, openRaw.end)
    /\ parquet # NoFile =>
           parquet.raw.rows \subseteq Slots(parquet.raw.first, parquet.raw.end)

\* While the range is the first one, the open raw file reaches as far as any month file
\* made from an earlier one, with a sidecar or without.
FirstFile ==
    ~ ranged /\ parquet # NoFile =>
        /\ parquet.raw.first = 0
        /\ ~ parquet.settled => openRaw # NoFile /\ parquet.raw.end <= openRaw.end

\* What the view reads is still there, and a refresh would read it again while the
\* range is the first one.
ListedStays == listed => parquet # NoFile /\ sidecar # NoFile /\ (~ ranged => InView)

WholeOnceClean ==
    stage \in {"sidecar", "refresh"} /\ job.report = "clean"
        => Slots(from, WindowEnd) \subseteq parquet.raw.rows \cup knownHoles

PrintsInv == RowsInWindow /\ FirstFile /\ ListedStays /\ WholeOnceClean

\* A usable raw file ends with the window of the sync, and a month written or kept
\* without a gap has all of it.
LEMMA UsableFillsWindow ==
    ASSUME FundingInv, stage = "materialize", Usable
    PROVE  /\ JobRaw # NoFile /\ JobRaw.end = WindowEnd /\ JobRaw.first = from
           /\ ~ job.settled => JobRaw = openRaw /\ settledRaw = NoFile
           /\ job.settled => JobRaw = settledRaw
           /\ NoHoles <=> Slots(from, WindowEnd) \subseteq JobRaw.rows \cup knownHoles
<1>1. JobRaw # NoFile /\ JobRaw.end = WindowEnd /\ JobRaw.first = from
    BY DEF FundingInv, JobHasRaw, Usable, RawFits, JobRaw
<1> QED
    BY <1>1 DEF FundingInv, JobHasRaw, JobRaw, NoHoles

\* Every step that writes no raw file, month file or sidecar.
LEMMA FilesUntouched ==
    ASSUME FundingInv, PrintsInv, UNCHANGED <<openRaw, parquet, sidecar, listed>>,
           settledRaw' \in {settledRaw, NoFile},
           (ranged' = ranged /\ UNCHANGED <<from, to>>) \/ ranged',
           WholeOnceClean'
    PROVE  PrintsInv'
BY DEF PrintsInv, RowsInWindow, FirstFile, ListedStays, InView

\* What was fetched is of its window, and reaches as far as the month file.
LEMMA FetchKeepsPrints ==
    ASSUME FundingInv, PrintsInv, Fetch PROVE PrintsInv'
<1> PICK rows \in SUBSET Slots(from, WindowEnd), doubled \in BOOLEAN :
        LET raw == [first |-> from, end |-> WindowEnd, rows |-> rows, doubled |-> doubled]
        IN  /\ doubled => rows # {}
            /\ IF ReadyToSettle(raw) THEN settledRaw' = raw /\ openRaw' = openRaw
               ELSE openRaw' = raw /\ settledRaw' = settledRaw
            /\ job' = [job EXCEPT !.settled = ReadyToSettle(raw)]
    BY DEF Fetch
<1> DEFINE raw == [first |-> from, end |-> WindowEnd, rows |-> rows, doubled |-> doubled]
<1>1. /\ raw.rows \subseteq Slots(raw.first, raw.end) /\ raw.end = WindowEnd
      /\ \/ settledRaw' = raw /\ openRaw' = openRaw
         \/ openRaw' = raw /\ settledRaw' = settledRaw
    OBVIOUS
<1>2. /\ WindowEnd \in Int /\ from \in Int /\ from < WindowEnd
      /\ from \in Days /\ WindowEnd \in 1 .. MonthDays /\ Slots(from, WindowEnd) \subseteq Days
    BY MonthBounds DEF FundingInv, FundingTypeOK, Days, Slots, WindowEnd, Fetch, HasWindow
<1>3. raw # NoFile
  <2>1. raw \in Raws
    BY <1>2 DEF Raws
  <2> QED
    BY <2>1, NoFileIsNone
<1> HIDE DEF raw
<1>4. UNCHANGED <<from, to, knownHoles, parquet, sidecar, listed, ranged>>
      /\ stage' = "materialize"
    BY DEF Fetch, range, output, history
<1>5. RowsInWindow'
    BY <1>1, <1>4 DEF PrintsInv, RowsInWindow
<1>6. FirstFile'
  <2> SUFFICES ASSUME ~ ranged, parquet # NoFile PROVE FirstFile'
    BY <1>4 DEF FirstFile
  <2>1. ~ parquet.settled => openRaw # NoFile /\ parquet.raw.end <= openRaw.end
    BY DEF PrintsInv, FirstFile
  <2>2. parquet.raw.end \in Int /\ (openRaw # NoFile => openRaw.end \in Int)
        /\ (openRaw # NoFile => openRaw.end <= MonthDays)
    BY MonthBounds DEF FundingInv, FundingTypeOK, Sources, Raws
  <2>3. openRaw # NoFile => openRaw.end <= WindowEnd
    BY <1>2, <2>2 DEF FundingInv, FirstRange, Fetch, AheadOfCutoff, Complete
  <2> QED
    BY <1>1, <1>2, <1>3, <1>4, <2>1, <2>2, <2>3 DEF PrintsInv, FirstFile
<1>7. ListedStays' /\ WholeOnceClean'
    BY <1>4 DEF PrintsInv, ListedStays, InView, WholeOnceClean
<1> QED
    BY <1>5, <1>6, <1>7 DEF PrintsInv

\* A new month file has what its raw file has.
LEMMA WriteMonthKeepsPrints ==
    ASSUME FundingInv, PrintsInv, WriteMonth PROVE PrintsInv'
<1>1. /\ JobRaw # NoFile /\ JobRaw.end = WindowEnd /\ JobRaw.first = from
      /\ ~ job.settled => JobRaw = openRaw
      /\ job.settled => JobRaw = settledRaw
      /\ NoHoles <=> Slots(from, WindowEnd) \subseteq JobRaw.rows \cup knownHoles
    BY UsableFillsWindow DEF WriteMonth
<1>2. /\ parquet'.raw = JobRaw /\ parquet'.settled = job.settled /\ stage' = "sidecar"
      /\ UNCHANGED <<from, to, knownHoles, settledRaw, openRaw, sidecar, listed, ranged>>
    BY DEF WriteMonth, JobSource, range, raws, history
<1>3. parquet' # NoFile
    BY <1>1, JobSourceIsSource, NoFileIsNone DEF WriteMonth
<1>4. job'.today = job.today /\ (job'.report = "clean" => NoHoles)
    BY DEF WriteMonth, Report, FundingInv, FundingTypeOK
<1>5. RowsInWindow'
    BY <1>1, <1>2 DEF PrintsInv, RowsInWindow
<1>6. FirstFile'
  <2>1. openRaw # NoFile => openRaw.end \in Int
    BY DEF FundingInv, FundingTypeOK, Raws
  <2> QED
    BY <1>1, <1>2, <2>1 DEF FirstFile, FundingInv, FirstRange
<1>7. ListedStays'
    BY <1>2, <1>3 DEF PrintsInv, ListedStays, InView
<1>8. WholeOnceClean'
    BY <1>1, <1>2, <1>4 DEF WholeOnceClean, WindowEnd
<1> QED
    BY <1>5, <1>6, <1>7, <1>8 DEF PrintsInv

\* A sidecar selects the month file it is written for.
LEMMA WriteSidecarKeepsPrints ==
    ASSUME FundingInv, PrintsInv, WriteSidecar PROVE PrintsInv'
<1>1. stage = "sidecar" /\ Usable /\ JobRaw # NoFile /\ parquet = JobSource
    BY DEF WriteSidecar, FundingInv, BetweenFiles, JobHasRaw
<1>2. JobSource \in Sources /\ sidecar' \in Sidecars
    BY <1>1, JobSourceIsSource DEF WriteSidecar, Sidecars
<1>3. /\ sidecar' # NoFile /\ sidecar'.windowed /\ sidecar'.source = JobSource
      /\ stage' = "refresh"
      /\ UNCHANGED <<from, to, knownHoles, settledRaw, openRaw, parquet, listed, job, ranged>>
    BY <1>2, NoFileIsNone DEF WriteSidecar, range, raws, history
<1>4. parquet # NoFile
    BY <1>1, <1>2, NoFileIsNone
<1>5. ~ ranged => InView'
    BY <1>1, <1>3, <1>4, UsableIsSelected DEF InView
<1> QED
    BY <1>1, <1>3, <1>4, <1>5
    DEF PrintsInv, RowsInWindow, FirstFile, ListedStays, WholeOnceClean, WindowEnd

\* A month that was kept without a gap is whole.
LEMMA KeepMonthKeepsPrints ==
    ASSUME FundingInv, PrintsInv, KeepMonth PROVE PrintsInv'
<1>1. /\ UNCHANGED <<from, to, knownHoles, settledRaw, openRaw, parquet, sidecar, listed, ranged>>
      /\ job'.today = job.today
      /\ job'.report = "clean" => Usable /\ AuditPasses /\ NoHoles
    BY DEF KeepMonth, Report, range, raws, output, history, FundingInv, FundingTypeOK
<1>2. WholeOnceClean'
    BY <1>1, UsableFillsWindow DEF KeepMonth, AuditPasses, WholeOnceClean, WindowEnd
<1> QED
    BY <1>1, <1>2, FilesUntouched

\* The view lists what it would select again.
LEMMA RefreshViewKeepsPrints ==
    ASSUME FundingInv, PrintsInv, RefreshView PROVE PrintsInv'
<1>1. /\ UNCHANGED <<from, to, settledRaw, openRaw, parquet, sidecar, ranged>>
      /\ stage' = "idle" /\ listed' = InView /\ InView' = InView
    BY DEF RefreshView, range, raws, output, history, InView
<1> QED
    BY <1>1
    DEF PrintsInv, RowsInWindow, FirstFile, ListedStays, WholeOnceClean, InView

LEMMA StepPrints ==
    FundingInv /\ PrintsInv /\ [FundingNext]_fundingVars => PrintsInv'
<1> SUFFICES ASSUME FundingInv, PrintsInv, [FundingNext]_fundingVars PROVE PrintsInv'
    OBVIOUS
<1>1. CASE UNCHANGED fundingVars
  <2>1. UNCHANGED <<from, to, knownHoles, settledRaw, openRaw, parquet, sidecar, listed, stage,
                    job, ranged>>
    BY <1>1 DEF fundingVars, range, raws, output, history
  <2>2. WholeOnceClean'
    BY <2>1 DEF PrintsInv, WholeOnceClean, WindowEnd
  <2> QED
    BY <2>1, <2>2, FilesUntouched
<1>2. CASE NoMonth
  <2>1. UNCHANGED <<from, to, settledRaw, openRaw, parquet, sidecar, listed, ranged>>
    BY <1>2 DEF NoMonth, range, raws, output, history
  <2>2. WholeOnceClean'
    BY <1>2 DEF NoMonth, FundingInv, NothingReported, WholeOnceClean
  <2> QED
    BY <2>1, <2>2, FilesUntouched
<1>3. CASE SkipMonth
  <2>1. UNCHANGED <<from, to, settledRaw, openRaw, parquet, sidecar, listed, ranged>>
    BY <1>3 DEF SkipMonth, range, raws, output, history
  <2>2. WholeOnceClean'
    BY <1>3 DEF SkipMonth, FundingInv, FundingTypeOK, WholeOnceClean
  <2> QED
    BY <2>1, <2>2, FilesUntouched
<1>4. CASE StartSync \/ ReuseSettled \/ SyncDies \/ DayPasses \/ Operator
  <2>1. /\ UNCHANGED <<openRaw, parquet, sidecar, listed>>
        /\ settledRaw' \in {settledRaw, NoFile}
        /\ (ranged' = ranged /\ UNCHANGED <<from, to>>) \/ ranged'
    BY <1>4 DEF StartSync, ReuseSettled, SyncDies, DayPasses, Operator, MoveAside, ChangeRange,
        AcknowledgeHole, range, raws, output, history
  <2>2. stage' \notin {"sidecar", "refresh"}
    BY <1>4 DEF StartSync, ReuseSettled, SyncDies, DayPasses, Operator, MoveAside, ChangeRange,
        AcknowledgeHole, Edit
  <2>3. WholeOnceClean'
    BY <2>2 DEF WholeOnceClean
  <2> QED
    BY <2>1, <2>3, FilesUntouched
<1> QED
    BY <1>1, <1>2, <1>3, <1>4, FetchKeepsPrints, WriteMonthKeepsPrints, WriteSidecarKeepsPrints,
       KeepMonthKeepsPrints, RefreshViewKeepsPrints DEF FundingNext, Sync

LEMMA InitPrints ==
    FundingInit => PrintsInv
<1> SUFFICES ASSUME FundingInit PROVE PrintsInv
    OBVIOUS
<1>1. WholeMonth.rows \subseteq Slots(WholeMonth.first, WholeMonth.end) /\ WholeMonth.first = 0
    BY DEF WholeMonth, Slots, Days
<1>2. parquet # NoFile => parquet.raw = WholeMonth /\ parquet.settled
    BY DEF FundingInit
<1> QED
    BY <1>1, <1>2
    DEF FundingInit, PrintsInv, RowsInWindow, FirstFile, ListedStays, WholeOnceClean

\* A month file replaced without a gap has every print of the one before that is not
\* acknowledged, unless that was of a settled raw file that is gone.
LEMMA StepKeepsPrints ==
    FundingInv /\ PrintsInv /\ [FundingNext]_fundingVars
        => [ViewPrints \ (ViewPrints' \cup knownHoles) # {}
               => ranged' \/ job'.report = "gap" \/ SettledMovedAside]_fundingVars
<1> SUFFICES ASSUME FundingInv, PrintsInv, FundingNext, ~ ranged', job'.report # "gap",
                    ~ SettledMovedAside
             PROVE  ViewPrints \subseteq ViewPrints' \cup knownHoles
    BY DEF fundingVars
<1>1. CASE UNCHANGED <<listed, parquet>>
    BY <1>1 DEF ViewPrints
<1>2. CASE WriteMonth /\ listed
  <2>1. /\ listed' /\ ~ ranged /\ parquet # NoFile /\ parquet'.raw = JobRaw
        /\ Decide(JobSource, job.rebuild) = "write"
    BY <1>2 DEF WriteMonth, JobSource, PrintsInv, ListedStays, history
  <2>2. /\ JobRaw.end = WindowEnd /\ from = 0 /\ to = MonthDays
        /\ job.settled => settledRaw # NoFile /\ JobRaw = settledRaw
        /\ ~ job.settled => JobRaw = openRaw /\ settledRaw = NoFile
        /\ NoHoles <=> Slots(from, WindowEnd) \subseteq JobRaw.rows \cup knownHoles
    BY <1>2, <2>1, UsableFillsWindow DEF WriteMonth, FundingInv, FirstRange
  <2>3. Slots(from, WindowEnd) \subseteq JobRaw.rows \cup knownHoles
    BY <1>2, <2>2 DEF WriteMonth, Report, FundingInv, FundingTypeOK
  <2>4. /\ parquet \in Sources /\ parquet.raw.end \in Int /\ parquet.raw.end <= MonthDays
        /\ parquet.raw.rows \subseteq Slots(0, parquet.raw.end)
    BY <2>1, MonthBounds
    DEF FundingInv, FundingTypeOK, Sources, Raws, PrintsInv, RowsInWindow, FirstFile
  <2>5. WindowEnd \in Int
    BY MonthBounds DEF FundingInv, FundingTypeOK, WindowEnd
  <2>6. parquet.raw.end <= WindowEnd
    <3>1. CASE job.settled
        BY <2>1, <2>2, <2>4, <3>1 DEF FundingInv, FirstRange
    <3>2. CASE ~ job.settled /\ parquet.settled
      <4>1. ~ job.rebuild /\ ~ Provisional
        BY <2>2, <3>2 DEF SettledMovedAside
      <4>2. sidecar # NoFile /\ sidecar.source = JobSource /\ sidecar.source.settled
        BY <2>1, <4>1 DEF Decide, DecideOutput, Provisional
      <4> QED
        BY <3>2, <4>2 DEF JobSource
    <3>3. CASE ~ job.settled /\ ~ parquet.settled
        BY <2>1, <2>2, <3>3 DEF PrintsInv, FirstFile
    <3> QED
        BY <3>1, <3>2, <3>3 DEF FundingInv, FundingTypeOK
  <2>7. Slots(0, parquet.raw.end) \subseteq Slots(from, WindowEnd)
    BY <2>2, <2>4, <2>5, <2>6 DEF Slots
  <2> QED
    BY <2>1, <2>3, <2>4, <2>7 DEF ViewPrints
<1>3. CASE WriteMonth /\ ~ listed
    BY <1>3 DEF ViewPrints
<1>4. CASE RefreshView
    BY <1>4 DEF RefreshView, ViewPrints, PrintsInv, ListedStays, output, history
<1>5. CASE ChangeRange
    BY <1>5 DEF ChangeRange
<1>6. CASE \/ StartSync \/ NoMonth \/ SkipMonth \/ ReuseSettled \/ Fetch \/ KeepMonth
          \/ WriteSidecar \/ SyncDies \/ DayPasses \/ MoveAside \/ AcknowledgeHole
  <2>1. UNCHANGED <<listed, parquet>>
    BY <1>6 DEF StartSync, NoMonth, SkipMonth, ReuseSettled, Fetch, KeepMonth, WriteSidecar,
        SyncDies, DayPasses, MoveAside, AcknowledgeHole, output
  <2> QED
    BY <1>1, <2>1
<1> QED
    BY <1>2, <1>3, <1>4, <1>5, <1>6 DEF FundingNext, Sync, Operator

\* What the prints in the files are, over everything the syncs and the operator do.
THEOREM PrintsCorrect ==
    FundingSpec => []PrintsInv
BY InitPrints, StepPrints, FundingCorrect, PTL DEF FundingSpec

\* No print leaves the view of the first range but by an answer of the venue without
\* it, which is a gap, or after the settled raw file was moved aside.
\* (ahead_of_cutoff, _sync_hyperliquid, _decide, _write_parquet, funding_holes.)
THEOREM PrintsAlwaysStay ==
    FundingSpec => PrintsStayInView
BY FundingCorrect, PrintsCorrect, StepKeepsPrints, PTL DEF FundingSpec, PrintsStayInView

\* A sync through with the month without a gap leaves it whole up to its cutoff.
\* (funding_holes, _audit_parquet.)
THEOREM CleanAlwaysWhole ==
    FundingSpec => []CleanIsWhole
<1>1. PrintsInv => CleanIsWhole
    BY DEF PrintsInv, WholeOnceClean, CleanIsWhole
<1> QED
    BY <1>1, PrintsCorrect, PTL

-----------------------------------------------------------------------------
(* The followed books.  A frame that overlaps the book and does not end     *)
(* before it brings the book to its own last change (FrameContinuesBook);   *)
(* so it is enough that what is held back, released and on the way stays in *)
(* the order the collectors check, and that the last accepted number stands *)
(* for the change the record has reached.  OKX numbers change under the     *)
(* collector: there, nothing lost on the way is what makes the number mean  *)
(* the change.                                                              *)

(* What an update frame does to a book that is the venue's as of change at. *)
Follows(at, f) == f.first <= at + 1 /\ at <= f.final

(* The frames a venue sends: while it has not renumbered, their sequence    *)
(* numbers are those of the changes.                                        *)
Numbered(f) == f.seq = f.final /\ (IsSnapshot(f) \/ f.prev = f.first - 1)
Sent == {f \in Frames : /\ f.first >= 1 /\ f.first <= f.final + 1
                        /\ IsSnapshot(f) => venue = "okx"
                        /\ base = 0 => Numbered(f)}

(* The record describes the venue's book.                                   *)
Faithful == recorded.at \in Nat /\ recorded.book = Book(recorded.at)

(* The change the collector has followed the venue to.                      *)
At == IF released = <<>> THEN recorded.at ELSE released[Len(released)].final

\* Only OKX renumbers, and then it loses nothing.
OneOrTheOther ==
    /\ head \in Nat /\ base \in Nat /\ base <= head /\ faults \in Nat
    /\ faults = 0 \/ base = 0
    /\ venue # "okx" => base = 0

\* What a snapshot will be joined to.
HeldInOrder ==
    /\ held \in Seq(Sent)
    /\ venue \notin {"spot", "okx"} =>
         \A i \in DOMAIN held : i > 1 => held[i].first = held[i - 1].final + 1
    /\ venue = "spot" =>
         \A i \in DOMAIN held : i > 1 => held[i - 1].final <= held[i].final
    /\ venue = "okx" => acked /\ ~ asked

\* What was released continues the record, unless it begins anew with a snapshot.
ReleasedFollows ==
    /\ released \in Seq({f \in Frames : f.first >= 1})
    /\ \A i \in DOMAIN released :
         \/ IsSnapshot(released[i])
         \/ IF i = 1 THEN Faithful /\ Follows(recorded.at, released[1])
            ELSE Follows(released[i - 1].final, released[i])

\* The last accepted sequence number stands for the change followed to.
LastIsAt ==
    last # Missing =>
        /\ last \in Int
        /\ released = <<>> => Faithful
        /\ base = 0 => last = At

\* Without faults, OKX is followed without a gap, however it renumbers.
NothingLost ==
    venue = "okx" /\ faults = 0 /\ alive =>
        /\ last = Missing => wire # <<>> /\ IsSnapshot(wire[1])
        /\ last # Missing /\ wire # <<>> => wire[1].first = At + 1
        /\ \A i \in DOMAIN wire : i > 1 => wire[i].first = wire[i - 1].final + 1
        /\ head = IF wire = <<>> THEN At ELSE wire[Len(wire)].final

BooksInv ==
    /\ OneOrTheOther
    /\ wire \in Seq(Sent)
    /\ HeldInOrder
    /\ ReleasedFollows
    /\ LastIsAt
    /\ NothingLost
    /\ recorded # Missing => Faithful

-----------------------------------------------------------------------------
(* A set of natural numbers has a least one.                                *)
LEMMA LeastNumber ==
    ASSUME NEW T \in SUBSET Nat, T # {}
    PROVE  \E x \in T : \A y \in T : x <= y
<1> DEFINE R == OpToRel(<, Nat)
<1>1. IsWellFoundedOn(R, Nat)
    BY NatLessThanWellFounded
<1>2. \A x, y \in Nat : x < y => <<x, y>> \in R
    BY DEF OpToRel
<1> HIDE DEF R
<1>3. PICK x \in T : \A y \in T : ~(<<y, x>> \in R)
    BY <1>1, WFMin
<1>4. ASSUME NEW y \in T PROVE x <= y
  <2>1. x \in Nat /\ y \in Nat /\ ~(y < x)
    BY <1>2, <1>3
  <2> QED
    BY <2>1
<1> QED
    BY <1>4

(* So a level that changes in a .. b has a last change there.               *)
LEMMA LastChange ==
    ASSUME NEW l, NEW a \in Nat, NEW b \in Nat, NEW k \in a .. b, LevelOf[k] = l
    PROVE  \E p \in InForce(l, a, b) : p >= k
<1> DEFINE D == {d \in Nat : b - d \in a .. b /\ LevelOf[b - d] = l}
<1>1. b - k \in D
  <2>1. b - k \in Nat /\ b - (b - k) = k
    OBVIOUS
  <2> QED
    BY <2>1
<1>2. PICK d \in D : \A e \in D : d <= e
  <2>1. D \in SUBSET Nat /\ D # {}
    BY <1>1
  <2> HIDE DEF D
  <2> QED
    BY <2>1, LeastNumber
<1>3. d \in Nat /\ b - d \in a .. b /\ LevelOf[b - d] = l /\ d <= b - k
    BY <1>1, <1>2
<1>4. ASSUME NEW m \in (b - d) + 1 .. b PROVE LevelOf[m] # l
  <2>1. b - m \in Nat /\ b - (b - m) = m /\ m \in a .. b /\ ~(d <= b - m)
    BY <1>3
  <2>2. b - m \notin D
    BY <1>2, <2>1
  <2> QED
    BY <2>1, <2>2
<1>5. b - d \in InForce(l, a, b)
    BY <1>3, <1>4 DEF InForce
<1>6. b - d >= k
    BY <1>3
<1> QED
    BY <1>5, <1>6

(* A frame that overlaps the book, or begins right after it, and does not   *)
(* end before it, brings the book to the frame's last change.               *)
LEMMA FrameContinuesBook ==
    ASSUME NEW n \in Nat, NEW a \in Nat, NEW b \in Nat, a >= 1, a <= n + 1, n <= b
    PROVE  Overlay(Book(n), a, b) = Book(b)
<1>1. ASSUME NEW l \in Levels, InForce(l, a, b) = {}
      PROVE  InForce(l, 1, n) = InForce(l, 1, b)
  <2>1. \A k \in a .. b : LevelOf[k] # l
    BY <1>1, LastChange
  <2>2. ASSUME NEW k \in InForce(l, 1, n) PROVE k \in InForce(l, 1, b)
    <3>1. k \in 1 .. b /\ LevelOf[k] = l /\ \A m \in k + 1 .. n : LevelOf[m] # l
      BY DEF InForce
    <3>2. ASSUME NEW m \in k + 1 .. b PROVE LevelOf[m] # l
      <4>1. m \in k + 1 .. n \/ m \in a .. b
        BY <3>1
      <4> QED
        BY <2>1, <3>1, <4>1
    <3> QED
      BY <3>1, <3>2 DEF InForce
  <2>3. ASSUME NEW k \in InForce(l, 1, b) PROVE k \in InForce(l, 1, n)
    <3>1. k \in 1 .. b /\ LevelOf[k] = l /\ \A m \in k + 1 .. b : LevelOf[m] # l
      BY DEF InForce
    <3>2. k \in 1 .. n
      BY <2>1, <3>1
    <3>3. \A m \in k + 1 .. n : m \in k + 1 .. b
      BY <3>1
    <3> QED
      BY <3>1, <3>2, <3>3 DEF InForce
  <2> QED
    BY <2>2, <2>3
<1>2. ASSUME NEW l \in Levels, InForce(l, a, b) # {}
      PROVE  InForce(l, a, b) = InForce(l, 1, b)
  <2>1. PICK p \in InForce(l, a, b) : TRUE
    BY <1>2
  <2>2. p \in a .. b /\ LevelOf[p] = l
    BY DEF InForce
  <2>3. ASSUME NEW k \in InForce(l, 1, b) PROVE k \in InForce(l, a, b)
    <3>1. k \in 1 .. b /\ LevelOf[k] = l /\ \A m \in k + 1 .. b : LevelOf[m] # l
      BY DEF InForce
    <3>2. ~(p \in k + 1 .. b)
      BY <2>2, <3>1
    <3>3. k \in a .. b
      BY <2>2, <3>1, <3>2
    <3> QED
      BY <3>1, <3>3 DEF InForce
  <2>4. ASSUME NEW k \in InForce(l, a, b) PROVE k \in InForce(l, 1, b)
    <3>1. k \in a .. b /\ k \in 1 .. b
      BY DEF InForce
    <3> QED
      BY <3>1 DEF InForce
  <2> QED
    BY <2>3, <2>4
<1>3. \A l \in Levels : Book(n)[l] = InForce(l, 1, n)
    BY DEF Book
<1>4. \A l \in Levels :
        (IF InForce(l, a, b) = {} THEN Book(n)[l] ELSE InForce(l, a, b)) = InForce(l, 1, b)
    BY <1>1, <1>2, <1>3
<1> HIDE DEF InForce
<1> QED
    BY <1>4 DEF Overlay, Book

-----------------------------------------------------------------------------
(* The steps of the venue and of the way from it.                           *)

(* A snapshot as it is sent.                                                *)
LEMMA SnapshotSent ==
    ASSUME NEW n \in Nat, NEW m \in Int
    PROVE  /\ Snapshot(n, m) \in Frames /\ IsSnapshot(Snapshot(n, m))
           /\ Snapshot(n, m).first = 1 /\ Snapshot(n, m).final = n /\ Snapshot(n, m).seq = m
BY DEF Snapshot, Frames, IsSnapshot, NoPrevious

(* At the start nothing was received.                                       *)
LEMMA BooksStart ==
    ASSUME BooksInit
    PROVE  BooksInv
<1>1. Snapshot(0, 0) \in Frames /\ IsSnapshot(Snapshot(0, 0))
      /\ Snapshot(0, 0).first = 1 /\ Snapshot(0, 0).final = 0 /\ Snapshot(0, 0).seq = 0
    BY SnapshotSent
<1>2. OneOrTheOther
    BY DEF BooksInit, OneOrTheOther
<1>3. wire \in Seq(Sent)
  <2>1. CASE venue = "okx"
    <3>1. Snapshot(0, 0) \in Sent /\ wire = <<Snapshot(0, 0)>>
      BY <1>1, <2>1 DEF BooksInit, Sent, Numbered
    <3> QED
      BY <3>1
  <2>2. CASE venue # "okx"
    BY <2>2 DEF BooksInit
  <2> QED
    BY <2>1, <2>2
<1>4. HeldInOrder
  <2>1. held = <<>> /\ held \in Seq(Sent) /\ DOMAIN held = {}
    BY DEF BooksInit
  <2>2. venue = "okx" => acked /\ ~ asked
    BY Zenon DEF BooksInit
  <2> QED
    BY <2>1, <2>2 DEF HeldInOrder
<1>5. ReleasedFollows
    BY DEF BooksInit, ReleasedFollows
<1>6. LastIsAt
    BY DEF BooksInit, LastIsAt
<1>7. NothingLost
    BY <1>1 DEF BooksInit, NothingLost
<1> QED
    BY <1>2, <1>3, <1>4, <1>5, <1>6, <1>7 DEF BooksInit, BooksInv

(* A step that leaves the collector alone leaves what it recorded alone.    *)
LEMMA CollectorRests ==
    ASSUME BooksInv, UNCHANGED <<venue, acked, asked, last, released, recorded>>,
           OneOrTheOther', base = 0 \/ base' # 0, UNCHANGED held
    PROVE  HeldInOrder' /\ ReleasedFollows' /\ LastIsAt' /\ (recorded # Missing => Faithful)' /\ At' = At
<1>1. At' = At
    BY DEF At
<1>2. Sent \subseteq Sent'
    BY DEF Sent, Numbered, IsSnapshot
<1>3. HeldInOrder'
  <2>1. held \in Seq(Sent')
    BY <1>2 DEF BooksInv, HeldInOrder
  <2> QED
    BY <2>1 DEF BooksInv, HeldInOrder
<1>4. ReleasedFollows'
    BY DEF BooksInv, ReleasedFollows, Faithful
<1>5. LastIsAt'
    BY <1>1 DEF BooksInv, LastIsAt, Faithful
<1> QED
    BY <1>1, <1>3, <1>4, <1>5 DEF BooksInv, Faithful

(* The venue sends a frame, renumbered or not.                              *)
LEMMA PublishSafe ==
    ASSUME BooksInv, Publish
    PROVE  BooksInv'
<1>1. PICK k \in Nat, renumbered \in {base, head} :
        /\ renumbered # base => venue = "okx" /\ faults = 0 /\ base = 0 /\ 0 < k /\ k < head
        /\ head' = head + k /\ base' = renumbered
        /\ wire' = Append(wire, [first |-> head + 1, final |-> head + k,
                                 prev |-> head - base, seq |-> head + k - renumbered])
    BY DEF Publish, Spans
<1>2. UNCHANGED <<venue, faults, acked, requests, asked, held, last, released, recorded, alive>>
    BY DEF Publish
<1>3. /\ head \in Nat /\ base \in Nat /\ base <= head /\ faults \in Nat
      /\ faults = 0 \/ base = 0
      /\ venue # "okx" => base = 0
      /\ wire \in Seq(Sent)
    BY DEF BooksInv, OneOrTheOther
<1>4. OneOrTheOther'
    BY <1>1, <1>2, <1>3 DEF BooksInv, OneOrTheOther
<1> DEFINE f == [first |-> head + 1, final |-> head + k,
                 prev |-> head - base, seq |-> head + k - renumbered]
<1>5. /\ f \in Frames /\ f.first = head + 1 /\ f.final = head + k /\ ~ IsSnapshot(f)
      /\ f.prev = head - base /\ f.seq = head + k - renumbered
    BY <1>1, <1>3 DEF Frames, IsSnapshot, NoPrevious
<1>6. base = 0 \/ base' # 0
    BY <1>1, <1>3
<1>7. f \in Sent'
  <2> HIDE DEF f
  <2>1. base' = 0 => base = 0 /\ renumbered = 0
    BY <1>1, <1>6
  <2>2. f.first >= 1 /\ f.first <= f.final + 1
    BY ONLY <1>1, <1>3, <1>5
  <2>3. base' = 0 => f.seq = f.final /\ f.prev = f.first - 1
    BY ONLY <1>1, <1>3, <1>5, <2>1
  <2> QED
    BY ONLY <1>5, <2>2, <2>3 DEF Sent, Numbered, IsSnapshot
<1>8. wire' = Append(wire, f)
    BY <1>1
<1> HIDE DEF f
<1>9. wire' \in Seq(Sent')
  <2>1. Sent \subseteq Sent'
    BY <1>2, <1>6 DEF Sent, Numbered, IsSnapshot
  <2>2. wire \in Seq(Sent')
    BY <1>3, <2>1
  <2> QED
    BY <1>7, <1>8, <2>2
<1>10. HeldInOrder' /\ ReleasedFollows' /\ LastIsAt' /\ (recorded # Missing => Faithful)' /\ At' = At
    BY <1>2, <1>4, <1>6, CollectorRests
<1>11. NothingLost'
  <2>1. SUFFICES ASSUME venue = "okx", faults = 0, alive
                 PROVE  /\ last = Missing => wire' # <<>> /\ IsSnapshot(wire'[1])
                        /\ last # Missing /\ wire' # <<>> => wire'[1].first = At + 1
                        /\ \A i \in DOMAIN wire' : i > 1 => wire'[i].first = wire'[i - 1].final + 1
                        /\ head' = IF wire' = <<>> THEN At ELSE wire'[Len(wire')].final
    BY <1>2, <1>10 DEF NothingLost, IsSnapshot
  <2>2. /\ last = Missing => wire # <<>> /\ IsSnapshot(wire[1])
        /\ last # Missing /\ wire # <<>> => wire[1].first = At + 1
        /\ \A i \in DOMAIN wire : i > 1 => wire[i].first = wire[i - 1].final + 1
        /\ head = IF wire = <<>> THEN At ELSE wire[Len(wire)].final
    BY <2>1 DEF BooksInv, NothingLost
  <2>3. /\ Len(wire) \in Nat /\ Len(wire') = Len(wire) + 1 /\ wire'[Len(wire) + 1] = f
        /\ \A i \in DOMAIN wire : wire'[i] = wire[i]
        /\ DOMAIN wire' = 1 .. Len(wire) + 1 /\ DOMAIN wire = 1 .. Len(wire)
        /\ wire # <<>> <=> Len(wire) > 0
        /\ wire' # <<>>
    BY <1>3, <1>8
  <2>4. CASE wire = <<>>
    <3>1. last # Missing /\ head = At /\ Len(wire) = 0
      BY <2>2, <2>3, <2>4
    <3> QED
      BY <1>1, <1>5, <2>3, <3>1
  <2>5. CASE wire # <<>>
    <3>1. Len(wire) > 0 /\ 1 \in DOMAIN wire /\ Len(wire) \in DOMAIN wire /\ wire'[1] = wire[1]
          /\ wire'[Len(wire)].final = head
      BY <2>2, <2>3, <2>5
    <3>2. ASSUME NEW i \in DOMAIN wire', i > 1 PROVE wire'[i].first = wire'[i - 1].final + 1
      <4>1. CASE i = Len(wire) + 1
        BY <1>5, <2>3, <3>1, <4>1
      <4>2. CASE i # Len(wire) + 1
        <5>1. i \in DOMAIN wire /\ i - 1 \in DOMAIN wire
          BY <2>3, <3>2, <4>2
        <5> QED
          BY <2>2, <2>3, <3>2, <5>1
      <4> QED
        BY <4>1, <4>2
    <3> QED
      BY <1>1, <1>5, <2>2, <2>3, <2>5, <3>1, <3>2
  <2> QED
    BY <2>4, <2>5
<1> QED
    BY <1>4, <1>9, <1>10, <1>11 DEF BooksInv

(* Frames are lost, repeated and swapped, but they are the venue's.         *)
LEMMA DisturbSafe ==
    ASSUME BooksInv, Disturb
    PROVE  BooksInv'
<1>1. /\ base = 0 /\ faults' = faults + 1
      /\ UNCHANGED <<venue, head, base, acked, requests, asked, held, last, released, recorded, alive>>
    BY DEF Disturb
<1>2. OneOrTheOther' /\ faults' # 0
    BY <1>1 DEF BooksInv, OneOrTheOther
<1>3. wire' \in Seq(Sent')
  <2>1. Sent' = Sent
    BY <1>1 DEF Sent, Numbered, IsSnapshot
  <2>2. PICK i \in DOMAIN wire : \/ wire' = Lost(wire, i)
                                 \/ wire' = Repeated(wire, i)
                                 \/ i < Len(wire) /\ wire' = Swapped(wire, i)
    BY DEF Disturb
  <2>3. wire \in Seq(Sent) /\ i \in 1 .. Len(wire) /\ Len(wire) \in Nat
    BY DEF BooksInv
  <2>4. Lost(wire, i) \in Seq(Sent)
    <3>1. SubSeq(wire, 1, i - 1) \in Seq(Sent) /\ SubSeq(wire, i + 1, Len(wire)) \in Seq(Sent)
      BY <2>3
    <3> QED
      BY <3>1, ConcatProperties DEF Lost
  <2>5. Repeated(wire, i) \in Seq(Sent)
    <3>1. SubSeq(wire, 1, i) \in Seq(Sent) /\ SubSeq(wire, i, Len(wire)) \in Seq(Sent)
      BY <2>3
    <3> QED
      BY <3>1, ConcatProperties DEF Repeated
  <2>6. i < Len(wire) => Swapped(wire, i) \in Seq(Sent)
    <3>1. SUFFICES ASSUME i < Len(wire) PROVE Swapped(wire, i) \in Seq(Sent)
      OBVIOUS
    <3>2. wire[i] \in Sent /\ wire[i + 1] \in Sent /\ i + 1 \in 1 .. Len(wire)
      BY <2>3, <3>1
    <3> QED
      BY <2>3, <3>2 DEF Swapped
  <2> QED
    BY <2>1, <2>2, <2>4, <2>5, <2>6
<1>4. HeldInOrder' /\ ReleasedFollows' /\ LastIsAt' /\ (recorded # Missing => Faithful)' /\ At' = At
    BY <1>1, <1>2, CollectorRests
<1>5. NothingLost'
    BY <1>2 DEF NothingLost
<1> QED
    BY <1>2, <1>3, <1>4, <1>5 DEF BooksInv

-----------------------------------------------------------------------------
(* The steps of the collector.                                              *)

(* The venue stands still.                                                  *)
LEMMA VenueRests ==
    ASSUME BooksInv, UNCHANGED venueSide
    PROVE  OneOrTheOther' /\ Sent' = Sent /\ UNCHANGED <<venue, head, base, faults>>
BY DEF BooksInv, OneOrTheOther, venueSide, Sent, Numbered, IsSnapshot

(* An integrity error ends the capture; what was released before it is      *)
(* recorded.                                                                *)
LEMMA RefusedSafe ==
    ASSUME BooksInv, Refused, wire' \in Seq(Sent), UNCHANGED <<venueSide, recorded>>
    PROVE  BooksInv'
<1>1. OneOrTheOther' /\ Sent' = Sent /\ UNCHANGED <<venue, head, base, faults>>
    BY VenueRests
<1>2. /\ alive' = FALSE /\ held' = <<>> /\ last' = Missing
      /\ UNCHANGED <<released, acked, asked, recorded>>
    BY DEF Refused, bootstrap
<1>3. HeldInOrder'
    BY <1>1, <1>2 DEF BooksInv, HeldInOrder
<1>4. ReleasedFollows'
    BY <1>2 DEF BooksInv, ReleasedFollows, Faithful
<1>5. LastIsAt' /\ NothingLost'
    BY <1>2 DEF LastIsAt, NothingLost
<1> QED
    BY <1>1, <1>2, <1>3, <1>4, <1>5 DEF BooksInv, Faithful

(* What is left of the frames on the way once one is taken.                 *)
LEMMA FrameTaken ==
    ASSUME BooksInv, wire # <<>>
    PROVE  /\ Head(wire) = wire[1] /\ Head(wire) \in Sent /\ Tail(wire) \in Seq(Sent)
           /\ Len(wire) \in Nat /\ Len(wire) >= 1 /\ Len(Tail(wire)) = Len(wire) - 1
           /\ \A i \in DOMAIN Tail(wire) : Tail(wire)[i] = wire[i + 1] /\ i + 1 \in DOMAIN wire
           /\ Tail(wire) = <<>> <=> Len(wire) = 1
<1>1. wire \in Seq(Sent) /\ Len(wire) \in Nat /\ Len(wire) >= 1 /\ DOMAIN wire = 1 .. Len(wire)
    BY DEF BooksInv
<1>2. Tail(wire) \in Seq(Sent) /\ Len(Tail(wire)) = Len(wire) - 1
    BY <1>1
<1>3. Head(wire) = wire[1] /\ 1 \in DOMAIN wire
    BY <1>1
<1>4. \A i \in DOMAIN Tail(wire) : Tail(wire)[i] = wire[i + 1] /\ i + 1 \in DOMAIN wire
    BY <1>1, <1>2
<1>5. Tail(wire) = <<>> <=> Len(wire) = 1
    BY <1>1, <1>2
<1>6. Head(wire) \in Sent
    BY <1>1, <1>3
<1> QED
    BY <1>1, <1>2, <1>3, <1>4, <1>5, <1>6

(* A frame is accepted that begins the record anew or continues it.         *)
LEMMA AcceptedSafe ==
    ASSUME BooksInv, released = <<>>, alive, wire # <<>>, wire' = Tail(wire),
           Accepted(Head(wire)), UNCHANGED <<venueSide, recorded>>,
           IsSnapshot(Head(wire)) \/ (Faithful /\ Follows(recorded.at, Head(wire)))
    PROVE  BooksInv'
<1> DEFINE f == Head(wire)
<1>1. OneOrTheOther' /\ Sent' = Sent /\ UNCHANGED <<venue, head, base, faults>>
    BY VenueRests
<1>2. /\ last' = f.seq /\ released' = <<f>>
      /\ UNCHANGED <<held, alive, acked, asked, recorded>>
    BY DEF Accepted, bootstrap
<1>3. /\ f = wire[1] /\ f \in Sent /\ wire' \in Seq(Sent)
      /\ f \in Frames /\ f.first >= 1 /\ f.seq \in Int /\ f.final \in Nat
      /\ base = 0 => f.seq = f.final
  <2>1. f = wire[1] /\ f \in Sent /\ wire' \in Seq(Sent)
    BY FrameTaken
  <2> HIDE DEF f
  <2> QED
    BY <2>1 DEF Sent, Frames, Numbered
<1> HIDE DEF f
<1>4. HeldInOrder'
    BY <1>1, <1>2 DEF BooksInv, HeldInOrder
<1>5. released'[1] = f /\ DOMAIN released' = {1} /\ Len(released') = 1 /\ released' # <<>>
    BY <1>2
<1>6. ReleasedFollows'
  <2>1. released' \in Seq({g \in Frames : g.first >= 1})
    BY <1>2, <1>3
  <2>2. IsSnapshot(f) \/ (Faithful' /\ Follows(recorded'.at, f))
    BY <1>2 DEF Faithful, f
  <2> QED
    BY <1>5, <2>1, <2>2 DEF ReleasedFollows, IsSnapshot
<1>7. At' = f.final
    BY <1>5 DEF At
<1>8. LastIsAt'
    BY <1>1, <1>2, <1>3, <1>5, <1>7 DEF LastIsAt
<1>9. NothingLost'
  <2>1. SUFFICES ASSUME venue = "okx", faults = 0
                 PROVE  /\ last' # Missing
                        /\ wire' # <<>> => wire'[1].first = f.final + 1
                        /\ \A i \in DOMAIN wire' : i > 1 => wire'[i].first = wire'[i - 1].final + 1
                        /\ head = IF wire' = <<>> THEN f.final ELSE wire'[Len(wire')].final
    BY <1>1, <1>7 DEF NothingLost
  <2>2. /\ \A i \in DOMAIN wire : i > 1 => wire[i].first = wire[i - 1].final + 1
        /\ head = wire[Len(wire)].final
    BY <2>1 DEF BooksInv, NothingLost
  <2>3. /\ Len(wire) \in Nat /\ Len(wire) >= 1 /\ Len(wire') = Len(wire) - 1
        /\ \A i \in DOMAIN wire' : wire'[i] = wire[i + 1] /\ i + 1 \in DOMAIN wire
        /\ wire' = <<>> <=> Len(wire) = 1
        /\ DOMAIN wire' = 1 .. Len(wire')
    BY <1>3, FrameTaken
  <2>4. last' # Missing
    BY <1>2, <1>3, MissingAssumption
  <2>5. wire' # <<>> => wire'[1].first = f.final + 1
    <3>1. SUFFICES ASSUME wire' # <<>> PROVE wire'[1].first = f.final + 1
      OBVIOUS
    <3>2. 1 \in DOMAIN wire' /\ wire'[1] = wire[2] /\ 2 \in DOMAIN wire
      BY <2>3, <3>1
    <3> QED
      BY <1>3, <2>2, <3>2
  <2>6. ASSUME NEW i \in DOMAIN wire', i > 1 PROVE wire'[i].first = wire'[i - 1].final + 1
    <3>1. i - 1 \in DOMAIN wire' /\ (i - 1) + 1 = i /\ i \in Nat /\ i + 1 > 1 /\ (i + 1) - 1 = i
      BY <2>3, <2>6
    <3>2. wire'[i] = wire[i + 1] /\ wire'[i - 1] = wire[i] /\ i + 1 \in DOMAIN wire
      BY <2>3, <3>1
    <3> QED
      BY <2>2, <3>1, <3>2
  <2>7. head = IF wire' = <<>> THEN f.final ELSE wire'[Len(wire')].final
    <3>1. CASE wire' = <<>>
      BY <1>3, <2>2, <2>3, <3>1
    <3>2. CASE wire' # <<>>
      <4>1. Len(wire') \in DOMAIN wire' /\ Len(wire') + 1 = Len(wire)
        BY <2>3, <3>2
      <4> QED
        BY <2>2, <2>3, <3>2, <4>1
    <3> QED
      BY <3>1, <3>2
  <2> QED
    BY <2>4, <2>5, <2>6, <2>7
<1> QED
    BY <1>1, <1>2, <1>3, <1>4, <1>6, <1>8, <1>9 DEF BooksInv, Faithful

(* A frame that Spot ignores.                                               *)
LEMMA IgnoredSafe ==
    ASSUME BooksInv, Ignored, venue # "okx", wire' \in Seq(Sent),
           UNCHANGED <<venueSide, recorded>>
    PROVE  BooksInv'
<1>1. OneOrTheOther' /\ Sent' = Sent /\ UNCHANGED <<venue, head, base, faults>>
    BY VenueRests
<1>2. UNCHANGED <<held, last, released, recorded, acked, asked>>
    BY DEF Ignored, bootstrap
<1>3. HeldInOrder' /\ ReleasedFollows' /\ LastIsAt' /\ (recorded # Missing => Faithful)'
    BY <1>1, <1>2, CollectorRests DEF BooksInv, OneOrTheOther
<1>4. NothingLost'
    BY <1>1 DEF NothingLost
<1> QED
    BY <1>1, <1>3, <1>4 DEF BooksInv

(* A frame is held back behind those it follows.                            *)
LEMMA HeldBackSafe ==
    ASSUME BooksInv, NEW f \in Sent, HeldBack(f), venue # "okx", wire' \in Seq(Sent),
           UNCHANGED <<venueSide, recorded>>,
           venue \notin {"spot", "okx"} /\ held # <<>> => f.first = held[Len(held)].final + 1,
           venue = "spot" /\ held # <<>> => held[Len(held)].final <= f.final
    PROVE  BooksInv'
<1>1. OneOrTheOther' /\ Sent' = Sent /\ UNCHANGED <<venue, head, base, faults>>
    BY VenueRests
<1>2. CASE Len(held) >= MaxBuffered
    BY <1>2, RefusedSafe DEF HeldBack
<1>3. CASE ~(Len(held) >= MaxBuffered)
  <2>1. held' = Append(held, f) /\ UNCHANGED <<acked, last, released, alive, recorded>>
    BY <1>3 DEF HeldBack
  <2>2. /\ held \in Seq(Sent) /\ Len(held) \in Nat /\ held' \in Seq(Sent)
        /\ DOMAIN held = 1 .. Len(held) /\ DOMAIN held' = 1 .. Len(held) + 1
        /\ \A i \in DOMAIN held : held'[i] = held[i]
        /\ held'[Len(held) + 1] = f
        /\ held # <<>> <=> Len(held) > 0
    BY <2>1 DEF BooksInv, HeldInOrder
  <2>3. HeldInOrder'
    <3>1. ASSUME NEW i \in DOMAIN held', i > 1
          PROVE  /\ i - 1 \in DOMAIN held /\ held'[i - 1] = held[i - 1]
                 /\ \/ i \in DOMAIN held /\ held'[i] = held[i]
                    \/ i - 1 = Len(held) /\ held'[i] = f /\ held # <<>>
      <4>1. i - 1 \in DOMAIN held
        BY <2>2, <3>1
      <4>2. i \in DOMAIN held \/ i = Len(held) + 1
        BY <2>2, <3>1
      <4> QED
        BY <2>2, <4>1, <4>2
    <3>2. venue \notin {"spot", "okx"} =>
            \A i \in DOMAIN held' : i > 1 => held'[i].first = held'[i - 1].final + 1
      BY <3>1 DEF BooksInv, HeldInOrder
    <3>3. venue = "spot" =>
            \A i \in DOMAIN held' : i > 1 => held'[i - 1].final <= held'[i].final
      BY <3>1 DEF BooksInv, HeldInOrder
    <3> QED
      BY <1>1, <2>2, <3>2, <3>3 DEF HeldInOrder
  <2>4. ReleasedFollows' /\ LastIsAt'
    BY <1>1, <2>1 DEF BooksInv, ReleasedFollows, LastIsAt, Faithful, At
  <2>5. NothingLost'
    BY <1>1 DEF NothingLost
  <2> QED
    BY <1>1, <2>1, <2>3, <2>4, <2>5 DEF BooksInv, Faithful
<1> QED
    BY <1>2, <1>3

(* One frame is handled: refused, ignored, held back or accepted.           *)
LEMMA ReceiveSafe ==
    ASSUME BooksInv, Receive
    PROVE  BooksInv'
<1> DEFINE f == Head(wire)
<1>1. /\ alive /\ released = <<>> /\ wire # <<>> /\ wire' = Tail(wire)
      /\ UNCHANGED <<venueSide, recorded>>
    BY DEF Receive
<1>2. /\ f \in Sent /\ wire' \in Seq(Sent) /\ f = wire[1]
    BY <1>1, FrameTaken
<1> HIDE DEF f
<1>3. /\ f.first \in Nat /\ f.final \in Nat /\ f.first <= f.final + 1
      /\ base = 0 => f.seq = f.final /\ (IsSnapshot(f) \/ f.prev = f.first - 1)
    BY <1>2 DEF Sent, Frames, Numbered
<1>4. last # Missing => /\ Faithful /\ recorded.at \in Nat
                        /\ base = 0 => last = recorded.at
    BY <1>1 DEF BooksInv, LastIsAt, Faithful, At
<1>5. CASE venue = "spot" /\ SpotUpdate(f)
  <2>1. base = 0
    BY <1>5 DEF BooksInv, OneOrTheOther
  <2>2. CASE last = Missing /\ SpotHeld(f)
    <3>1. CASE Refused
      BY <1>1, <1>2, <3>1, RefusedSafe
    <3>2. CASE Ignored
      BY <1>1, <1>2, <1>5, <3>2, IgnoredSafe
    <3>3. CASE HeldBack(f) /\ ~(held # <<>> /\ f.final < held[Len(held)].final)
      <4>1. held # <<>> => held[Len(held)].final \in Nat
        <5>1. held # <<>> => held[Len(held)] \in Sent
          BY DEF BooksInv, HeldInOrder
        <5> QED
          BY <5>1 DEF Sent, Frames
      <4>2. held # <<>> => held[Len(held)].final <= f.final
        BY <1>3, <3>3, <4>1
      <4> QED
        BY <1>1, <1>2, <1>5, <3>3, <4>2, HeldBackSafe
    <3> QED
      BY <2>2, <3>1, <3>2, <3>3 DEF SpotHeld
  <2>3. CASE last # Missing /\ f.final < last /\ Ignored
    BY <1>1, <1>2, <1>5, <2>3, IgnoredSafe
  <2>4. CASE last # Missing /\ f.first > last + 1 /\ Refused
    BY <1>1, <1>2, <2>4, RefusedSafe
  <2>5. CASE last # Missing /\ ~(f.final < last) /\ ~(f.first > last + 1) /\ Accepted(f)
    <3>1. Faithful /\ recorded.at \in Nat /\ last = recorded.at
      BY <1>4, <2>1, <2>5
    <3>2. Follows(recorded.at, f)
      BY <1>3, <2>5, <3>1 DEF Follows
    <3> QED
      BY <1>1, <2>5, <3>1, <3>2, AcceptedSafe DEF f
  <2> QED
    BY <1>5, <2>2, <2>3, <2>4, <2>5 DEF SpotUpdate
<1>6. CASE venue = "okx" /\ OkxFrame(f)
  <2>1. CASE Refused
    BY <1>1, <1>2, <2>1, RefusedSafe
  <2>2. CASE Accepted(f) /\ IsSnapshot(f)
    BY <1>1, <2>2, AcceptedSafe DEF f
  <2>3. CASE Accepted(f) /\ ~ IsSnapshot(f) /\ last # Missing /\ f.prev = last
    <3>1. Faithful /\ recorded.at \in Nat
      BY <1>4, <2>3
    <3>2. CASE base = 0
      <4>1. f.prev = f.first - 1 /\ last = recorded.at
        BY <1>3, <1>4, <2>3, <3>2
      <4>2. recorded.at = f.first - 1
        BY <2>3, <4>1
      <4>3. Follows(recorded.at, f)
        BY <1>3, <3>1, <4>2 DEF Follows
      <4> QED
        BY <1>1, <2>3, <3>1, <4>3, AcceptedSafe DEF f
    <3>3. CASE base # 0
      <4>1. f.first = recorded.at + 1
        BY <1>1, <1>2, <1>6, <2>3, <3>3 DEF BooksInv, OneOrTheOther, NothingLost, At
      <4>2. Follows(recorded.at, f)
        BY <1>3, <3>1, <4>1 DEF Follows
      <4> QED
        BY <1>1, <2>3, <3>1, <4>2, AcceptedSafe DEF f
    <3> QED
      BY <3>2, <3>3
  <2> QED
    BY <1>6, <2>1, <2>2, <2>3 DEF OkxFrame
<1>7. CASE venue \notin {"spot", "okx"} /\ BitvavoUpdate(f)
  <2>1. base = 0 /\ venue # "okx" /\ venue # "spot"
    BY <1>7 DEF BooksInv, OneOrTheOther
  <2>2. CASE Refused
    BY <1>1, <1>2, <2>2, RefusedSafe
  <2>3. CASE last # Missing /\ f.first = last + 1 /\ Accepted(f)
    <3>1. Faithful /\ recorded.at \in Nat /\ last = recorded.at
      BY <1>4, <2>1, <2>3
    <3>2. Follows(recorded.at, f)
      BY <1>3, <2>3, <3>1 DEF Follows
    <3> QED
      BY <1>1, <2>3, <3>1, <3>2, AcceptedSafe DEF f
  <2>4. CASE last = Missing /\ HeldBack(f) /\ (held # <<>> => f.first = held[Len(held)].final + 1)
    BY <1>1, <1>2, <2>1, <2>4, HeldBackSafe
  <2>5. held # <<>> => held[Len(held)].final # Missing
    <3>1. held # <<>> => held[Len(held)] \in Sent
      BY DEF BooksInv, HeldInOrder
    <3> QED
      BY <3>1, MissingAssumption DEF Sent, Frames
  <2> QED
    BY <1>7, <2>2, <2>3, <2>4, <2>5 DEF BitvavoUpdate, Predecessor
<1>8. \/ venue = "spot" /\ SpotUpdate(f)
      \/ venue = "okx" /\ OkxFrame(f)
      \/ venue # "spot" /\ venue # "okx" /\ BitvavoUpdate(f)
    BY DEF Receive, f
<1> QED
    BY <1>5, <1>6, <1>7, <1>8

(* Nothing but the requests for a snapshot changes.                         *)
LEMMA RequestSafe ==
    ASSUME BooksInv, venue # "okx",
           UNCHANGED <<venueSide, wire, held, last, released, recorded, alive>>
    PROVE  BooksInv'
<1>1. OneOrTheOther' /\ Sent' = Sent /\ UNCHANGED <<venue, head, base, faults>>
    BY VenueRests
<1>2. HeldInOrder'
    BY <1>1 DEF BooksInv, HeldInOrder
<1>3. ReleasedFollows' /\ LastIsAt'
    BY <1>1 DEF BooksInv, ReleasedFollows, LastIsAt, Faithful, At
<1>4. NothingLost'
    BY <1>1 DEF NothingLost
<1> QED
    BY <1>1, <1>2, <1>3, <1>4 DEF BooksInv, Faithful

(* The updates held back after place k are those a snapshot is joined to.   *)
LEMMA NewerFollow ==
    ASSUME BooksInv, venue # "okx", NEW at \in Nat, NEW k \in 0 .. Len(held), NewerAfter(k, at),
           NEW newer, newer = SubSeq(held, k + 1, Len(held)), Joins(at, newer)
    PROVE  /\ newer \in Seq(Sent)
           /\ \A i \in DOMAIN newer :
                Follows(IF i = 1 THEN at ELSE newer[i - 1].final, newer[i])
<1>1. /\ held \in Seq(Sent) /\ Len(held) \in Nat /\ k \in Nat /\ k <= Len(held)
      /\ DOMAIN held = 1 .. Len(held)
    BY DEF BooksInv, HeldInOrder
<1>2. /\ newer \in Seq(Sent) /\ Len(newer) = Len(held) - k
      /\ \A i \in 1 .. Len(held) - k : newer[i] = held[k + i]
      /\ DOMAIN newer = 1 .. Len(held) - k
  <2> DEFINE part == SubSeq(held, k + 1, Len(held))
  <2>1. /\ part \in Seq(Sent)
        /\ Len(part) = IF k + 1 <= Len(held) THEN Len(held) - (k + 1) + 1 ELSE 0
        /\ \A i \in 1 .. Len(held) - (k + 1) + 1 : part[i] = held[k + 1 + i - 1]
    <3>1. k + 1 \in Int /\ Len(held) \in Int /\ \A i \in k + 1 .. Len(held) : held[i] \in Sent
      BY <1>1
    <3> QED
      BY ONLY <3>1, SubSeqProperties
  <2>2. part = newer
    OBVIOUS
  <2> HIDE DEF part
  <2>3. Len(part) = Len(held) - k /\ Len(held) - (k + 1) + 1 = Len(held) - k
    <3>1. PICK m \in Nat : m = Len(held)
      BY ONLY <1>1
    <3>2. k \in Nat /\ k <= m
      BY ONLY <1>1, <3>1
    <3>3. m - (k + 1) + 1 = m - k
      BY ONLY <3>1, <3>2
    <3>4. CASE k + 1 <= m
      <4>1. Len(part) = m - (k + 1) + 1
        BY ONLY <2>1, <3>1, <3>4
      <4> QED
        BY ONLY <3>1, <3>3, <4>1
    <3>5. CASE ~(k + 1 <= m)
      <4>1. Len(part) = 0
        BY ONLY <2>1, <3>1, <3>5
      <4>2. m - k = 0
        BY ONLY <3>1, <3>2, <3>5
      <4> QED
        BY ONLY <3>1, <3>3, <4>1, <4>2
    <3> QED
      BY ONLY <3>4, <3>5
  <2>4. DOMAIN part = 1 .. Len(held) - k
    BY ONLY <2>1, <2>3
  <2>5. ASSUME NEW i \in 1 .. Len(held) - k PROVE part[i] = held[k + i]
    <3>1. k + 1 + i - 1 = k + i
      BY ONLY <1>1, <2>5
    <3> QED
      BY <2>1, <2>3, <3>1
  <2> QED
    BY <2>1, <2>2, <2>3, <2>4, <2>5
<1>3. ASSUME NEW i \in DOMAIN newer
      PROVE  /\ newer[i].first \in Nat /\ newer[i].final \in Nat
             /\ newer[i].first <= newer[i].final + 1 /\ newer[i].final > at
  <2>1. newer[i] \in Sent /\ newer[i] = held[k + i] /\ k + i \in DOMAIN held /\ k + i > k
    <3>1. newer[i] \in Sent
      BY ONLY <1>2, <1>3
    <3>2. i \in 1 .. Len(held) - k
      BY ONLY <1>2, <1>3
    <3>3. newer[i] = held[k + i]
      BY ONLY <1>2, <3>2
    <3>4. k + i \in 1 .. Len(held) /\ k + i > k
      BY ONLY <1>1, <3>2
    <3> QED
      BY ONLY <1>1, <3>1, <3>3, <3>4
  <2>2. newer[i].final > at
    <3>1. \A j \in DOMAIN held : j > k => held[j].final > at
      BY DEF NewerAfter
    <3> QED
      BY ONLY <2>1, <3>1
  <2> QED
    BY <2>1, <2>2 DEF Sent, Frames
<1>4. ASSUME NEW i \in DOMAIN newer, i > 1
      PROVE  /\ i - 1 \in DOMAIN newer
             /\ venue \notin {"spot", "okx"} => newer[i].first = newer[i - 1].final + 1
             /\ venue = "spot" => newer[i - 1].final <= newer[i].final
  <2>1. i - 1 \in DOMAIN newer
    BY <1>2, <1>4
  <2>2. PICK j \in DOMAIN held : j = k + i /\ j > 1 /\ newer[i] = held[j] /\ newer[i - 1] = held[j - 1]
    <3>0. i \in 1 .. Len(held) - k
      BY <1>2
    <3>1. k + i \in DOMAIN held /\ k + i > 1 /\ k + (i - 1) = (k + i) - 1
      BY <1>1, <1>4, <3>0
    <3>2. newer[i] = held[k + i] /\ newer[i - 1] = held[k + (i - 1)]
      BY <1>2, <2>1
    <3> QED
      BY <3>1, <3>2
  <2>3. /\ venue \notin {"spot", "okx"} => held[j].first = held[j - 1].final + 1
        /\ venue = "spot" => held[j - 1].final <= held[j].final
    BY <2>2 DEF BooksInv, HeldInOrder
  <2> QED
    BY <2>1, <2>2, <2>3
<1>5. DOMAIN newer = 1 .. Len(newer) /\ Len(newer) \in Nat /\ (DOMAIN newer # {} => newer # <<>>)
    BY ONLY <1>2
<1>6. ASSUME NEW i \in DOMAIN newer
      PROVE  Follows(IF i = 1 THEN at ELSE newer[i - 1].final, newer[i])
  <2>1. CASE venue = "spot"
    <3>0. Joins(at, newer) = Overlapping(at, newer)
      BY <2>1 DEF Joins
    <3>1. newer # <<>>
      BY <1>5, <1>6
    <3>2. Overlapping(at, newer)
      BY <3>0
    <3>3. CASE i = 1
      <4>1. newer[1].first <= at /\ newer[1].first \in Nat /\ newer[1].final \in Nat /\ newer[1].final > at
        BY <1>3, <1>6, <3>1, <3>2, <3>3 DEF Overlapping
      <4>2. Follows(at, newer[1])
        BY ONLY <4>1, at \in Nat DEF Follows
      <4> QED
        BY ONLY <3>3, <4>2
    <3>4. CASE i # 1
      <4>1. i > 1
        BY <1>5, <3>4
      <4>2. newer[i].first <= newer[i - 1].final + 1 /\ newer[i - 1].final <= newer[i].final
        BY <1>4, <2>1, <3>2, <4>1 DEF Overlapping
      <4>3. Follows(newer[i - 1].final, newer[i])
        BY ONLY <4>2 DEF Follows
      <4> QED
        BY ONLY <3>4, <4>3
    <3> QED
      BY <3>3, <3>4
  <2>2. CASE venue # "spot"
    <3>1. CASE i = 1
      <4>1. newer[1].first = at + 1
        <5>1. newer # <<>> /\ 1 \in DOMAIN newer
          BY <1>5, <3>1
        <5>2. CASE venue = "standard"
          <6>1. Joins(at, newer) = (newer = <<>> \/ newer[1].first = at + 1)
            BY <5>2 DEF Joins
          <6> QED
            BY <5>1, <6>1
        <5>3. CASE venue # "standard"
          <6>1. Joins(at, newer) = Contiguous(at, newer)
            BY <2>2, <5>3 DEF Joins
          <6> QED
            BY <5>1, <6>1 DEF Contiguous
        <5> QED
          BY <5>2, <5>3
      <4>2. newer[1].final \in Nat /\ newer[1].final > at
        BY <1>3, <1>6, <3>1
      <4>3. Follows(at, newer[1])
        BY ONLY <4>1, <4>2, at \in Nat DEF Follows
      <4> QED
        BY ONLY <3>1, <4>3
    <3>2. CASE i # 1
      <4>1. i > 1
        BY <1>5, <3>2
      <4>2. newer[i].first = newer[i - 1].final + 1 /\ i - 1 \in DOMAIN newer
        BY <1>4, <2>2, <4>1
      <4>3. newer[i - 1].final \in Nat
        BY <1>3, <4>2
      <4>4. newer[i].final \in Nat /\ newer[i].first <= newer[i].final + 1
        BY ONLY <1>3, <1>6
      <4>5. Follows(newer[i - 1].final, newer[i])
        BY ONLY <4>2, <4>3, <4>4 DEF Follows
      <4> QED
        BY ONLY <3>2, <4>5
    <3> QED
      BY <3>1, <3>2
  <2> QED
    BY <2>1, <2>2
<1> QED
    BY <1>2, <1>6

(* The snapshot and what follows it are released.                           *)
LEMMA InstallSafe ==
    ASSUME BooksInv, venue # "okx", NEW at \in Nat, NEW newer \in Seq(Sent), Install(at, newer),
           \A i \in DOMAIN newer : Follows(IF i = 1 THEN at ELSE newer[i - 1].final, newer[i]),
           UNCHANGED <<venueSide, wire, recorded>>
    PROVE  BooksInv'
<1>1. OneOrTheOther' /\ Sent' = Sent /\ UNCHANGED <<venue, head, base, faults>>
    BY VenueRests
<1> DEFINE s == Snapshot(at, at)
<1>2. s \in Frames /\ IsSnapshot(s) /\ s.first = 1 /\ s.final = at
    BY SnapshotSent
<1>3. /\ last' = IF newer = <<>> THEN at ELSE newer[Len(newer)].final
      /\ released' = <<s>> \o newer /\ held' = <<>>
    BY DEF Install
<1> HIDE DEF s
<1> DEFINE Releasable == {f \in Frames : f.first >= 1}
<1>4. Sent \subseteq Releasable /\ s \in Releasable
    BY <1>2 DEF Sent
<1>5. <<s>> \in Seq(Releasable) /\ newer \in Seq(Releasable) /\ Len(<<s>>) = 1 /\ <<s>>[1] = s
    BY <1>4
<1> HIDE DEF Releasable
<1>6. /\ released' \in Seq(Releasable) /\ Len(released') = 1 + Len(newer)
      /\ \A i \in 1 .. 1 + Len(newer) : released'[i] = IF i <= 1 THEN <<s>>[i] ELSE newer[i - 1]
    BY <1>3, <1>5, ConcatProperties
<1>7. /\ Len(newer) \in Nat /\ DOMAIN newer = 1 .. Len(newer)
      /\ DOMAIN released' = 1 .. 1 + Len(newer)
      /\ released'[1] = s
    BY <1>5, <1>6
<1>8. ASSUME NEW i \in DOMAIN released', i # 1
      PROVE  Follows(released'[i - 1].final, released'[i])
  <2>1. PICK j \in DOMAIN newer : j = i - 1 /\ i - 1 \in 1 .. 1 + Len(newer) /\ j >= 1
    BY <1>7, <1>8
  <2>2. released'[i] = newer[j] /\ ~(i <= 1)
    BY <1>6, <1>7, <2>1
  <2>3. CASE j = 1
    BY <1>2, <1>7, <2>1, <2>2, <2>3
  <2>4. CASE j # 1
    <3>1. released'[j] = newer[j - 1]
      BY <1>6, <1>7, <2>1, <2>4
    <3> QED
      BY <2>1, <2>2, <2>4, <3>1
  <2> QED
    BY <2>3, <2>4
<1>9. ReleasedFollows'
  <2>1. IsSnapshot(released'[1])
    BY <1>2, <1>7
  <2> QED
    BY <1>6, <1>8, <2>1 DEF ReleasedFollows, Releasable, IsSnapshot
<1>10. At' = last' /\ last' \in Int /\ released' # <<>>
  <2>1. released' # <<>>
    BY <1>6, <1>7
  <2>2. At' = released'[1 + Len(newer)].final
    BY <1>6, <2>1 DEF At
  <2>3. CASE newer = <<>>
    <3>1. Len(newer) = 0
      BY <2>3
    <3> QED
      BY <1>2, <1>3, <1>7, <2>1, <2>2, <2>3, <3>1
  <2>4. CASE newer # <<>>
    <3>1. Len(newer) > 0 /\ Len(newer) \in DOMAIN newer
      BY <1>7, <2>4
    <3>2. released'[1 + Len(newer)] = newer[Len(newer)]
      BY <1>6, <1>7, <3>1
    <3>3. newer[Len(newer)] \in Sent
      BY <3>1
    <3> QED
      BY <1>3, <2>1, <2>2, <2>4, <3>2, <3>3 DEF Sent, Frames
  <2> QED
    BY <2>3, <2>4
<1>11. LastIsAt'
    BY <1>10 DEF LastIsAt
<1>12. HeldInOrder'
    BY <1>1, <1>3 DEF HeldInOrder
<1>13. NothingLost'
    BY <1>1 DEF NothingLost
<1> QED
    BY <1>1, <1>9, <1>11, <1>12, <1>13 DEF BooksInv, Faithful

(* The last subscription is acknowledged.                                   *)
LEMMA AcknowledgeSafe ==
    ASSUME BooksInv, Acknowledge
    PROVE  BooksInv'
<1>1. venue # "okx"
    BY DEF Acknowledge, BooksInv, HeldInOrder
<1> QED
    BY <1>1, RequestSafe DEF Acknowledge

(* A fetch fails and is repeated.                                           *)
LEMMA FetchFailsSafe ==
    ASSUME BooksInv, FetchFails
    PROVE  BooksInv'
<1>1. venue # "okx"
    BY DEF FetchFails
<1> QED
    BY <1>1, RequestSafe DEF FetchFails, AskAgain

(* A snapshot arrives: too old, of no use, or installed.                    *)
LEMMA AnswerSafe ==
    ASSUME BooksInv, Answer
    PROVE  BooksInv'
<1>1. /\ asked /\ released = <<>>
      /\ UNCHANGED <<venueSide, wire, recorded>>
    BY DEF Answer
<1>2. venue # "okx" /\ head \in Nat /\ wire' \in Seq(Sent)
    BY <1>1 DEF BooksInv, HeldInOrder, OneOrTheOther
<1>3. CASE AskAgain
    BY <1>1, <1>2, <1>3, RequestSafe DEF AskAgain
<1>4. CASE Refused
    BY <1>1, <1>2, <1>4, RefusedSafe
<1>5. ASSUME NEW at \in 0 .. head, NEW k \in 0 .. Len(held), NewerAfter(k, at),
             NEW newer, newer = SubSeq(held, k + 1, Len(held)), Joins(at, newer),
             Install(at, newer)
      PROVE  BooksInv'
  <2>1. at \in Nat
    BY <1>2
  <2>2. /\ newer \in Seq(Sent)
        /\ \A i \in DOMAIN newer :
             Follows(IF i = 1 THEN at ELSE newer[i - 1].final, newer[i])
    BY <1>2, <1>5, <2>1, NewerFollow
  <2> QED
    BY <1>1, <1>2, <1>5, <2>1, <2>2, InstallSafe
<1>6. \/ AskAgain \/ Refused
      \/ \E at \in 0 .. head : \E k \in 0 .. Len(held) :
            /\ NewerAfter(k, at)
            /\ Joins(at, SubSeq(held, k + 1, Len(held)))
            /\ Install(at, SubSeq(held, k + 1, Len(held)))
    BY DEF Answer
<1> QED
    BY <1>3, <1>4, <1>5, <1>6

(* One frame is recorded: a snapshot begins the record, an update brings it *)
(* from a change of the venue to a later one.                               *)
LEMMA RecordSafe ==
    ASSUME BooksInv, Record
    PROVE  BooksInv'
<1> DEFINE f == Head(released)
<1> DEFINE Releasable == {g \in Frames : g.first >= 1}
<1>1. /\ released # <<>> /\ released' = Tail(released)
      /\ UNCHANGED <<venueSide, wire, acked, asked, held, last, alive>>
      /\ recorded' = IF IsSnapshot(f) THEN [book |-> Book(f.final), at |-> f.final]
                     ELSE [book |-> Overlay(recorded.book, f.first, f.final), at |-> f.final]
    BY DEF Record, bootstrap
<1>2. OneOrTheOther' /\ Sent' = Sent /\ UNCHANGED <<venue, head, base, faults>>
    BY <1>1, VenueRests
<1>3. released \in Seq(Releasable)
    BY DEF BooksInv, ReleasedFollows
<1> HIDE DEF Releasable
<1>4. /\ Len(released) \in Nat /\ Len(released) >= 1 /\ f = released[1]
      /\ f \in Releasable /\ DOMAIN released = 1 .. Len(released)
      /\ released' \in Seq(Releasable) /\ Len(released') = Len(released) - 1
      /\ DOMAIN released' = 1 .. Len(released')
      /\ \A i \in DOMAIN released' : released'[i] = released[i + 1] /\ i + 1 \in DOMAIN released
      /\ released' = <<>> <=> Len(released) = 1
  <2>1. Len(released) \in Nat /\ Len(released) >= 1 /\ DOMAIN released = 1 .. Len(released)
    BY <1>1, <1>3
  <2>2. f = released[1] /\ 1 \in DOMAIN released
    BY <1>3, <2>1
  <2>3. released' \in Seq(Releasable) /\ Len(released') = Len(released) - 1
    BY <1>1, <1>3
  <2>4. \A i \in DOMAIN released' : released'[i] = released[i + 1] /\ i + 1 \in DOMAIN released
    BY <1>1, <1>3, <2>1, <2>3
  <2>5. released' = <<>> <=> Len(released) = 1
    BY <1>3, <2>1, <2>3
  <2> HIDE DEF f
  <2> QED
    BY <1>3, <2>1, <2>2, <2>3, <2>4, <2>5
<1> HIDE DEF f
<1>5. f.first \in Nat /\ f.first >= 1 /\ f.final \in Nat
    BY <1>4 DEF Releasable, Frames
<1>6. /\ \A i \in DOMAIN released' :
            \/ IsSnapshot(released'[i])
            \/ Follows(IF i = 1 THEN f.final ELSE released'[i - 1].final, released'[i])
      /\ IsSnapshot(f) \/ (Faithful /\ Follows(recorded.at, f))
  <2>1. \A i \in DOMAIN released :
            \/ IsSnapshot(released[i])
            \/ IF i = 1 THEN Faithful /\ Follows(recorded.at, released[1])
               ELSE Follows(released[i - 1].final, released[i])
    BY DEF BooksInv, ReleasedFollows
  <2>2. IsSnapshot(f) \/ (Faithful /\ Follows(recorded.at, f))
    BY <1>4, <2>1
  <2>3. ASSUME NEW i \in DOMAIN released', ~ IsSnapshot(released'[i])
        PROVE  Follows(IF i = 1 THEN f.final ELSE released'[i - 1].final, released'[i])
    <3>1. PICK j \in DOMAIN released : j = i + 1 /\ released'[i] = released[j] /\ j # 1 /\ j - 1 = i /\ i \in Nat
      BY <1>4
    <3>2. Follows(released[i].final, released'[i])
      BY <2>1, <2>3, <3>1
    <3>3. CASE i = 1
      BY <1>4, <3>2, <3>3
    <3>4. CASE i # 1
      <4>1. i - 1 \in DOMAIN released' /\ (i - 1) + 1 = i
        BY <1>4, <3>1, <3>4
      <4>2. released'[i - 1] = released[i]
        BY <1>4, <4>1
      <4> QED
        BY <3>2, <3>4, <4>2
    <3> QED
      BY <3>3, <3>4
  <2> QED
    BY <2>2, <2>3
<1>7. Faithful' /\ recorded'.at = f.final
  <2>1. CASE IsSnapshot(f)
    BY <1>1, <1>5, <2>1 DEF Faithful
  <2>2. CASE ~ IsSnapshot(f)
    <3>1. recorded'.at = f.final /\ recorded'.book = Overlay(recorded.book, f.first, f.final)
      BY <1>1, <2>2
    <3>2. recorded.at \in Nat /\ recorded.book = Book(recorded.at)
          /\ f.first <= recorded.at + 1 /\ recorded.at <= f.final
      BY <1>6, <2>2 DEF Faithful, Follows
    <3>3. Overlay(Book(recorded.at), f.first, f.final) = Book(f.final)
      BY <1>5, <3>2, FrameContinuesBook
    <3> QED
      BY <1>5, <3>1, <3>2, <3>3 DEF Faithful
  <2> QED
    BY <2>1, <2>2
<1>8. At' = At
  <2>1. CASE released' = <<>>
    BY <1>1, <1>4, <1>7, <2>1 DEF At
  <2>2. CASE released' # <<>>
    <3>1. Len(released') \in DOMAIN released' /\ Len(released') + 1 = Len(released)
      BY <1>4, <2>2
    <3>2. released'[Len(released')] = released[Len(released)]
      BY <1>4, <3>1
    <3> QED
      BY <1>1, <2>2, <3>2 DEF At
  <2> QED
    BY <2>1, <2>2
<1>9. ReleasedFollows'
  <2>1. released' \in Seq({g \in Frames : g.first >= 1})
    BY <1>4 DEF Releasable
  <2>2. \A i \in DOMAIN released' :
            \/ IsSnapshot(released'[i])
            \/ IF i = 1 THEN Faithful' /\ Follows(recorded'.at, released'[1])
               ELSE Follows(released'[i - 1].final, released'[i])
    BY <1>6, <1>7
  <2> QED
    BY <2>1, <2>2 DEF ReleasedFollows, IsSnapshot, Follows
<1>10. HeldInOrder'
    BY <1>1, <1>2 DEF BooksInv, HeldInOrder
<1>11. LastIsAt'
    BY <1>1, <1>2, <1>7, <1>8 DEF BooksInv, LastIsAt
<1>12. NothingLost'
    BY <1>1, <1>2, <1>8 DEF BooksInv, NothingLost, IsSnapshot
<1> QED
    BY <1>1, <1>2, <1>7, <1>9, <1>10, <1>11, <1>12 DEF BooksInv

(* A new session begins without a record, and OKX sends it a snapshot of    *)
(* where the venue stands.                                                  *)
LEMMA ReconnectSafe ==
    ASSUME BooksInv, Reconnect
    PROVE  BooksInv'
<1>1. UNCHANGED <<venue, head, base, faults, alive>> /\ Connected
    BY DEF Reconnect
<1>2. OneOrTheOther' /\ Sent' = Sent
    BY <1>1 DEF BooksInv, OneOrTheOther, Sent, Numbered, IsSnapshot
<1>3. /\ held' = <<>> /\ last' = Missing /\ released' = <<>> /\ recorded' = Missing
      /\ wire' = IF venue = "okx" THEN <<Snapshot(head, head - base)>> ELSE <<>>
    BY <1>1 DEF Connected
<1> DEFINE s == Snapshot(head, head - base)
<1>4. head \in Nat /\ base \in Nat
    BY DEF BooksInv, OneOrTheOther
<1>5. s \in Frames /\ IsSnapshot(s) /\ s.first = 1 /\ s.final = head /\ s.seq = head - base
    BY <1>4, SnapshotSent
<1> HIDE DEF s
<1>6. wire' \in Seq(Sent')
  <2>1. CASE venue = "okx"
    <3>1. s \in Sent
      BY <1>4, <1>5, <2>1 DEF Sent, Numbered
    <3>2. wire' = <<s>>
      BY <1>3, <2>1 DEF s
    <3> QED
      BY <1>2, <3>1, <3>2
  <2>2. CASE venue # "okx"
    BY <1>3, <2>2
  <2> QED
    BY <2>1, <2>2
<1>7. HeldInOrder'
  <2>1. held' \in Seq(Sent') /\ DOMAIN held' = {}
    BY <1>3
  <2>2. venue = "okx" => acked' /\ ~ asked'
    BY <1>1, Zenon DEF Connected
  <2> QED
    BY <1>1, <2>1, <2>2 DEF HeldInOrder
<1>8. ReleasedFollows' /\ LastIsAt'
    BY <1>3 DEF ReleasedFollows, LastIsAt
<1>9. NothingLost'
  <2>1. SUFFICES ASSUME venue = "okx"
                 PROVE  /\ wire' # <<>> /\ IsSnapshot(wire'[1])
                        /\ \A i \in DOMAIN wire' : ~(i > 1)
                        /\ head = wire'[Len(wire')].final
    BY <1>1, <1>3 DEF NothingLost, IsSnapshot
  <2>2. wire' = <<s>>
    BY <1>3, <2>1 DEF s
  <2> QED
    BY <1>5, <2>2
<1> QED
    BY <1>2, <1>3, <1>6, <1>7, <1>8, <1>9 DEF BooksInv

(* Every step keeps it.                                                     *)
LEMMA BooksStep ==
    ASSUME BooksInv, [BooksNext]_bookVars
    PROVE  BooksInv'
<1>1. CASE UNCHANGED bookVars
    BY <1>1 DEF bookVars, BooksInv, OneOrTheOther, HeldInOrder, ReleasedFollows, LastIsAt,
                NothingLost, Faithful, At, Sent, Numbered, IsSnapshot, Follows
<1> QED
    BY <1>1, PublishSafe, DisturbSafe, ReceiveSafe, AcknowledgeSafe, AnswerSafe,
       FetchFailsSafe, RecordSafe, ReconnectSafe DEF BooksNext

(* Whoever replays a session's record, at any moment, has the venue's book  *)
(* as of a change the venue really made, whatever is lost, repeated,        *)
(* swapped, renumbered or reconnected on the way (ingest_update,            *)
(* accept_snapshot and normalize of the four collectors).                   *)
THEOREM RecordAlwaysTheBook == BooksSpec => []RecordIsTheBook
<1>1. BooksInv => RecordIsTheBook
    BY DEF BooksInv, Faithful, RecordIsTheBook
<1> QED
    BY <1>1, BooksStart, BooksStep, PTL DEF BooksSpec

-----------------------------------------------------------------------------
(* The types of the books, and that no frame is ahead of the venue.          *)

(* The frames of the changes the venue has made.                            *)
Made == {f \in Frames : f.final <= head}
Records == [book : [Levels -> SUBSET Changes], at : 0 .. head]

BooksTyped ==
    /\ venue \in Venues
    /\ head \in 0 .. MaxBookChanges
    /\ base \in Nat /\ faults \in Nat /\ requests \in Nat /\ sessions \in Nat
    /\ wire \in Seq(Made) /\ held \in Seq(Made) /\ released \in Seq(Made)
    /\ acked \in BOOLEAN /\ asked \in BOOLEAN /\ alive \in BOOLEAN
    /\ last \in Int \cup {Missing}
    /\ recorded \in Records \cup {Missing}

(* A change of the venue is a change that was made.                         *)
LEMMA BookTyped ==
    ASSUME NEW n \in 0 .. MaxBookChanges
    PROVE  Book(n) \in [Levels -> SUBSET Changes]
<1>1. ASSUME NEW l \in Levels PROVE InForce(l, 1, n) \in SUBSET Changes
    BY BookBounds DEF InForce, Changes
<1> QED
    BY <1>1 DEF Book

(* More changes are made, never fewer.                                      *)
LEMMA MadeStays ==
    ASSUME BooksTyped, head' \in Nat, head <= head'
    PROVE  /\ Made \subseteq Made'
           /\ recorded \in Records' \cup {Missing}
           /\ wire \in Seq(Made') /\ held \in Seq(Made') /\ released \in Seq(Made')
<1>1. head \in Nat /\ head' \in Nat
    BY BookBounds DEF BooksTyped
<1>2. Made \subseteq Made'
    BY <1>1 DEF Made, Frames
<1>3. 0 .. head \subseteq 0 .. head'
    BY <1>1
<1>4. Records \subseteq Records'
    BY <1>3 DEF Records, Changes
<1> QED
    BY <1>2, <1>4 DEF BooksTyped

(* What handling a frame comes to.                                          *)
LEMMA FrameOutcome ==
    ASSUME Receive
    PROVE  \/ Refused \/ Ignored
           \/ Accepted(Head(wire)) \/ HeldBack(Head(wire))
<1> DEFINE f == Head(wire)
<1>1. SpotUpdate(f) => Refused \/ Ignored \/ Accepted(f) \/ HeldBack(f)
    BY DEF SpotUpdate, SpotHeld
<1>2. OkxFrame(f) => Refused \/ Accepted(f)
    BY DEF OkxFrame
<1>3. BitvavoUpdate(f) => Refused \/ Accepted(f) \/ HeldBack(f)
    BY DEF BitvavoUpdate
<1> HIDE DEF f
<1>4. SpotUpdate(f) \/ OkxFrame(f) \/ BitvavoUpdate(f)
    BY DEF Receive, f
<1> QED
    BY <1>1, <1>2, <1>3, <1>4 DEF f

(* At the start nothing was received.                                       *)
LEMMA BooksTypedStart ==
    ASSUME BooksInit PROVE BooksTyped
<1>1. Snapshot(0, 0) \in Frames /\ Snapshot(0, 0).final = 0
    BY SnapshotSent
<1>2. wire \in Seq(Made)
  <2>1. Snapshot(0, 0) \in Made
    BY <1>1 DEF BooksInit, Made
  <2>2. wire = <<Snapshot(0, 0)>> \/ wire = <<>>
    BY DEF BooksInit
  <2>3. <<Snapshot(0, 0)>> \in Seq(Made) /\ <<>> \in Seq(Made)
    BY ONLY <2>1
  <2> QED
    BY ONLY <2>2, <2>3
<1>3. acked \in BOOLEAN /\ asked \in BOOLEAN /\ alive \in BOOLEAN
    BY Zenon DEF BooksInit
<1>4. requests \in Nat
    BY DEF BooksInit
<1> QED
    BY <1>2, <1>3, <1>4, BookBounds DEF BooksInit, BooksTyped

(* The venue sends what it has made.                                        *)
LEMMA PublishTyped ==
    ASSUME BooksInv, BooksTyped, Publish PROVE BooksTyped'
<1>1. PICK k \in Nat, renumbered \in {base, head} :
        /\ head + k <= MaxBookChanges
        /\ head' = head + k /\ base' = renumbered
        /\ wire' = Append(wire, [first |-> head + 1, final |-> head + k,
                                 prev |-> head - base, seq |-> head + k - renumbered])
  <2>1. Spans \subseteq Nat
    BY DEF Spans
  <2> QED
    BY <2>1, Zenon DEF Publish
<1>2. UNCHANGED <<venue, faults, acked, requests, asked, held, last, released,
                  recorded, alive, sessions>>
    BY DEF Publish
<1>3. head \in Nat /\ base \in Nat
    BY DEF BooksInv, OneOrTheOther
<1>4. head' \in 0 .. MaxBookChanges /\ head' \in Nat /\ head <= head' /\ base' \in Nat
    BY <1>1, <1>3, BookBounds
<1> DEFINE f == [first |-> head + 1, final |-> head + k,
                 prev |-> head - base, seq |-> head + k - renumbered]
<1>5. f \in Frames /\ f.final = head + k
    BY <1>1, <1>3 DEF Frames
<1>6. wire' = Append(wire, f)
    BY <1>1
<1> HIDE DEF f
<1>7. f \in Made'
    BY ONLY <1>1, <1>3, <1>5 DEF Made
<1>8. wire \in Seq(Made') /\ held \in Seq(Made') /\ released \in Seq(Made')
      /\ recorded \in Records' \cup {Missing}
    BY <1>4, MadeStays
<1>9. wire' \in Seq(Made')
    BY ONLY <1>6, <1>7, <1>8
<1> QED
    BY <1>2, <1>4, <1>8, <1>9 DEF BooksTyped

(* On the way nothing is made up.                                           *)
LEMMA DisturbTyped ==
    ASSUME BooksInv, BooksTyped, Disturb PROVE BooksTyped'
<1>1. /\ faults' = faults + 1
      /\ UNCHANGED <<venue, head, base, acked, requests, asked, held, last, released,
                     recorded, alive, sessions>>
    BY DEF Disturb
<1>2. Made' = Made /\ Records' = Records
    BY <1>1 DEF Made, Records
<1>3. wire' \in Seq(Made)
  <2>1. PICK i \in DOMAIN wire : \/ wire' = Lost(wire, i)
                                 \/ wire' = Repeated(wire, i)
                                 \/ i < Len(wire) /\ wire' = Swapped(wire, i)
    BY DEF Disturb
  <2>2. wire \in Seq(Made) /\ i \in 1 .. Len(wire) /\ Len(wire) \in Nat
    BY DEF BooksTyped
  <2>3. Lost(wire, i) \in Seq(Made)
    <3>1. SubSeq(wire, 1, i - 1) \in Seq(Made) /\ SubSeq(wire, i + 1, Len(wire)) \in Seq(Made)
      BY <2>2
    <3> QED
      BY <3>1, ConcatProperties DEF Lost
  <2>4. Repeated(wire, i) \in Seq(Made)
    <3>1. SubSeq(wire, 1, i) \in Seq(Made) /\ SubSeq(wire, i, Len(wire)) \in Seq(Made)
      BY <2>2
    <3> QED
      BY <3>1, ConcatProperties DEF Repeated
  <2>5. i < Len(wire) => Swapped(wire, i) \in Seq(Made)
    <3>1. SUFFICES ASSUME i < Len(wire) PROVE Swapped(wire, i) \in Seq(Made)
      OBVIOUS
    <3>2. wire[i] \in Made /\ wire[i + 1] \in Made /\ i + 1 \in 1 .. Len(wire)
      BY <2>2, <3>1
    <3> QED
      BY <2>2, <3>2 DEF Swapped
  <2> QED
    BY <2>1, <2>3, <2>4, <2>5
<1> QED
    BY <1>1, <1>2, <1>3 DEF BooksTyped

(* The collector keeps or hands on what it was sent.                        *)
LEMMA ReceiveTyped ==
    ASSUME BooksInv, BooksTyped, Receive PROVE BooksTyped'
<1> DEFINE f == Head(wire)
<1>1. /\ wire # <<>> /\ wire' = Tail(wire)
      /\ UNCHANGED <<venue, head, base, faults, sessions, recorded>>
    BY DEF Receive, venueSide
<1>2. Made' = Made /\ Records' = Records
    BY <1>1 DEF Made, Records
<1>3. f \in Made /\ wire' \in Seq(Made) /\ f.seq \in Int
  <2>1. wire \in Seq(Made) /\ wire # <<>>
    BY <1>1 DEF BooksTyped
  <2>2. f \in Made /\ wire' \in Seq(Made)
    BY <1>1, <2>1
  <2> HIDE DEF f
  <2> QED
    BY <2>2 DEF Made, Frames
<1> HIDE DEF f
<1>4. /\ held' \in Seq(Made) /\ released' \in Seq(Made) /\ last' \in Int \cup {Missing}
      /\ requests' \in Nat
      /\ acked' \in BOOLEAN /\ asked' \in BOOLEAN /\ alive' \in BOOLEAN
  <2>1. CASE Refused
    <3>1. /\ held' = <<>> /\ last' = Missing
          /\ UNCHANGED <<released, acked, requests, asked>>
      BY <2>1 DEF Refused, bootstrap
    <3>2. alive' \in BOOLEAN
      BY <2>1, Zenon DEF Refused
    <3> QED
      BY <3>1, <3>2 DEF BooksTyped
  <2>2. CASE Ignored
    BY <2>2 DEF Ignored, bootstrap, BooksTyped
  <2>3. CASE Accepted(f)
    <3>1. released' = <<f>> /\ last' = f.seq
          /\ UNCHANGED <<held, alive, acked, requests, asked>>
      BY <2>3 DEF Accepted, bootstrap
    <3> QED
      BY <1>3, <3>1 DEF BooksTyped
  <2>4. CASE HeldBack(f) /\ ~ Refused
    <3>1. held' = Append(held, f) /\ FirstRequest(held')
          /\ UNCHANGED <<acked, last, released, alive>>
      BY <2>4 DEF HeldBack
    <3>2. asked' \in BOOLEAN
      BY <3>1, Zenon DEF FirstRequest, BooksTyped
    <3>3. requests' \in Nat
      BY <3>1 DEF FirstRequest, BooksTyped
    <3>4. held' \in Seq(Made)
      BY <1>3, <3>1 DEF BooksTyped
    <3> QED
      BY <3>1, <3>2, <3>3, <3>4 DEF BooksTyped
  <2> QED
    BY <2>1, <2>2, <2>3, <2>4, FrameOutcome DEF f
<1> QED
    BY <1>1, <1>2, <1>3, <1>4 DEF BooksTyped

(* A snapshot is of a change the venue has made.                            *)
LEMMA AnswerTyped ==
    ASSUME BooksInv, BooksTyped, Answer PROVE BooksTyped'
<1>1. UNCHANGED <<venue, head, base, faults, sessions, wire, recorded>>
    BY DEF Answer, venueSide
<1>2. Made' = Made /\ Records' = Records
    BY <1>1 DEF Made, Records
<1>3. CASE AskAgain
    BY <1>1, <1>2, <1>3 DEF AskAgain, BooksTyped
<1>4. CASE Refused
  <2>1. /\ held' = <<>> /\ last' = Missing
        /\ UNCHANGED <<released, acked, requests, asked>>
    BY <1>4 DEF Refused, bootstrap
  <2>2. alive' \in BOOLEAN
    BY <1>4, Zenon DEF Refused
  <2> QED
    BY <1>1, <1>2, <2>1, <2>2 DEF BooksTyped
<1>5. ASSUME NEW at \in 0 .. head, NEW k \in 0 .. Len(held),
             Install(at, SubSeq(held, k + 1, Len(held)))
      PROVE  BooksTyped'
  <2> DEFINE newer == SubSeq(held, k + 1, Len(held))
  <2>1. newer \in Seq(Made)
    <3>1. held \in Seq(Made) /\ Len(held) \in Nat /\ k \in Nat
      BY DEF BooksTyped
    <3> QED
      BY ONLY <3>1
  <2>2. /\ last' = IF newer = <<>> THEN at ELSE newer[Len(newer)].final
        /\ released' = <<Snapshot(at, at)>> \o newer
        /\ held' = <<>>
        /\ UNCHANGED <<acked, requests, alive>>
    BY <1>5 DEF Install
  <2> HIDE DEF newer
  <2>3. at \in Nat /\ at <= head
    BY DEF BooksInv, OneOrTheOther
  <2>4. Snapshot(at, at) \in Made
    BY <2>3, SnapshotSent DEF Made
  <2>5. released' \in Seq(Made)
    BY ONLY <2>1, <2>2, <2>4, ConcatProperties
  <2>6. last' \in Int
    <3>1. CASE newer = <<>>
      BY <2>2, <2>3, <3>1
    <3>2. CASE newer # <<>>
      <4>1. newer[Len(newer)] \in Made
        BY ONLY <2>1, <3>2
      <4> QED
        BY <2>2, <3>2, <4>1 DEF Made, Frames
    <3> QED
      BY <3>1, <3>2
  <2>7. asked' \in BOOLEAN
    BY <1>5, Zenon DEF Install
  <2> QED
    BY <1>1, <1>2, <2>2, <2>5, <2>6, <2>7 DEF BooksTyped
<1>6. \/ AskAgain \/ Refused
      \/ \E at \in 0 .. head : \E k \in 0 .. Len(held) :
            Install(at, SubSeq(held, k + 1, Len(held)))
    BY DEF Answer
<1> QED
    BY <1>3, <1>4, <1>5, <1>6

(* What is recorded is the book of such a change.                           *)
LEMMA RecordTyped ==
    ASSUME BooksInv, BooksTyped, Record PROVE BooksTyped'
<1> DEFINE f == Head(released)
<1>1. /\ released # <<>> /\ released' = Tail(released)
      /\ UNCHANGED <<venue, head, base, faults, sessions, wire, acked, requests, asked,
                     held, last, alive>>
      /\ recorded' = IF IsSnapshot(f) THEN [book |-> Book(f.final), at |-> f.final]
                     ELSE [book |-> Overlay(recorded.book, f.first, f.final), at |-> f.final]
    BY DEF Record, bootstrap, venueSide
<1>2. Made' = Made /\ Records' = Records
    BY <1>1 DEF Made, Records
<1>3. f \in Made /\ released' \in Seq(Made)
  <2>1. released \in Seq(Made) /\ released # <<>>
    BY <1>1 DEF BooksTyped
  <2> QED
    BY <1>1, <2>1
<1>4. f.final \in 0 .. head /\ f.final \in 0 .. MaxBookChanges
  <2> HIDE DEF f
  <2>1. f.final \in Nat /\ f.final <= head /\ head \in 0 .. MaxBookChanges
    BY <1>3 DEF Made, Frames, BooksTyped
  <2> QED
    BY ONLY <2>1, BookBounds
<1>5. recorded' \in Records \cup {Missing}
  <2>1. CASE recorded' = Missing
    BY <2>1
  <2>2. CASE recorded' # Missing
    <3>1. recorded'.at \in Nat /\ recorded'.book = Book(recorded'.at)
      BY <2>2, RecordSafe DEF BooksInv, Faithful
    <3>2. PICK book : recorded' = [book |-> book, at |-> f.final]
      BY <1>1
    <3> HIDE DEF f
    <3>3. book = Book(f.final)
      BY <3>1, <3>2
    <3>4. Book(f.final) \in [Levels -> SUBSET Changes]
      BY <1>4, BookTyped
    <3> QED
      BY <1>4, <3>2, <3>3, <3>4 DEF Records
  <2> QED
    BY <2>1, <2>2
<1> QED
    BY <1>1, <1>2, <1>3, <1>5 DEF BooksTyped

(* A new session begins with nothing received.                              *)
LEMMA ReconnectTyped ==
    ASSUME BooksInv, BooksTyped, Reconnect PROVE BooksTyped'
<1>1. /\ UNCHANGED <<venue, head, base, faults, alive>>
      /\ sessions' = sessions + 1 /\ Connected
    BY DEF Reconnect
<1>2. Made' = Made /\ Records' = Records
    BY <1>1 DEF Made, Records
<1>3. head \in Nat /\ base \in Nat
    BY DEF BooksInv, OneOrTheOther
<1>4. wire' \in Seq(Made)
  <2>1. Snapshot(head, head - base) \in Made
    BY <1>3, SnapshotSent DEF Made
  <2>2. wire' = <<Snapshot(head, head - base)>> \/ wire' = <<>>
    BY <1>1 DEF Connected
  <2>3. <<Snapshot(head, head - base)>> \in Seq(Made) /\ <<>> \in Seq(Made)
    BY ONLY <2>1
  <2> QED
    BY ONLY <2>2, <2>3
<1>5. acked' \in BOOLEAN /\ asked' \in BOOLEAN
    BY <1>1, Zenon DEF Connected
<1>6. /\ requests' \in Nat /\ held' = <<>> /\ last' = Missing /\ released' = <<>>
      /\ recorded' = Missing
    BY <1>1 DEF Connected
<1> QED
    BY <1>1, <1>2, <1>4, <1>5, <1>6 DEF BooksTyped

(* Every step keeps the types.                                              *)
LEMMA BooksTypedStep ==
    ASSUME BooksInv, BooksTyped, [BooksNext]_bookVars
    PROVE  BooksTyped'
<1>1. CASE UNCHANGED bookVars
    BY <1>1 DEF bookVars, BooksTyped, Made, Records
<1>2. CASE Acknowledge
  <2>1. /\ UNCHANGED <<venue, head, base, faults, sessions, wire, held, last, released,
                       recorded, alive>>
        /\ requests' = 1 \/ UNCHANGED requests
    BY <1>2 DEF Acknowledge, venueSide
  <2>2. acked' \in BOOLEAN /\ asked' \in BOOLEAN
    BY <1>2, Zenon DEF Acknowledge, BooksTyped
  <2> QED
    BY <2>1, <2>2 DEF BooksTyped, Made, Records
<1>3. CASE FetchFails
  <2>1. /\ UNCHANGED <<venue, head, base, faults, sessions, wire, acked, asked, held, last,
                       released, recorded, alive>>
        /\ requests' = requests + 1
    BY <1>3 DEF FetchFails, AskAgain, venueSide
  <2> QED
    BY <2>1 DEF BooksTyped, Made, Records
<1> QED
    BY <1>1, <1>2, <1>3, PublishTyped, DisturbTyped, ReceiveTyped, AnswerTyped,
       RecordTyped, ReconnectTyped DEF BooksNext

(* Every variable of a followed book keeps its type; a record is of levels  *)
(* and changes of the venue.                                                *)
THEOREM BooksTypeCorrect == BooksSpec => []BooksTypeOK
<1>1. BooksTyped => BooksTypeOK
  <2> SUFFICES ASSUME BooksTyped PROVE BooksTypeOK
    OBVIOUS
  <2>1. head \in Nat /\ Made \subseteq Frames
    BY BookBounds DEF BooksTyped, Made
  <2>2. wire \in Seq(Frames) /\ held \in Seq(Frames) /\ released \in Seq(Frames)
    BY <2>1 DEF BooksTyped
  <2>3. recorded \in [book : [Levels -> SUBSET Changes], at : Nat] \cup {Missing}
    BY <2>1 DEF BooksTyped, Records
  <2> QED
    BY <2>1, <2>2, <2>3 DEF BooksTyped, BooksTypeOK
<1> QED
    BY <1>1, BooksStart, BooksStep, BooksTypedStart, BooksTypedStep, PTL DEF BooksSpec

(* No record, and no frame on the way, held back or released, is of a       *)
(* change the venue has not made yet: a record is never ahead of its venue  *)
(* (Answer takes the snapshot's own number, Record the frame's).            *)
THEOREM NeverAheadOfVenue ==
    BooksSpec => [](recorded # Missing => recorded.at <= head)
<1>1. BooksTyped => (recorded # Missing => recorded.at <= head)
    BY DEF BooksTyped, Records
<1> QED
    BY <1>1, BooksStart, BooksStep, BooksTypedStart, BooksTypedStep, PTL DEF BooksSpec
=============================================================================
