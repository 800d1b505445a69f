# A verification development for Hyperliquid-Bot

TLA+ models of the parts of this repository whose correctness depends on order,
failure and long sequences of calls, the TLC runs that check them on small
instances, and theorems about them that TLAPS checks for every value of the
constants. Source paths below are relative to `src/src/hyperliquid_bot/` unless
they start with `research/` or `docs/`.

## 1. The system

The program is a PAPER-only research system for Hyperliquid: it captures public
market data around the clock, archives and audits the captures, and runs
trading strategies against them (live or replayed) in a simulated account. It
never sends an order to a venue. About 115 Python files; one process per role,
connected by files and by Docker.

| Component | State it keeps | Operations | Hard behaviour | Modelled |
|---|---|---|---|---|
| **PAPER engine** `paper_engine/engine.py`, `execution.py`, `events.py`, `strategy.py` | position and cash, market cache, working order, stop, kill switch, loss windows, refill holds, counters | `on_event`, `on_clock`, the strategy's `on_market` | quotes late, missing, one-sided or thin; orders waiting out a latency; stops and kill switch acting before and after the strategy in one event; partial fills and refills | `PaperEngine`, `PaperExecution` |
| **PAPER risk** `paper_risk.py` | none | sizing, hard limits | comparisons at the boundary, reduce-only exemptions | `PaperRisk` |
| **Venue price grid** `paper_engine/precision.py` | none | adverse and protective rounding | rounding across powers of ten, integer cap | `PricePrecision` |
| **PAPER run directory** `paper_engine/ledger.py`, `engine.py` | ledger.jsonl, state.json, health.json, run-claim.json, buffered lines, failure flags | claim, persist, fail closed, close | write errors at every step, crashes, power loss | `PaperRun` |
| **Hyperliquid collector** `hyperliquid_ws_client.py`, `hyperliquid_capture.py` | session state, subscription attempts, de-duplication cache, bounded queue, gap flag, quarantined sink calls | run, receive_batch; receiver, heartbeat and activation tasks | reconnection with repeats, cancellation between two sinks, back-pressure, termination after the queue is drained; a pong behind a slow sink | `HyperliquidCollector`, `BatchStream`; partly |
| **Continuous supervisor** `collector_continuous.py`, `collector_continuous_audit.py` | state.json: phase, generation, container, retry count, audit id, stop mark; the gap records of each campaign | adopt, launch, observe, audit, gap, stop, pause, recover after reboot | death between any two of container, state file and gap record; refused saves; SIGTERM; power loss | `ContinuousSupervisor` |
| **Campaign and publication** `collector_runtime.py`, `collector_storage.py` | chunk directories, manifests, COMPLETE markers, runtime-health.json | collect a chunk, publish to two roots, prune, report | create-only publication interrupted anywhere; files that change between two reads; a leftover temporary status file | `CollectorCampaign` |
| **Parquet writer** `parquet_research.py` | buffer, pending segments, part number, error, part files | append, flush, aclose, writer task, publishing thread | one condition shared by appenders, a flush, the close and the writer; failed writes retried by the close; crashes | `ParquetWriter`, `RecordLog` |
| **Followed books of other venues** `bitvavo_standard_research.py`, `bitvavo_mdpro_research.py`, `binance_public_research.py`, `okx_public_research.py` | last sequence number, updates held back, snapshot requests | ingest an update, accept a snapshot, record, reconnect | frames lost, repeated, reordered; snapshots older than the updates they join | `VenueBooks`; partly |
| PAPER replay `paper_engine/replay.py`, `offline_replay.py`, `offline_inputs.py` | bounded memory of seen trades | load, de-duplicate, sort, feed | repeats further apart than the memory | no, see 5 |
| Storage and clock checks `collector_native_storage.py`, `collector_clock.py` | none | check mounts, ZFS identities, clock evidence | none of their own | as the failures `Fault` and `Interrupt` |
| Capacity admission `collector_capacity.py` | streak counters | admit, evaluate | hysteresis | as the failure `Fault` |
| **Capture alerts** `capture_operator_alert.py`, `capture_alert_watch.py`, `capture_alert_cli.py`, the end of `binance_public_research.py` | receipts by idempotency key, delivery threads, the run's claim, live status and report | notice a failure, emit, post with retries, wait for the threads, report, alert; watch | deaths at any step; POSTs, answers and receipts lost; a checker that reads a run which ends meanwhile | `CaptureAlerts`; partly |
| **Funding months** `research/hist_etl/hyperliquid.py`, `pipeline.py`, `files.py` | per month two raw files, the Parquet file, its sidecar; the catalogue's view | sync: fetch, settle, reuse, write, audit, refuse, refresh the view | a sync that dies between two files; truncated answers; an earlier --today; files moved and ranges changed by hand | `HistFunding`; partly |
| Historical downloads `research/hist_etl/` (the rest) | archives, .partial files, manifest, universe months | download, resume, verify, convert | resume of a file that changed | no, see 5 |
| Other public collectors (Kraken, Deribit, Polymarket, Coinbase, raw Hyperliquid) | per-venue books and run directories | receive, validate, write | Kraken: a checksummed book | no, see 5 |
| Event schema and provenance `data_provenance.py`, `market_event_v3.py`, `instrument_metadata.py` | none (immutable records) | construct, validate, hash | none of order or failure | no |
| Research catalogues, studies, harness, `research/harness`, `panel_hl_binance.py`, ... | files | batch transformations, statistics | floating point, data volume | no |
| Control service, mode gates, cockpit | none after start-up | read-only status, configuration checks | none | no |

How they interact. The collectors write what they accept through the Parquet
writer and close chunks; the campaign runtime copies them to the capture and
archive roots, and the supervisor, which runs the campaign in a container,
audits both copies before it launches the next one. The replay loader turns an archived tape into `MarketEvent`
objects and calls `PaperEngine.on_event` for each; a live feed would call the
same method. The engine calls the strategy synchronously, hands every fill,
order and rejection to `RunStore` and lets it write the run directory at the
end of each call. A capture that fails tells the operator's webhook itself; the
alert watch, a command a timer starts, tells it of the runs that could not. Watch, cockpit and control service read what the others
publish and never write to it.

What makes each component correct:

* **Engine**: every open position is protected by a stop, a crossed stop is
  acted on, exits complete, a halted engine adds no risk, limits approved at
  submission hold at the fill, PAPER takes no size the venue did not display,
  and the cash ledger reconciles.
* **Run directory**: the ledger is a complete, duplicate-free audit trail, no
  healthy projection is ahead of it, and a failure stays visible.
* **Grid**: a rounded price is accepted by the venue, nearest on its side, and
  never better for PAPER than the unrounded one.
* **Collector**: within the cache's capacity each venue event reaches the
  consumer once and is forgotten by nobody, no gap is unflagged, and
  termination is told only after the last batch.
* **Supervisor**: a generation starts only after its predecessor was closed,
  audited and recorded; no capture outlives the unit; transport retries are
  bounded over restarts; no other failure is answered by a relaunch; and
  nothing short of such a failure, a fault or an operator ends the capture.
* **Publication**: a copy marked complete is whole, a spool file is removed only
  when two sealed copies hold it, and the status document is true.
* **Parquet writer**: readers see a growing prefix of the accepted records, and
  a close ends, successfully only when they see all of them.
* **Funding months**: a month the view takes for settled has every settlement
  once, no sync shortens what was read before, and a month that is left out is
  reported.
* **Capture alerts**: no alert contradicts the run's report, the collector tells
  of a failure once, and every run that did not end in order is told of.
* **Followed books**: whoever replays the record has a book the venue had.

`PROJECT.json` lists the hazards behind these at the source line where they
bite, with the property that would catch each one.

## 2. Modules

| Module | What it is |
|---|---|
| `PaperRisk` | Units, sizing, position checks and the hard limits (operators only). |
| `PaperExecution` | Quotes, adverse fills, limit prices and the cash ledger (operators only). |
| `PaperEngine` | The engine object as one record, one operator per method, one action per handler; its properties. |
| `MCPaperEngine` | Small feeds for TLC. |
| `MCPaperEngineCycle` | The same handlers over feeds of any length in a finite state space; fairness and liveness. |
| `PaperRun` | The run directory, one action per disk operation. |
| `PricePrecision` | Grid rounding against the venue's rule stated independently. |
| `BatchStream` | What the collector promises its consumer: a bounded stream of batches that ends once. |
| `HyperliquidCollector` | The collector's run loop, session tasks and consumer, one action per await; its properties. |
| `MCCollector` | Small venues for TLC. |
| `ContinuousSupervisor` | The supervisor, one action per effect on state.json, docker or the campaign's files, with the container it runs. |
| `CollectorCampaign` | The campaign and publication, one action per file operation. |
| `RecordLog` | What a capture expects of its sink: an append-only log. |
| `ParquetWriter` | The writer, one action per section of its condition. |
| `VenueBooks` | The books of four venues, one action per frame. |
| `HistFunding` | One funding month: a sync, one action per file it writes, with the clock and the operator. |
| `CaptureAlerts` | The alerts of one Binance capture: collector, lane threads, terminal hook and checker, one action per file, POST or thread step. |
| `MCOperations` | `ContinuousSupervisor` and `CaptureAlerts` for TLC. |
| `MCPrograms` | `VenueBooks`, `CollectorCampaign`, `ParquetWriter`, `PricePrecision`, `PaperRun` and `HistFunding` for TLC. |
| `PaperPartsProofs`, `PaperEngineProofs`, `HyperliquidCollectorProofs`, `ContinuousSupervisorProofs`, `CollectorCampaignProofs`, `ParquetWriterProofs`, `PublicDataProofs`, `CaptureAlertsProofs` | Theorems. |

### The engine (`PaperEngine`)

`eng` is the `PaperEngine` object: `book` is `_position`, `working` the one
`_WorkingOrder`, `bookTaken` and `tradeTaken` the refill holds, `kill` and
`killReason` the kill switch, `day`, `dayStart`, `weekStart` the loss windows,
`stop`, `stopExitPending`, `stopLockout`, `exitWaiting`, `missingFlatten` the
exit state, `lastBlock` the last recorded rejection. `failed` is `_failed`.

`OnEvent` is `on_event`: `Advance` follows `_advance` call for call (source
clock, stale gap, arrival, fill, stop, limits, kill switch, strategy, fill,
stop, limits, kill switch). `OnEventStrategyRaises` is the same handler when
the strategy raises: the event stays half applied and the run refuses the next
call. `OnClock` is `on_clock`. Every method is an operator from the record to
the record after it; where the code returns early, the operator does.

What is abstracted: prices are whole ticks and every amount of money a whole
number of 1/200 ticks, so that percentages, half-tick mids and risk prices are
exact as they are with the code's `Decimal`; the decimal grid itself is
`PricePrecision`'s subject. Ledger lines and the three bounded record deques
are text and are left out, their counters are kept. A week is `DaysPerWeek`
days. `order_id`, strategy id and venue are single values.

### Endless feeds (`MCPaperEngineCycle`)

The engine compares times only with each other. After each call `Rebase` moves
all of them back so that the source clock reads the same value again, keeps
expired times at zero, and forgets what no method reads (the rejection record)
or only reads as a difference (order numbers, trades since the stop). The
handlers are `PaperEngine`'s operators; what is checked is that they hold for
any number of calls, which a bound on the calls could not show. `MaxFills`
bounds the strategy, not the feed: after that many fills it is silent, while
stops and the kill switch go on trading.

### The run directory (`PaperRun`)

`pc` is the next disk operation. `Open`, `WriteClaim`, `CommitLines`, `WriteState`
and `WriteHealth` are the constructor and `_persist`; `CommitFails` and
`ProjectionFails` are their errors, which lead into `FailCommit`, `FailHealth`
and `FailState` (`_fail_closed`, errors suppressed) or out of `close()`.
`CloseRun`, `CloseHealth` and `CloseState` are `close()`. A ledger line is its
number. `Crash` stops the process between any two operations; `PowerLoss`
also takes back whatever was not fsynced: the unsynced end of the ledger and
any replacement of a projection, and with an undurable claim the directory.

### The collector (`HyperliquidCollector`)

Everything runs on one event loop, so an action is what the code does between
two awaits. `producer` is where `_run_private` is: `ConnectFailsForNow`,
`ConnectFailsForGood`, `Connected`, `Reconnect` and `CancelRun` are its loop,
`SessionEnds` and `Leave` are `_run_session` after `asyncio.wait` returns (the
other tasks are canceled where they wait, the errors of all that are done are
weighed), `CloseOutcomeSink` and `CloseRawSink` its `finally`. `tasks` says how
each task stands. The receiver goes through `receiver.at`: `recv` (the wire),
`raw` (the raw sink), `outcome` (the outcome sink) and `put` (a full queue).
`Prepare` is what `_prepare_message` decides between the two sinks, and
`Commit` what `_commit_prepared_message` does after the second: acknowledge,
wait for room, or `Publish`. `ActivationStarts`, `SendReturns`,
`ActivationCompletes` and `ActivationFails` are the subscription loop, with a
send pending between two of them, so that an acknowledgement can come first.
`ConsumerRound` is one round of the loop in `_receive_batch_private`.
`delivered`, `seen` and `firstSent` are history.

What is abstracted. A timeout may fire whenever its await is pending. A
heartbeat may fail at any moment of a session, for whatever reason; how it pairs
pings and pongs decides only how often that happens. Every error is `retry` or `fatal`. A frame is a sequence of trades
with a coin, an id and a version (two versions of an id have different
fingerprints); how the id is computed is left out. The order of cancellation of
the session's tasks and the closing of its socket are one action, because none
of them changes what this model keeps. Backoff lengths and jitter, counters,
the bounded set of sink calls that outlived their deadline, and the guard
against a second consumer are left out. `Init` is the state after the first step
of `_run_private`: a task canceled before that step never enters it and tells
the consumer nothing. The repository's tests are the only callers of this
class: how its consumer behaves is an assumption of the runs, not a model of
another component.

### The supervisor (`ContinuousSupervisor`)

`mem` is `Supervisor.state` in the running process and `disk` is state.json;
`pc` is where the process is. `Start` to `Confirm` follow `run`, `recover_boot`,
`observe`, `audit`, `gap` and `launch`, with one action between two effects that
a crash can separate: each `Save` writes the document or is refused (before the
replacement, or after it when the status view fails), each docker command and
each file of the campaign is an action of its own. `Refuse` is every check these
methods make and fail; `Fault` is what a clock, a wall budget, the capacity
bounds, a store check or a schema may refuse at any time. Both end in `FailSave`,
`FailStop` and `FailAudit`, the `finally` of `run`. `Post`, `PostStop` and
`PostAudit` are `--stop-owned`, which systemd runs after every exit, and `Pause`
is `--pause`. `Shutdown` is SIGTERM at a tick, `Kill` SIGKILL or the watchdog,
`PowerLoss` a reboot, after which the app may restart or recreate its container.

`box` is the collector container and `files` what the supervisor reads of each
campaign: `Container` is the finite campaign as docker runs it (waiting for the
network marker, capturing, publishing, troubled, stopped). That its health says
completed and that its process exits are two steps (`BoxSeals`, `BoxExits`): one that is
killed in between is `crashed`, and `observe`, which asks for exit code 0 too, does not
take it for complete. `flaw` and `sealed`
are what an audit can tell of its copies; `CollectorCampaign` models how they
come about. Campaign 0 is the one the operator started and the supervisor
adopts. `graceful` is the mark by which a later boot tells a campaign the
supervisor stopped from one that failed.

Some behaviour a reader may not expect, all of it in the model: the network
marker names the container's network namespace, so a container that restarts is
never let onto the network; `paused` is final until an operator intervenes; a
reboot in the middle of a launch always ends there, because the container's
identity was not yet saved; a crash between `docker rm` of the closure audit and
the save that forgets it leaves an id that nothing answers to, which also ends
there; a reboot during a retry delay launches without waiting the delay out, and
that launch is not counted; a controller failure between what
`shutdown_phase` reads and the `docker stop` is later taken for the supervisor's
own stop. Abstracted: times and delays; the phase `publishing`, which `observe`
treats as `capturing`; that docker answers ExecStopPost is an assumption, that
it answers the failing process itself is not.

### The campaign (`CollectorCampaign`)

`step` is where `collect_campaign` is. `Tick`, `CloseChunk`, `NextChunk` and
`Finish` are its loop; `Reserve`, `CopyFile`, `Manifest`, `Marker` and `Link` are
`publish_closed_chunk` for one destination, and run for the capture root and
then the archive root; `Verify` and `Unlink` are
`remove_verified_spool_duplicate`. `Mismatch` is each re-reading that finds
something else, `Blocked` a status write that meets a leftover temporary file,
`Interrupt` everything else that raises, `ReportFailure` the handler's last
status. `CampaignDies` is a death between any two of these; `NextCampaign` starts
another campaign with its own directories, on the same spool with its status
file (as vm-nfs does) or on a fresh one (native). `Change` is somebody else who
writes a file in the spool or in a destination; a copy changed after the
collector last read it is in `late`, because no check of this code can see it.
One lane stands for all: they are closed together and published one after the
other. The capture processes are reduced to a chunk that closes or a failure.

### The Parquet writer (`ParquetWriter`, `RecordLog`)

All methods share one `asyncio.Condition`, so an action is one section under it:
`AppendWaits`, `AppendRaises`, `AppendTakes`; `Flush`, `WaitToSettle`,
`FlushReturns`; `Close`, `CloseRetries`, `CloseEnds`; `WriterLeaves`,
`WriterStarts`, `Commit`. `asleep` is who waits; a section notifies where the
code does. The thread of `_write_segment` runs beside them (`ThreadShows`,
`ThreadSyncs`, `ThreadFails`, the last of which may follow a file that is
already visible). `RecordLog` says what a capture relies on, and
`WriterIsALog` is the refinement: `Seen`, the visible files in the order of
their names, is the log's content, `_phase` its state. Bytes and seconds that
make a segment due are a choice. Cancelling the writer task or the close task
themselves, which happens only when the loop is torn down, is left out. One
observation: the class's docstring says that a crash may lose the current
in-memory segment; the model shows that the queued segments, up to two, are
lost with it, which is what `MaxUnseen` allows.

### The books (`VenueBooks`)

`venue` says whose collector a behaviour is about. The venue numbers its changes,
and `Publish` puts one to two of them into a frame as that venue does; `Disturb`
loses, repeats or swaps frames. `Receive` hands a frame to `ingest_update`
(`BitvavoUpdate`, `SpotUpdate`, `OkxFrame`), `Answer` a snapshot to
`accept_snapshot`, `FetchFails` and `Acknowledge` are the requests around it,
`Record` writes what was released, `Reconnect` begins a session. Binance Spot
awaits its snapshot inside the handler, so no frame is taken meanwhile. OKX may
renumber for maintenance, which its protocol cannot tell from a loss of frames
with the same numbers; here a venue does one or the other. A level's state is
the last change that set it, so a record is right exactly if its book is.

### A funding month (`HistFunding`)

One month of one dataset. Its raw file is `settledRaw` or `openRaw`, each with
the window it was written for, the slots that have a print and whether one slot
has two; `parquet` and `sidecar` name the raw file they were made from. A sync is
`StartSync` (any `--today` up to the date, with or without `--rebuild`), then
`NoMonth`, `SkipMonth`, `ReuseSettled` or `Fetch` (`_sync_hyperliquid`, any part
of the window may be missing from the answer), then `KeepMonth`, or `WriteMonth`
and `WriteSidecar` (`materialize_funding_month`), then `RefreshView`; `SyncDies`
is a death between any two of these. `Decide` and `DecideOutput` are the rules
that keep or replace a month file, `InView` those of the view: the first ask
what the file was made from, the second which window it has, and both read the
sidecar, not the file. `MoveAside`, `ChangeRange` and `AcknowledgeHole` are what
the runbook tells an operator to do, between two syncs. `FundingInit` is an
empty root, or one an earlier version settled, whose sidecar has no window.
The venue's answer is what it has: a settlement the venue changes later is not
modelled. Two observations. A sync that dies between the first month file and
its sidecar leaves a file that every later sync refuses to replace until it is
told to `--rebuild`; `RefusalExplained` says that this and the operator are the
only causes of a refusal. And after a `--rebuild` dies there, the view reads the new
file by the old sidecar until the next sync, which is the exception in
`SettledMonthIsWhole`.

### The alerts (`CaptureAlerts`)

`capture` is where `run_reconstructable_capture` is, `gone` without a process.
`NoticeFailure` is a required profile that ended (`_notice_definitive_profile_failure`:
the live status, which the disk may refuse, and a lane thread), `StopCapture` the end
of `capture_for` with the errors that come up while it unwinds and the choice of the
one it raises (`Raises`), `DrainLane` the lane's shutdown, `CloseCapture` the notes,
the writer's close and the catalogue, `CreateReport` and `FillReport`
`capture-health.json` (created, then written), `TerminalHook` the last alert. `Killed` may come at
any step. `emission` is `emit_capture_operator_alert` of each sender: a profile's
thread, the hook, the checker. `EmitCheck` looks for a receipt and the URL,
`PostAnswered` and `PostFails` are the attempts, `Mark` is what the thread notes for
the hook. `StartCheck`, `ReadReport`, `JudgeRun` and `EndCheck` are one `watch --send`
over one run: the process first, then the files, then the decision (`Findings`).
`got` is what reached the receiver, answered or not.

Abstracted: an error is what raised it and its class, and a key the state with the
form and class of the reason, which is all of it that differs within a run; the
receipt is written with the answer (a death in between is an answer without a
receipt, which is among the cases); the notes, the close and the catalogue are one
step, since nothing else reads what they change before the report. The checker is never too late
(its 24 hours), and `STALE`, which has keys of its own, is left out.

Some behaviour a reader may not expect, all of it in the model. The collector's key
is made of the error's message; the checker's of `class: message`, and with the class
`BinanceDataIntegrityError`, a word of 25 letters, that reason is redacted. The keys
differ, so the receipt of a FAILED the collector delivered does not keep the checker
from posting the same failure once more. `docs/runbooks/capture-failure-alert.md:17` and 43-45
say that it does: one failure has one key, and after a 2xx a later check does not
POST again. No run states this; `CollectorTellsOnce` is about the collector's own two senders,
which do share a key. And an outage of a profile is told as FAILED although an
operator's stop may still turn the run into OPERATOR_STOP; it cannot become COMPLETED.

### Two more for TLC (`MCOperations`)

The supervisor and the alerts, in the way of `MCPrograms`.

### The six of them for TLC (`MCPrograms`)

The books, the campaign, the writer, the grid, the run directory and the funding
month share nothing. One run checks
them: in a behaviour one of them moves and the others stay in one initial state,
so the state space is the sum of theirs, not the product.

## 3. Runs

All runs are exhaustive (no constraint). `CHECK_DEADLOCK FALSE` where the
model may stop: the engine when the strategy raised, and the bounded run after
its last call, the supervisor when it is paused or the campaigns are used up, and
the programs of `MCPrograms` and `MCOperations` when they have ended. The collector's
runs check deadlock.

| Run | Properties | What it shows |
|---|---|---|
| `stops` | StopMatchesPosition, StopExitOwnsPosition, WorkingOrderSound, ExitCompletes | Two thin books on either side of a stop, a one-sided book, a venue mark that disagrees with the book, targets in both directions and a latency of one: every path to a fill, a replaced order and a waiting exit; and, as liveness, that a pending exit completes. |
| `zero_latency` | CashReconciles, NoDoubleTake | Orders fill in the handler that decides them: exit and re-entry share one quote, long turns into short in one call, with fees. |
| `feed` | StopHonoured, NoFillFromExpiredQuote | Late quotes, one-sided books, prints and marks with a freshness limit of one time unit. |
| `losses` | LimitsAtRest, HardLimitsHold, HaltedNeverAddsRisk, EntryRiskBounded | Shorts in rising books, one of them without asks, over days and weeks of three days, with slippage and fees: loss limits, and the kill switch that each of them holds down until its own window ends; and, since a SELL limit only floors the price, what a bid that rose during the latency does to the limits that were approved. |
| `orders` | OrdersAccounted, HoldNeverShortens, StaleHaltNeedsGap | Five calls of an in-order feed with real counters and clocks. |
| `operations` | SuccessorAccounted, NoOrphanCapture, RetryBudget, FailureSticks, CaptureResumes, AlertsAgreeWithReport, CollectorTellsOnce, EveryFailureTold | Two programs, 1,327,640 states. The supervisor over two campaigns after the adopted one and two boots: it is killed, stopped or refused a save between any two effects, the container completes, fails, is cut off at any moment or is killed after it completed; as liveness, that a campaign that ends has a successor on the network or the unit goes off. The alerts of a capture: deaths at any step, a report that is torn or missing, lost POSTs, answers and receipts, a checker that reads while the run ends; as liveness, that a run which did not end in order is told of. |
| `sessions` | DedupExact, GapMarksLaterSessions | Two coins and three sessions over a queue of one batch, with frames that repeat and contradict each other: acknowledgements before and after their send returned, and what is repeated, flagged and remembered when a session dies at any await. |
| `consumer` | ToldAfterCloses, StreamSafe, FatalReachesConsumer, EveryBatchTaken | The refinement of `BatchStream` over a queue of two batches, cancellation and the closes; liveness: no lost wakeup, and every fatal error is told. |
| `programs` | RecordIsTheBook, SpoolNeverLastCopy, SealedIsWhole, ReportIsTrue, NearestSafePrice, LedgerExactlyOnce, ProjectionBacked, SettledMonthIsWhole, WriterIsALog, FailedStatusSticks, PrintsStayInView | Six programs, 1,229,653 states: the books over lossy, repeating and reordering feeds and two connections; two campaigns of two chunks with deaths and a changed file; the writer as an append-only log, with failing writes, crashes and a close that ends; every price to the bound, both sides and both uses, rounded and rounded again; the run directory through failures, crashes and power loss; the funding month through truncated answers, deaths and earlier cutoffs. |
| `late_hold` | HoldNeverShortens (violated) | See findings. |
| `late_halt` | StaleHaltNeedsGap (violated) | See findings. |
| `settled_extended` | NotSelectedIsReported (violated) | See findings. |

Bounds and why they are enough. Prices take two or three values chosen so that
a stop, a band, a limit or a loss threshold lies between them; a displayed size
of one to four lots against targets of two to four gives whole, partial and
refused fills. Receive times are offsets from the source clock that include the
latency, the refill time, the freshness limit, one more than it, and lateness;
a late event is one that is older than a source already seen. Five calls in
`orders` are an entry, a partial exit, a fill at the same level and two more
events. The run directory takes batches of at most two lines and a handful of
lines in all: enough for a batch that is written partly and one that follows
it. The grid in `programs` uses a smaller number of significant figures and decimals
than the venue with the same relation between them, so that decimal-bound,
figure-bound and integer-bound prices all occur below the bound. The
collector's cache holds two ids against four, its queue one batch (two in
`consumer`) against up to five messages (`MaxFrames`), so that eviction, a full
queue and a batch lost with its session all occur; three sessions
(`MaxSessions`) are one that dies before or after its first subscription, and
two that follow. The supervisor in `operations` has one retry (`MaxRetries`), so that the second
transport failure exceeds it, two launches (`MaxCampaign`), the fewest in which
a launched campaign is itself succeeded, and two boots (`MaxBoot`). The alerts have one required profile, the
open-interest poll giving a second error that competes with its own, and two attempts
(`Attempts`; the code has three): one that fails and one more. In
`programs` the books have six changes of two levels, at most three frames on
the way and two disturbances, and hold back two updates: a gap before and after
a snapshot, an overflow and a second request all occur. Two campaigns with two
chunks of two files show a death in each of them and a leftover temporary file.
The writer has two appenders and six records, so that with segments of two
records a full queue of two (`MaxPending`, the code's bound) is followed by more; three
failures (`MaxFailures`) exhaust the close's two retries, so that a close that
raises is among the cases, as are two failed segments of one writer. The funding
month has two days (`MonthDays`), the fewest with a window that is cut off and
one that is not, and a hole beside a print; the operator acts once (`MaxEdits`),
and twice in `settled_extended`. `SettledMonthIsWhole`, `PrintsStayInView` and
`CleanIsWhole` also hold for two (1,714,053 states of that program alone).
In `losses` a week has three days (`DaysPerWeek`) and four days are in sight, so
that a weekly halt can fall on a day that is not the last of its week: it outlives
the end of that day and ends with the week, while a daily halt ends with its day.

Fairness. `FairSpec` assumes one thing about the outside: the venue keeps
sending complete quotes with size on both sides, newer than what came before
(`WF` on the toggle `turn`, which changes with each of them), unless the engine
has stopped. Without such quotes no exit can fill, in the program or on the
venue. Nothing is assumed of the strategy or of the caller of `on_clock`.
The collector's `FairSpec` assumes that the event loop runs what is ready
(`SessionEnds`, `Leave`), that both closes end, which their hard deadlines
enforce whatever the sink does, and that the consumer calls again after each
batch. A venue, a sink or a task may be silent forever.
The supervisor's `Spec` has `WF(Run \/ Cleanup)`: systemd schedules the process and
docker answers its commands. Nothing makes a signal, a fault, a power loss or
a step of the container happen. The writer's fairness is that of the event loop
for the close task and the writer task, and that a thread that was started ends.
For the alerts `OperationsSpec` assumes that the timer keeps starting the checker and
that a check comes to its end (`WF(CheckerStep)`, the systemd timer of the runbook and
the bounded attempts), and that a receiver that is posted to over and over answers once
(`SF(PostAnswered("checker"))`). Nothing is assumed of the collector: it may die, or
never hear from the receiver.
The books and the campaign have no liveness: they wait for a venue and for time.

Findings. Two promises of `docs/PAPER_ENGINE.md` do not survive events that
arrive late, which the engine accepts:

* `late_hold`: the hold on a taken level is timed by the receive time of the
  fill. A fill on a late quote sets an earlier end, so the size an earlier fill
  took comes back too soon (`_take_touch`, engine.py:1344; the document says
  that more fills restart the timer).
* `late_halt`: the gap detector measures from the last event even when that
  event was late. The next event in order can then exceed `stale_after_ns` and
  flatten and halt a run whose quotes were never that far apart (`_advance`,
  engine.py:426; the document says a late event cannot rewind freshness).

Both properties hold for in-order feeds (`orders`, and the theorems of §4). The
third is about a range that was changed:

* `settled_extended`: a settled raw file is accepted if it ends where the window
  ends, and the window of the open month ends at the cutoff
  (`_load_raw_source`, hyperliquid.py:470). When a dataset that ended on that day
  is extended, a sync with that cutoff reports nothing, while the view, which
  compares with the whole range, drops the month. `docs/runbooks/hist-etl.md:367`
  says that a month that is not selected is reported; a sync on any later day
  does report it.

## 4. Proofs

The theorems hold for every feed, strategy, configuration and bound that
satisfies the named assumptions: `RiskAssumption`, `ExecutionAssumption` (what
`PaperEngineConfig.__post_init__` enforces), `EngineAssumption` (types of the
configuration and of the feed) and `NoneAssumption` (`None` is none of the
values it stands beside); `RunAssumption` for the run directory; and the bounds
and types each of the other modules names of its constants.

**`PaperEngineProofs`.** The inductive invariant is `EngineInv`, the predicate
`Rest` of the engine record: it has its type, an open position carries its
stop, a pending stop exit owns the position, a waiting order is sound, order
numbers are accounted for, no zero-latency exit is still working, and a halted
engine has no entry waiting. `WorkingOrderSound` alone is not inductive: a
handler submits and fills in the middle, so the proof follows each method.
`Sound` is the part of the invariant that every method preserves in between;
one lemma per operator shows that it does, `Rest` adds what holds only when a
handler returns, and `Advance` and `Tick` are compositions of those lemmas.
The theorems are `EngineTypeCorrect`, `StopAlwaysMatches`,
`StopExitAlwaysOwns`, `WorkingAlwaysSound` and `OrdersAlwaysAccounted`.

The second part of the module is about money. `LedgerInv` adds five facts to
`EngineInv`. `LedgerOk`: cash, average and realized results tell one story, the
position is within the hard limits at its own entry price, and what is held as
taken was displayed. `Honoured`: a crossed stop is pending or being flattened.
`LimitsOk`: what the loss limits say of equity agrees with the switch.
`HaltDated`: a halt on a loss limit has a day, so that its release is the end of a
window. `Untouched`: before the first event nothing is known and equity is the
starting cash, so that the limits hold from the start. The proof does not follow the twenty methods once
per property. Each lemma says which of three things a method may do: nothing to
the ledger (`Idle`), trade (`Traded`: it fills on a usable quote, and grows only
from flat with the switch off, within its risk) or mark (`Marked`), and
`Stepped` is what all of them, in any order, have in common. `AdvanceSettles`
and `TickSettles` compose them into what a handler leaves (`Settled`). The
theorems are `CashAlwaysReconciles`, `NeverTakesTwice`, `StopsAlwaysHonoured`,
`HardLimitsAlwaysHold`, `LimitsAlwaysAtRest`, and, for the steps,
`HaltNeverAddsRisk`, `FillsOnlyOnUsableQuotes` and `EntriesRiskTheirBudget`.
The proof of `HaltNeverAddsRisk` corrected its property. It used to ask a
released engine not to add risk in the event that releases it, which does not
follow at zero latency: the event that ends a loss window releases the halt, the
strategy enters and fills in the same handler, and the loss of that fill may halt
again. `HaltedNeverAddsRisk` now names that event (`LossWindowEnds`: the next day for a
daily halt, the next week for a weekly one) and is stronger about every other one. The
proof needs that weeks never go back while days do not (`WeekMonotone`), and that a
window that ends at one of a handler's clock steps has ended between the days before
and after the handler (`EndsLater`).

The third part is about time, and its theorems have a hypothesis, `InOrder`: the
feed stamps no event or tick before the source clock. The code does not enforce
it, and the runs `late_hold` and `late_halt` show that both properties fail
without it; every other theorem of the module holds of late feeds too. `FeedInv`
adds `Timed` to the ledger's invariant: no cached source is later than the last
event, nor that than the source clock, and no hold lasts longer than the refill
time. A method may then end a hold only when it is over or a later one takes its
place (`Refilled`), and none but the two handlers may halt for stale data
(`NoGap`); `KeepsTime` is what a handler makes of both. `HoldsNeverShorten` and
`StaleHaltMeansGap` follow.

**`PaperPartsProofs`, the run directory.** `RunInv` strengthens the checked properties with:
ledger and buffer together number the lines from one (`Numbered`), which
control points can see which flags (`Control`), an empty directory has no files
(`EmptyDisk`), what has been published was fsynced before (`SyncedBacks`) and a
failure has been or is about to be reported (`FailedReported`).
`LedgerExactlyOnce` is not inductive without the first of these: the second
commit of `_fail_closed` would append the buffer again, and what prevents it is
the store's own `_write_failed`. The theorems are `RunTypeCorrect`,
`LedgerIsExactlyOnce`, `ProjectionsAreBacked` and `FailedSticks`.

**`PaperPartsProofs`, the price grid.** For any number of significant figures and
decimals and every price, from `PrecisionAssumption` alone. The prover knows
neither `^` nor induction over data. So powers of ten are the recursive function
`TenTo`, whose equation is obtained by building the function up to every n
(`TensExist`, `TensAgree`, with the least counterexample of `LeastNumber` in the
place of induction); the recursion of `_round_to_grid` is resolved the same way
(`RoundingExists`, `RoundToGridIs`). The argument: the venue's rule is
divisibility by one power of ten (`AllowedIsOnGrid`). Rounding down keeps the
number of digits (`DownKeepsDigits`); rounding up reaches at most the next power
of ten, which lies on its own, coarser grid (`UpReachesTen`). So the price found by the first
round is allowed (`OnceIsAllowed`), and the second round, which the code takes when
the quantum changed, never moves it: `RoundingIsOnce`. With `GridInv` (the price is
the quote, or was rounded from it) and `NonePassedOver`, `RoundedIsNearestSafe` states
`NearestSafePrice`. `IntegersWhereTheEngineTrades` ties the grid to the engine's
model: from as many digits before the point as there are significant figures
(10,000 in the code), the grid is the integers and no price is refused. That is why
`PaperEngine` may count prices in whole ticks.

**`HyperliquidCollectorProofs`.** For any number of coins, sessions and
messages and any capacities. `CollectorInv` joins five facts: subscriptions are
sent in order and no coin beyond the one being sent has left PENDING
(`SubscriptionsInOrder`), an acknowledgement is prepared only for a coin that
has left it (`AcknowledgementsPrepared`: the attempt cannot fall back between
the two sinks, which is why the code may commit without looking again), a
backoff is entered without a fatal error (`ErrorsHandled`), the last step of
the producer records the end (`EndsOnce`), and the queue is what the consumer
has not taken (`QueueInStream`). `AcknowledgementsAlwaysAgree`,
`ToldOnlyAfterCloses` and `FatalStopsReconnection` follow (the first and the last are
proved only, no run repeats them); `ImplementsStream`
maps every action to a step of `BatchStream` or a stutter. `GapAlwaysMarked`
needs more: `GapKnown` ties the two flags to the first subscribed session in
each phase of the loop. It must except a session whose receiver met a fatal
error, because a publication timeout sets the sticky flag before the session is
left; that is sound as such a session commits nothing more. `EventsMarked`
carries the mark from the message in work to the batches delivered.
`DedupAlwaysExact` is about the cache, an LRU of any capacity, over messages of any
length. `Recent` says what its content means: its fingerprints are the last
sightings of their ids, oldest first (`Ordered`), and an id it does not hold was
last seen before at least `dedup_capacity` others (`Forgotten`). `MovedToEnd` and
`Trimmed` show that `Remember` keeps it: the fingerprint that is dropped has a full
cache of different, later ones behind it, which is a count of an injection.
`FoldKeeps` is the induction over the trades of a message, and `Consistent` what a
prepared message will make true once it is committed. `DedupInv` holds it between
preparing and committing, over a full queue as well; that needs the frame number to
have been given to no earlier trade.

**`ContinuousSupervisorProofs`.** For every number of retries, campaigns and boots.
None of the four safety properties is inductive, because the supervisor can go
on from two documents: the process from the one in memory, the next process and
ExecStopPost from state.json, and after a refused save or a kill the two differ.
`SupervisorInv` therefore says the same of both. `Backed`: a phase that permits
a launch stands only over a campaign that is closed and answered, a generation
only over closed ones. `Named`: a container that writes, or that the gate has
let through, is the one the document names, so that cleaning up from either
stops it. `Counted`: the document has counted the launches that followed a
failure. `Place` ties the document in memory to the step the process is at
(while it launches the two documents are equal, which is why a launch saves
before it changes the app), `Concluding` and `Stopped` carry what an audit has
established and what a cleanup has done up to the step that relies on it, and
`FilesSound` says which files of a campaign go together.
`PredecessorIsAccounted`, `NoCaptureIsOrphaned`, `LaunchesAreBounded` and
`FailureIsAnswered` follow.

**`CollectorCampaignProofs`.** For any files, chunks, campaigns and changes.
`CampaignInv` adds to the properties what each file operation relies on: nothing
exists yet of the chunks ahead (`AheadUntouched`: a reservation is never made
twice), where a publication stands agrees with its copy (`PublicationStep`),
from the manifest on a copy is what its manifest lists or was changed late
(`ManifestIsWhole`), a file is removed only after `Verify` has found both copies
sealed (`NothingRemovedYet`, `UnlinkIsSafe`), the chunks behind are sealed
(`ChunksSealed`), and the status document names this campaign once it has
reported anything (`StatusKnown`). `SpoolHeldElsewhere`, `SealedCopyIsWhole` and
`StatusReportIsTrue` follow.

**`ParquetWriterProofs`.** For any callers, rotation, queue limit and number of
records and failures. `WriterInv` says that there are ends such that the visible
parts, the part a thread works on, the queued segments and the buffer are
consecutive pieces of the accepted records (`Chain`), the queue holds the last
parts in order (`QueueInOrder`), the thread works on its head (`ThreadOnHead`),
and no part beyond is visible (`AheadHidden`). That a failed segment stays at
the head of the queue under its number is what makes a retry, also one of a
file already visible, write the same records again. `VisibleFilesArePrefix`
states the safety part of `RecordLog` with the pieces in place of their
concatenation, and `VisibleFilesStay` that a visible file keeps its records.
`ImplementsLog` is the refinement itself, step by step: every step of the writer
appends the next accepted records to the log, closes it, or leaves it alone. The
log's content is a fold over all part numbers, so the proof needs an induction over
data. The prover has no rule for one, but `LeastNumber` gets it from the
well-foundedness of `<`, and `EveryNumber` is its usual form; the fold is unfolded
by it one part at a time (`Seen`). `ClosedIsDone` is what `WriterInv` lacked: a
closed writer has nothing left to show. Only the liveness of the close in
`WriterIsALog` is left to TLC.

**`PublicDataProofs`, the funding month.** For months of any length and any number of edits.
`SettledMonthIsWhole` speaks of the month file, which the view reads, while every
decision is taken from the sidecar; `FundingInv` therefore says what a settled
raw file and a settled sidecar vouch for (`SettledIsWhole`), that a settled
sidecar is of the month file and, unless that was moved, of the settled raw file
(`SidecarKnown`), what the job under way reads and may replace (`JobHasRaw`,
`BetweenFiles`), and that the open raw file reaches as far as whatever was made
of an earlier one while the range is the first (`FirstRange`, which is what
`ahead_of_cutoff` is for). `SettledMonthAlwaysWhole`, `CleanIsAlwaysSelected` and
`RefusalAlwaysExplained` follow.

`PrintsStayInView` is about the prints in the month file itself, not about the window
its sidecar records: a query reads what is in the listed files. It names the three ways
a print may leave the view of a range that was never changed. An answer of the venue for
an open month no longer has it: the smaller file replaces the larger, and the sync has
the hole as a gap to report (if it dies first, the next one reports it).
The operator acknowledged the hole. Or the operator moved the settled raw file aside and
a sync wrote the month again, with `--rebuild` or over a file whose own sidecar was never
written. TLC refutes the property without any one of them. `PrintsInv` is what its proof
needs: a file has prints of its window only (`RowsInWindow`), the open raw file reaches as
far as the month file even if that has no sidecar (`FirstFile`), a listed file is selected
again (`ListedStays`), and a month written or audited without a gap has every print up to
the cutoff (`WholeOnceClean`). `PrintsAlwaysStay` and `CleanAlwaysWhole` follow. `CleanIsWhole`,
`CleanIsSelected` and `RefusalExplained` are proved only, no run repeats them.

**`PublicDataProofs`, the followed books.** For any levels, any buffer and any number of
changes, requests, faults and sessions. `RecordIsTheBook` speaks only of what was recorded, one
frame at a time, so `BooksInv` carries the reason from the wire to the record.
`FrameContinuesBook` is its core: a frame that begins at or before the change
after the book's, and does not end before the book's, brings the book to the frame's own
last change (by `LastChange`, that a level set in a range has a last change there, from the
well-foundedness of `<`). Everything else keeps that frame condition true:
`HeldInOrder` for the updates held back, which `NewerFollow` hands to the snapshot
(Standard checks only the first of them there, because each was checked
when it was held back), `ReleasedFollows` for what was accepted, and `LastIsAt`,
that the last accepted sequence number is the change the record will have reached.
That fails once OKX has renumbered, when two frames of the same numbers could be
different changes; what saves it is `NothingLost`, that an OKX feed without faults
still has every change on the way or in the record, and `OneOrTheOther`, the assumption
that a venue does not both renumber and lose frames. `RecordAlwaysTheBook` follows.
`BooksTyped` adds that every frame is of changes the venue has made: hence
`BooksTypeCorrect`, and `NeverAheadOfVenue`, without which a record could be the book of a
change that has not happened.

**`CaptureAlertsProofs`.** For any set of required streams and any number of
attempts. Neither property is inductive: an alert is decided when a file is read or a thread is
started, and sent while the run goes on. `AlertsInv` says what keeps it true meanwhile.
`Failing` is that the run cannot come to report COMPLETED, in terms of what stands
between it and its report at each step (a profile that failed, the error to be
raised, the verdict), and is never left; whoever says FAILED, or holds what it will
be said from, does so of such a run (`FailedIsTrue`). `DeadIsTrue`: once the process
was seen gone, what is read of the report is what will stand, which is why the
process must be looked for first. `LaneInOrder`: after the lane's shutdown only the threads that
outlived it may still note a delivery, which the notes then miss. `RunInOrder` ties
files and emissions to the step of the run. `AlertsAlwaysAgree` and
`CollectorAlwaysTellsOnce` follow.

Only model-checked: `EveryFailureTold`, `ExitCompletes`, `FatalReachesConsumer`,
`EveryBatchTaken`, `CaptureResumes` and the close in `WriterIsALog` (liveness under fairness is
outside the prover). Every safety property of a passing run is a theorem.

## 5. Not modelled

* **PAPER replay.** Loading, de-duplicating, sorting and feeding a tape is one
  pass over data. `PaperEngine` accepts every feed, repeats and late events
  included, so nothing it promises rests on the loader. The loader's memory of
  seen trades is bounded (replay.py:215); what a repeat beyond it does is a trade
  print the engine may receive anyway.
* **Storage and clock checks, capacity admission.** They look at the host at one
  moment and raise or not; in the supervisor and the campaign each of them is a
  failure that may come at any time. Their thresholds are arithmetic over
  samples and say nothing about order.
* **The rest of the alerts.** `STALE`, which is thresholds over file times, the dry run
  and the test command, the tmux probe and the environment file. What the receiver
  makes of a repeated key is not in the repository. The other venues call the terminal
  hook without a lane, a part of what is modelled.
* **Historical downloads and conversions.** A sequential batch whose files appear by a rename. The
  open question, a download without a checksum resumed after the remote file
  changed, is decided by the remote server and the HTTP library; the code
  cannot tell the mixed file from a good one, and no document claims it can.
* **The rest of the collectors.** The heartbeat of the Hyperliquid client beyond
  that it may fail; the trade, ticker and candle channels of the other venues,
  which validate one frame at a time; Kraken's book, whose correctness is a
  checksum over its best levels; Binance's reconnect ledger and open-interest
  poll; the run directory each collector seals at its end.
* **Event schema and provenance.** `data_provenance.py` and `market_event_v3.py`, a
  quarter of the code, build immutable records in validating constructors; there
  is no step between which anything could happen.
* **Research, catalogues, cockpit, control service.** Numerical analysis over
  files and read-only views.
