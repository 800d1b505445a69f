--------------------------- MODULE CaptureAlerts ---------------------------
(***************************************************************************)
(* The alerts of one Binance capture: who tells the operator's webhook that *)
(* a run failed, and how often.  Three senders share one idempotency scheme *)
(* and one directory of receipts:                                          *)
(*   a lane thread per required profile that failed while the others run,  *)
(*   the terminal hook of run_reconstructable_capture, and                 *)
(*   the external checker, a command a timer starts, which sees only the   *)
(*   files of the run and whether its process exists.                      *)
(* The process may die at any step; a POST may be lost on either way.      *)
(***************************************************************************)
EXTENDS Naturals

CONSTANTS
    Profiles,   \* the required public streams
    Attempts    \* CAPTURE_ALERT_WEBHOOK_ATTEMPTS

ASSUME AttemptsAssumption == Attempts \in Nat \ {0}
ASSUME ProfilesAssumption == Profiles \cap {"terminal", "checker", "oi", "close", "none"} = {}

VARIABLES
    capture,    \* where run_reconstructable_capture is, "gone" without a process
    url,        \* the webhook URL is in the collector's environment
    stopped,    \* operator_stopped
    broken,     \* profile_failures
    preserved,  \* preserved_profile_failure
    terminal,   \* the error that ends the run
    marked,     \* _webhook_delivered_error_ids, by profile
    noted,      \* the copy of it in capture_notes
    outlived,   \* the profiles whose thread the lane's shutdown did not wait out
    claimed,    \* capture-claim.json exists
    live,       \* definitive_outage of capture-live.json
    verdict,    \* the run's status
    report,     \* capture-health.json: its status, "absent" or "torn"
    emission,   \* emit_capture_operator_alert of each sender
    checkAt,    \* where the checker is
    probe,      \* what it has read: the process, the report
    receipts,   \* the keys of the receipt directory
    got         \* what reached the receiver: sender and state

collector == <<capture, stopped, broken, preserved, terminal, noted, outlived, verdict>>
runFiles == <<claimed, live, report>>
check == <<checkAt, probe>>
alertVars == <<capture, url, stopped, broken, preserved, terminal, marked, noted, outlived,
               claimed, live, verdict, report, emission, checkAt, probe, receipts, got>>

\* An error is what raised it and its class.  "ended" is a profile that
\* returned: no exception, the collector makes a BinanceTransportError of it.
RaisedKinds == {"integrity", "sink", "transport"}
NoError == [from |-> "none", kind |-> "none"]
ProfileErrors == [from : Profiles, kind : RaisedKinds \cup {"ended"}]
OpenInterestErrors == [from : {"oi"}, kind : RaisedKinds]
CloseError == [from |-> "close", kind |-> "storage"]
Errors == ProfileErrors \cup OpenInterestErrors \cup {CloseError}

\* capture_alert_idempotency_key: one run, so the state and the reason.  The
\* message of an error is that of its class, whichever profile raised it.
Key(state, form, of) == [state |-> state, form |-> form, of |-> of]
Kinds == RaisedKinds \cup {"ended", "storage"}
Keys == [state : {"FAILED", "DEAD"},
         form : {"message", "class: message", "redacted", "fixed"},
         of : Kinds \cup {"any"}]
FailedKey(e) == Key("FAILED", "message", e.kind)

\* The checker's reason puts the class before the message, and sanitize_alert_error_message
\* redacts a word of 24 letters or more: BinanceDataIntegrityError has 25.
ReasonKey(e) ==
    IF e = NoError THEN Key("FAILED", "fixed", "any")
    ELSE IF e.kind = "integrity" THEN Key("FAILED", "redacted", "any")
    ELSE Key("FAILED", "class: message", e.kind)

Senders == Profiles \cup {"terminal", "checker"}
Idle == [at |-> "idle", key |-> Key("DEAD", "fixed", "any"), left |-> 0]
Emit(key) == [at |-> "check", key |-> key, left |-> Attempts]
Done == [Idle EXCEPT !.at = "done"]
Emissions == [at : {"idle", "check", "post", "mark", "done"}, key : Keys, left : 0 .. Attempts]

TerminalOk == {"COMPLETED", "OPERATOR_STOP"}
Nothing == [alive |-> TRUE, report |-> "absent"]

AlertsTypeOK ==
    /\ capture \in {"starting", "capturing", "draining", "closing", "reporting",
                    "filling", "hooking", "alerting", "gone"}
    /\ url \in BOOLEAN /\ stopped \in BOOLEAN /\ claimed \in BOOLEAN
    /\ broken \subseteq ProfileErrors
    /\ preserved \in ProfileErrors \cup {NoError} /\ live \in ProfileErrors \cup {NoError}
    /\ terminal \in Errors \cup {NoError}
    /\ marked \subseteq Profiles /\ noted \subseteq Profiles /\ outlived \subseteq Profiles
    /\ verdict \in TerminalOk \cup {"FAILED"} /\ report \in TerminalOk \cup {"FAILED", "absent", "torn"}
    /\ emission \in [Senders -> Emissions]
    /\ checkAt \in {"idle", "probed", "read", "sending"}
    /\ probe \in [alive : BOOLEAN, report : TerminalOk \cup {"FAILED", "absent", "torn"}]
    /\ receipts \subseteq Keys /\ got \subseteq [by : Senders, state : {"FAILED", "DEAD"}]

AlertsInit ==
    /\ capture = "starting" /\ url \in BOOLEAN
    /\ stopped = FALSE /\ claimed = FALSE
    /\ broken = {} /\ preserved = NoError /\ terminal = NoError /\ live = NoError
    /\ marked = {} /\ noted = {} /\ outlived = {}
    /\ verdict = "FAILED" /\ report = "absent"
    /\ emission = [s \in Senders |-> Idle]
    /\ checkAt = "idle" /\ probe = Nothing
    /\ receipts = {} /\ got = {}

-----------------------------------------------------------------------------
(* The collector: capture_for, run_bounded_capture and the terminal hook.  *)

WriteCaptureClaim ==
    /\ capture = "starting"
    /\ capture' = "capturing" /\ claimed' = TRUE
    /\ UNCHANGED <<url, stopped, broken, preserved, terminal, marked, noted, outlived,
                   live, verdict, report, emission, check, receipts, got>>

\* A required profile ends while the capture runs: _notice_definitive_profile_failure
\* publishes the live status, which the disk may refuse, and submits the alert.
NoticeFailure(e) ==
    /\ capture = "capturing"
    /\ \A other \in broken : other.from # e.from
    /\ broken' = broken \cup {e}
    /\ preserved' = IF preserved = NoError THEN e ELSE preserved
    /\ live' \in {live, preserved'}
    /\ emission' = [emission EXCEPT ![e.from] = Emit(FailedKey(e))]
    /\ UNCHANGED <<capture, url, stopped, terminal, marked, noted, outlived,
                   claimed, verdict, report, check, receipts, got>>

\* _publish_live_until, every five seconds.
PublishLive ==
    /\ capture = "capturing"
    /\ live' = preserved
    /\ UNCHANGED <<collector, url, marked, claimed, report, emission, check, receipts, got>>

\* SIGINT or SIGTERM.
OperatorStops ==
    /\ capture # "gone" /\ ~ stopped
    /\ stopped' = TRUE
    /\ UNCHANGED <<capture, url, broken, preserved, terminal, marked, noted, outlived,
                   runFiles, verdict, emission, check, receipts, got>>

OfKind(errors, kind) == {e \in errors : e.kind = kind}
Raised(errors) == {e \in errors : e.kind # "ended"}

\* What capture_for raises once everything has unwound: integrity first, then a
\* failed sink; an operator's stop wins over the rest.  Of several errors of one
\* rank the code takes the first, the model any.
Raises(profile, oi, operator) ==
    LET all == profile \cup oi IN
    IF OfKind(oi, "integrity") # {} THEN OfKind(oi, "integrity")
    ELSE IF OfKind(profile, "integrity") # {} THEN OfKind(profile, "integrity")
    ELSE IF OfKind(all, "sink") # {} THEN OfKind(all, "sink")
    ELSE IF operator THEN {NoError}
    ELSE IF oi # {} THEN oi
    ELSE IF Raised(profile) # {} THEN Raised(profile)
    ELSE IF profile # {} THEN profile
    ELSE {NoError}

\* The loop ends for the operator, for the time or because no stream is left;
\* streams and the open-interest poll may still raise while they unwind, and
\* nobody notices those errors with an alert.
StopCapture ==
    /\ capture = "capturing"
    /\ \E operator \in BOOLEAN, late \in SUBSET ProfileErrors, oi \in SUBSET OpenInterestErrors :
           /\ operator => stopped
           /\ \A e \in late : e.kind # "ended" /\ \A other \in (broken \cup late) \ {e} : other.from # e.from
           /\ \A e, other \in oi : e = other
           /\ terminal' \in Raises(broken \cup late, oi, operator)
    /\ live' \in {live, preserved}
    /\ capture' = "draining" /\ broken' = {}
    /\ UNCHANGED <<url, stopped, preserved, marked, noted, outlived,
                   claimed, verdict, report, emission, check, receipts, got>>

Sending(s) == emission[s].at \notin {"idle", "done"}

\* CaptureAlertLane.shutdown: all threads have ended, or the time is up.
DrainLane ==
    /\ capture = "draining"
    /\ outlived' = {p \in Profiles : Sending(p)}
    /\ capture' = "closing"
    /\ UNCHANGED <<url, stopped, broken, preserved, terminal, marked, noted,
                   runFiles, verdict, emission, check, receipts, got>>

\* run_bounded_capture takes its notes, closes the writer and builds the
\* catalogue; an error there replaces the capture's own.
CloseCapture ==
    /\ capture = "closing"
    /\ noted' = marked
    /\ terminal' \in {terminal, CloseError}
    /\ verdict' = IF terminal' # NoError THEN "FAILED"
                  ELSE IF stopped THEN "OPERATOR_STOP" ELSE "COMPLETED"
    /\ capture' = "reporting"
    /\ UNCHANGED <<url, stopped, broken, preserved, marked, outlived,
                   runFiles, emission, check, receipts, got>>

\* write_health_then_alert: the file is created, then filled; either may fail
\* and neither keeps the alert back.
CreateReport ==
    /\ capture = "reporting"
    /\ \/ capture' = "filling" /\ report' = "torn"
       \/ capture' = "hooking" /\ UNCHANGED report
    /\ UNCHANGED <<url, stopped, broken, preserved, terminal, marked, noted, outlived,
                   claimed, live, verdict, emission, check, receipts, got>>
FillReport ==
    /\ capture = "filling"
    /\ capture' = "hooking"
    /\ report' \in {report, verdict}
    /\ UNCHANGED <<url, stopped, broken, preserved, terminal, marked, noted, outlived,
                   claimed, live, verdict, emission, check, receipts, got>>

\* The process ends: its memory and its daemon threads go with it.
Leaves ==
    /\ capture' = "gone" /\ stopped' = FALSE /\ broken' = {} /\ terminal' = NoError
    /\ marked' = {} /\ noted' = {} /\ outlived' = {} /\ verdict' = "FAILED"
    /\ emission' = [s \in Senders |-> IF s = "checker" THEN emission[s] ELSE Idle]
    /\ UNCHANGED <<url, preserved, runFiles, check, receipts, got>>

\* A mutant: as the hooks of the other venues are called, without skip_alert.
SkipNothing == FALSE
AlreadyDelivered == terminal.from \in noted

TerminalHook ==
    /\ capture = "hooking"
    /\ verdict = "FAILED" /\ ~ AlreadyDelivered
    /\ capture' = "alerting"
    /\ emission' = [emission EXCEPT !["terminal"] = Emit(FailedKey(terminal))]
    /\ UNCHANGED <<url, stopped, broken, preserved, terminal, marked, noted, outlived,
                   runFiles, verdict, check, receipts, got>>
Exit ==
    /\ \/ capture = "hooking" /\ (verdict # "FAILED" \/ AlreadyDelivered)
       \/ capture = "alerting" /\ ~ Sending("terminal")
    /\ Leaves

Killed == capture # "gone" /\ Leaves

-----------------------------------------------------------------------------
(* One emission: emit_capture_operator_alert with its bounded retries.     *)

Reaches(s) == s = "checker" \/ url
\* A lane thread that delivered notes it before it ends.
Delivered(s) == IF s \in Profiles THEN [Idle EXCEPT !.at = "mark"] ELSE Done

EmitCheck(s) ==
    /\ emission[s].at = "check"
    /\ emission' = [emission EXCEPT ![s] =
                        IF emission[s].key \in receipts THEN Delivered(s)
                        ELSE IF Reaches(s) THEN [emission[s] EXCEPT !.at = "post"] ELSE Done]
    /\ UNCHANGED <<collector, url, marked, runFiles, check, receipts, got>>

Message(s) == [by |-> s, state |-> emission[s].key.state]

\* write_alert_receipt follows the answer; an OSError of it is logged.
PostAnswered(s) ==
    /\ emission[s].at = "post"
    /\ got' = got \cup {Message(s)}
    /\ receipts' \in {receipts, receipts \cup {emission[s].key}}
    /\ emission' = [emission EXCEPT ![s] = Delivered(s)]
    /\ UNCHANGED <<collector, url, marked, runFiles, check>>

\* Another attempt of the budget, or none.
Retried(m) == IF m.left > 1 THEN [m EXCEPT !.left = m.left - 1] ELSE Done

\* A timeout, a broken connection or a transient status: the request may have
\* arrived.  Other statuses are not tried again.
PostFails(s) ==
    /\ emission[s].at = "post"
    /\ \/ /\ got' \in {got, got \cup {Message(s)}}
          /\ emission' = [emission EXCEPT ![s] = Retried(emission[s])]
       \/ emission' = [emission EXCEPT ![s] = Done] /\ UNCHANGED got
    /\ UNCHANGED <<collector, url, marked, runFiles, check, receipts>>

Mark(p) ==
    /\ emission[p].at = "mark"
    /\ marked' = marked \cup {p}
    /\ emission' = [emission EXCEPT ![p] = Done]
    /\ UNCHANGED <<collector, url, runFiles, check, receipts, got>>

-----------------------------------------------------------------------------
(* The checker: capture_alert_cli watch --send, started by a timer.        *)

\* process_alive_for_run, before any file is read.
StartCheck ==
    /\ checkAt = "idle"
    /\ checkAt' = "probed"
    /\ probe' = [probe EXCEPT !.alive = capture # "gone"]
    /\ UNCHANGED <<collector, url, marked, runFiles, emission, receipts, got>>

\* load_capture_watch_snapshot: no claim, no run.
ReadReport ==
    /\ checkAt = "probed"
    /\ IF claimed THEN checkAt' = "read" /\ probe' = [probe EXCEPT !.report = report]
       ELSE checkAt' = "idle" /\ probe' = Nothing
    /\ UNCHANGED <<collector, url, marked, runFiles, emission, receipts, got>>

\* A mutant: the process is looked for after the files were read.
FindingsBeforeProbe ==
    IF probe.report \in TerminalOk THEN {}
    ELSE IF probe.report = "FAILED" THEN {ReasonKey(preserved)}
    ELSE IF live # NoError THEN {ReasonKey(live)}
    ELSE IF capture = "gone" THEN {Key("DEAD", "fixed", "any")}
    ELSE {}
\* A mutant: a report that cannot be read is taken for one.
FindingsOfAnyReport ==
    IF probe.report \in TerminalOk \cup {"torn"} THEN {}
    ELSE IF probe.report = "FAILED" THEN {ReasonKey(preserved)}
    ELSE IF live # NoError THEN {ReasonKey(live)}
    ELSE IF ~ probe.alive THEN {Key("DEAD", "fixed", "any")}
    ELSE {}
\* evaluate_capture_watch of a run within its lookback.  A torn report is no
\* report.  STALE, which has a key of its own, is left out.
Findings ==
    IF probe.report \in TerminalOk THEN {}
    ELSE IF probe.report = "FAILED" THEN {ReasonKey(preserved)}
    ELSE IF live # NoError THEN {ReasonKey(live)}
    ELSE IF ~ probe.alive THEN {Key("DEAD", "fixed", "any")}
    ELSE {}

JudgeRun ==
    /\ checkAt = "read"
    /\ probe' = Nothing
    /\ \/ \E key \in Findings :
              checkAt' = "sending" /\ emission' = [emission EXCEPT !["checker"] = Emit(key)]
       \/ /\ Findings = {}
          /\ checkAt' = "idle" /\ UNCHANGED emission
    /\ UNCHANGED <<collector, url, marked, runFiles, receipts, got>>

EndCheck ==
    /\ checkAt = "sending" /\ ~ Sending("checker")
    /\ checkAt' = "idle"
    /\ emission' = [emission EXCEPT !["checker"] = Idle]
    /\ UNCHANGED <<collector, url, marked, runFiles, probe, receipts, got>>

-----------------------------------------------------------------------------

Collector ==
    \/ WriteCaptureClaim \/ (\E e \in ProfileErrors : NoticeFailure(e)) \/ PublishLive
    \/ OperatorStops \/ StopCapture \/ DrainLane \/ CloseCapture
    \/ CreateReport \/ FillReport \/ TerminalHook \/ Exit \/ Killed

Emitting(s) == EmitCheck(s) \/ PostAnswered(s) \/ PostFails(s)
Checking == StartCheck \/ ReadReport \/ JudgeRun \/ EndCheck

CheckerStep == Checking \/ Emitting("checker")

AlertsNext ==
    \/ Collector \/ CheckerStep
    \/ \E s \in Senders \ {"checker"} : Emitting(s)
    \/ \E p \in Profiles : Mark(p)

AlertsSpec == AlertsInit /\ [][AlertsNext]_alertVars

-----------------------------------------------------------------------------
(* What makes the alerts correct.                                          *)

\* No alert contradicts the run's own report, whatever the checker read when: a
\* run told to be dead is gone without a whole report, and a run told to have
\* failed never reports that it completed.
\* (_watch_command asks for the process before it reads the files;
\* _notice_definitive_profile_failure and the errors capture_for raises.)
AlertsAgreeWithReport ==
    \A m \in got :
        /\ m.state = "DEAD" => capture = "gone" /\ report \in {"absent", "torn"}
        /\ m.state = "FAILED" => report # "COMPLETED"

\* The collector does not tell of one failure twice: the terminal hook repeats
\* only a lane's alert that was not known to have arrived when the lane's time
\* was up, even if no receipt could be written.
\* (CaptureAlertLane.shutdown, capture_notes, skip_alert.)
CollectorTellsOnce ==
    \A p \in marked :
        [by |-> "terminal", state |-> "FAILED"] \in got /\ terminal.from = p => p \in outlived

\* A claimed run that is gone reported an end in order, or the operator is told
\* of it: over deaths at any step, reports that cannot be written, a collector
\* without the webhook's URL, lost POSTs and lost receipts.
\* (evaluate_capture_watch, emit_capture_operator_alert.)
EveryFailureTold ==
    capture = "gone" /\ claimed ~>
        \/ report \in TerminalOk
        \/ \E m \in got : m.state \in {"FAILED", "DEAD"}
=============================================================================
