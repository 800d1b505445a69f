------------------------ MODULE CaptureAlertsProofs ------------------------
(***************************************************************************)
(* The alerts of a Binance capture agree with its report, and the collector *)
(* tells of one failure once: for any set of required streams and any       *)
(* number of attempts.                                                     *)
(***************************************************************************)
EXTENDS CaptureAlerts, TLAPS

Running == {"capturing", "draining", "closing"}
Ending == {"reporting", "filling", "hooking", "alerting"}
Gaps == {"absent", "torn"}

Posting(s) == emission[s].at \in {"check", "post"}

\* Which files and emissions there may be where the capture is.
RunInOrder ==
    /\ broken # {} => capture = "capturing"
    /\ capture \in {"starting", "reporting"} \cup Running => report = "absent"
    /\ capture = "filling" => report = "torn"
    /\ capture \in {"hooking", "alerting"} => report \in Gaps \cup {verdict}
    /\ Posting("terminal") => capture = "alerting"
    /\ capture \in Ending /\ verdict = "FAILED" => terminal # NoError
    /\ capture = "gone" => marked = {} /\ \A p \in Profiles : ~ Sending(p)

\* The run cannot report any more that it completed.
Failing ==
    \/ broken # {}
    \/ capture \in {"draining", "closing"} /\ (terminal # NoError \/ stopped)
    \/ capture \in Ending /\ verdict # "COMPLETED"
    \/ capture = "gone" /\ report # "COMPLETED"

\* Whoever says FAILED, or is about to, says it of such a run.
Silent ==
    /\ preserved = NoError /\ live = NoError
    /\ report # "FAILED" /\ probe.report # "FAILED"
    /\ \A s \in Senders : Posting(s) => emission[s].key.state # "FAILED"
    /\ \A m \in got : m.state # "FAILED"
FailedIsTrue == Failing \/ Silent

\* DEAD is concluded from a report that was read when the process was gone.
OverWithoutReport == capture = "gone" /\ report \in Gaps
DeadIsTrue ==
    /\ checkAt \in {"probed", "read"} /\ ~ probe.alive => capture = "gone"
    /\ checkAt = "read" /\ ~ probe.alive => probe.report = report
    /\ \A s \in Senders : Posting(s) /\ emission[s].key.state = "DEAD" => OverWithoutReport
    /\ \A m \in got : m.state = "DEAD" => OverWithoutReport

\* What the lane's threads may still do once the lane is closed.
LaneInOrder ==
    /\ [by |-> "terminal", state |-> "FAILED"] \in got => capture \in {"alerting", "gone"}
    /\ capture = "alerting" => terminal.from \notin noted
    /\ capture \in Ending => marked \subseteq noted \cup outlived
    /\ capture \in {"closing"} \cup Ending => \A p \in Profiles \ outlived : ~ Sending(p)

AlertsInv == AlertsTypeOK /\ RunInOrder /\ FailedIsTrue /\ DeadIsTrue /\ LaneInOrder
-----------------------------------------------------------------------------
(* Types.                                                                  *)

LEMMA KeyTypes ==
    /\ \A e \in Errors : FailedKey(e) \in Keys /\ FailedKey(e).state = "FAILED"
    /\ \A e \in ProfileErrors \cup {NoError} :
           ReasonKey(e) \in Keys /\ ReasonKey(e).state = "FAILED"
    /\ Key("DEAD", "fixed", "any") \in Keys
    /\ Idle \in Emissions /\ Done \in Emissions
    /\ \A key \in Keys : Emit(key) \in Emissions
    /\ \A s : Delivered(s) \in Emissions
<1>1. \A e \in Errors : e.kind \in Kinds
    BY DEF Errors, ProfileErrors, OpenInterestErrors, CloseError, Kinds
<1>2. \A e \in ProfileErrors : e \in Errors
    BY DEF Errors
<1>3. \A e \in Errors : FailedKey(e) \in Keys /\ FailedKey(e).state = "FAILED"
    BY <1>1 DEF FailedKey, Key, Keys
<1>4. \A e \in ProfileErrors \cup {NoError} :
         ReasonKey(e) \in Keys /\ ReasonKey(e).state = "FAILED"
    BY <1>1, <1>2 DEF ReasonKey, Key, Keys
<1>5. Key("DEAD", "fixed", "any") \in Keys
    BY DEF Key, Keys
<1>6. Idle \in Emissions
    BY <1>5, AttemptsAssumption DEF Idle, Emissions
<1>7. \A s : Done \in Emissions /\ Delivered(s) \in Emissions
    BY <1>6 DEF Done, Delivered, Idle, Emissions
<1>8. \A key \in Keys : Emit(key) \in Emissions
    BY AttemptsAssumption DEF Emit, Emissions
<1> QED
    BY <1>3, <1>4, <1>5, <1>6, <1>7, <1>8

\* Nobody's error is none, and capture_for returns without one only for the
\* operator or when no profile failed.
LEMMA ErrorRaised ==
    ASSUME NEW profile \in SUBSET ProfileErrors, NEW oi \in SUBSET OpenInterestErrors,
           NEW operator \in BOOLEAN, NEW e \in Raises(profile, oi, operator)
    PROVE  /\ e \in Errors \cup {NoError}
           /\ e = NoError => operator \/ profile = {}
<1>1. NoError \notin Errors
    BY DEF NoError, Errors, ProfileErrors, OpenInterestErrors, CloseError, RaisedKinds
<1>2. profile \subseteq Errors /\ oi \subseteq Errors
    BY DEF Errors
<1> QED
    BY <1>1, <1>2 DEF Raises, OfKind, Raised

LEMMA TypesInit == AlertsInit => AlertsTypeOK
<1> SUFFICES ASSUME AlertsInit
             PROVE  AlertsTypeOK
    OBVIOUS
<1>1. emission \in [Senders -> Emissions]
    BY KeyTypes DEF AlertsInit
<1>2. probe \in [alive : BOOLEAN, report : TerminalOk \cup {"FAILED", "absent", "torn"}]
    BY DEF AlertsInit, Nothing
<1> QED
    BY <1>1, <1>2 DEF AlertsInit, AlertsTypeOK

LEMMA TypesStep == AlertsInv /\ [AlertsNext]_alertVars => AlertsTypeOK'
<1> SUFFICES ASSUME AlertsInv, [AlertsNext]_alertVars
             PROVE  AlertsTypeOK'
    OBVIOUS
<1> USE DEF AlertsInv, AlertsTypeOK
<1>1. CASE WriteCaptureClaim
    BY <1>1 DEF WriteCaptureClaim, check
<1>2. ASSUME NEW e \in ProfileErrors, NoticeFailure(e)
      PROVE  AlertsTypeOK'
    <2>1. e.from \in Senders /\ Emit(FailedKey(e)) \in Emissions
        BY KeyTypes DEF ProfileErrors, Senders, Errors
    <2> QED
        BY <1>2, <2>1 DEF NoticeFailure, check
<1>3. CASE PublishLive
    BY <1>3 DEF PublishLive, collector, check
<1>4. CASE OperatorStops
    BY <1>4 DEF OperatorStops, runFiles, check
<1>5. CASE StopCapture
    <2>1. terminal' \in Errors \cup {NoError}
        <3>1. PICK operator \in BOOLEAN, late \in SUBSET ProfileErrors, oi \in SUBSET OpenInterestErrors :
                  terminal' \in Raises(broken \cup late, oi, operator)
            BY <1>5 DEF StopCapture
        <3> QED
            BY <3>1, ErrorRaised
    <2> QED
        BY <1>5, <2>1 DEF StopCapture, check
<1>6. CASE DrainLane
    BY <1>6 DEF DrainLane, runFiles, check
<1>7. CASE CloseCapture
    BY <1>7 DEF CloseCapture, runFiles, check, Errors, TerminalOk
<1>8. CASE CreateReport
    BY <1>8 DEF CreateReport, check
<1>9. CASE FillReport
    BY <1>9 DEF FillReport, check
<1>10. CASE TerminalHook
    <2>1. Emit(FailedKey(terminal)) \in Emissions
        BY <1>10, KeyTypes DEF TerminalHook, RunInOrder, Ending
    <2> QED
        BY <1>10, <2>1 DEF TerminalHook, runFiles, check, Senders
<1>11. CASE Leaves
    BY <1>11, KeyTypes DEF Leaves, runFiles, check
<1>12. ASSUME NEW s \in Senders, Emitting(s)
       PROVE  AlertsTypeOK'
    <2>1. emission' \in [Senders -> Emissions]
        <3>1. CASE EmitCheck(s)
            BY <3>1, KeyTypes DEF EmitCheck, Emissions
        <3>2. CASE PostAnswered(s)
            BY <3>2, KeyTypes DEF PostAnswered
        <3>3. CASE PostFails(s)
            <4>1. Retried(emission[s]) \in Emissions
                BY AttemptsAssumption, KeyTypes DEF Retried, Emissions
            <4> QED
                BY <3>3, <4>1, KeyTypes DEF PostFails
        <3> QED
            BY <1>12, <3>1, <3>2, <3>3 DEF Emitting
    <2>2. Message(s) \in [by : Senders, state : {"FAILED", "DEAD"}] /\ emission[s].key \in Keys
        BY DEF Message, Emissions, Keys
    <2>3. receipts' \subseteq Keys /\ got' \subseteq [by : Senders, state : {"FAILED", "DEAD"}]
        BY <1>12, <2>2 DEF Emitting, EmitCheck, PostAnswered, PostFails
    <2> QED
        BY <1>12, <2>1, <2>3 DEF Emitting, EmitCheck, PostAnswered, PostFails, collector, runFiles, check
<1>13. ASSUME NEW p \in Profiles, Mark(p)
       PROVE  AlertsTypeOK'
    BY <1>13, KeyTypes DEF Mark, collector, runFiles, check, Senders
<1>14. CASE StartCheck
    <2>1. probe'.alive \in BOOLEAN /\ probe' = [probe EXCEPT !.alive = probe'.alive]
        BY <1>14 DEF StartCheck
    <2> QED
        BY <1>14, <2>1 DEF StartCheck, collector, runFiles
<1>15. CASE ReadReport
    <2>1. probe' \in {[probe EXCEPT !.report = report], Nothing}
        BY <1>15 DEF ReadReport
    <2>2. probe' \in [alive : BOOLEAN, report : TerminalOk \cup {"FAILED", "absent", "torn"}]
        <3>1. [probe EXCEPT !.report = report]
                  \in [alive : BOOLEAN, report : TerminalOk \cup {"FAILED", "absent", "torn"}]
            OBVIOUS
        <3>2. Nothing \in [alive : BOOLEAN, report : TerminalOk \cup {"FAILED", "absent", "torn"}]
            BY DEF Nothing
        <3> QED
            BY <2>1, <3>1, <3>2
    <2> QED
        BY <1>15, <2>2 DEF ReadReport, collector, runFiles
<1>16. CASE JudgeRun
    <2>1. \A key \in Findings : Emit(key) \in Emissions
        BY KeyTypes DEF Findings
    <2> QED
        BY <1>16, <2>1 DEF JudgeRun, collector, runFiles, Nothing, Senders
<1>17. CASE EndCheck
    BY <1>17, KeyTypes DEF EndCheck, collector, runFiles, Senders
<1>18. CASE UNCHANGED alertVars
    BY <1>18 DEF alertVars, collector, runFiles, check
<1> QED
    BY <1>1, <1>2, <1>3, <1>4, <1>5, <1>6, <1>7, <1>8, <1>9, <1>10, <1>11, <1>12, <1>13, <1>14, <1>15,
       <1>16, <1>17, <1>18
    DEF AlertsNext, Collector, CheckerStep, Checking, Exit, Killed, Senders
-----------------------------------------------------------------------------
(* Senders and their emissions.                                            *)

LEMMA SenderNames ==
    /\ "terminal" \in Senders \ Profiles /\ "checker" \in Senders \ Profiles
    /\ Profiles \subseteq Senders
    /\ \A e \in ProfileErrors : e.from \in Profiles
BY ProfilesAssumption DEF Senders, ProfileErrors

\* An emission at work only goes on with its own key, and ends.
LEMMA EmissionsEnd ==
    ASSUME AlertsInv, NEW s \in Senders, Emitting(s) \/ (s \in Profiles /\ Mark(s))
    PROVE  \A t \in Senders :
               /\ Posting(t)' => Posting(t) /\ emission'[t].key = emission[t].key
               /\ Sending(t)' => Sending(t)
<1>1. emission \in [Senders -> Emissions]
    BY DEF AlertsInv, AlertsTypeOK
<1>2. CASE EmitCheck(s)
    BY <1>1, <1>2 DEF EmitCheck, Posting, Sending, Delivered, Done, Idle
<1>3. CASE PostAnswered(s)
    BY <1>1, <1>3 DEF PostAnswered, Posting, Sending, Delivered, Done, Idle
<1>4. CASE PostFails(s)
    <2>1. \/ emission' = [emission EXCEPT ![s] = Retried(emission[s])]
          \/ emission' = [emission EXCEPT ![s] = Done]
        BY <1>4 DEF PostFails
    <2> QED
        BY <1>1, <1>4, <2>1 DEF PostFails, Retried, Posting, Sending, Done, Idle, Emissions
<1>5. CASE s \in Profiles /\ Mark(s)
    BY <1>1, <1>5 DEF Mark, Posting, Sending, Done, Idle
<1> QED
    BY <1>2, <1>3, <1>4, <1>5 DEF Emitting

\* What reaches the receiver was being posted.
LEMMA ReceivedWasPosted ==
    ASSUME NEW s \in Senders, Emitting(s)
    PROVE  \A m \in got' : m \in got \/ (Posting(s) /\ m = Message(s))
<1>1. emission[s].at = "post" \/ got' = got
    BY DEF Emitting, EmitCheck, PostAnswered, PostFails
<1>2. got' \in {got, got \cup {Message(s)}}
    BY DEF Emitting, EmitCheck, PostAnswered, PostFails
<1> QED
    BY <1>1, <1>2 DEF Posting

-----------------------------------------------------------------------------
(* The run in order.                                                       *)

LEMMA RunInOrderStep == AlertsInv /\ [AlertsNext]_alertVars => RunInOrder'
<1> SUFFICES ASSUME AlertsInv, [AlertsNext]_alertVars
             PROVE  RunInOrder'
    OBVIOUS
<1>0. RunInOrder /\ emission \in [Senders -> Emissions]
    BY DEF AlertsInv, AlertsTypeOK
<1> USE <1>0, SenderNames DEF RunInOrder, Running, Ending, Gaps, Posting, Sending
<1>1. CASE WriteCaptureClaim
    BY <1>1 DEF WriteCaptureClaim
<1>2. ASSUME NEW e \in ProfileErrors, NoticeFailure(e)
      PROVE  RunInOrder'
    BY <1>2 DEF NoticeFailure
<1>3. CASE PublishLive
    BY <1>3 DEF PublishLive, collector
<1>4. CASE OperatorStops
    BY <1>4 DEF OperatorStops, runFiles
<1>5. CASE StopCapture
    BY <1>5 DEF StopCapture
<1>6. CASE DrainLane
    BY <1>6 DEF DrainLane, runFiles
<1>7. CASE CloseCapture
    BY <1>7 DEF CloseCapture, runFiles
<1>8. CASE CreateReport
    BY <1>8 DEF CreateReport
<1>9. CASE FillReport
    BY <1>9 DEF FillReport
<1>10. CASE TerminalHook
    BY <1>10 DEF TerminalHook, runFiles
<1>11. CASE Leaves
    BY <1>11 DEF Leaves, runFiles, Idle
<1>12. ASSUME NEW s \in Senders, Emitting(s)
       PROVE  RunInOrder'
    <2> HIDE DEF Posting, Sending
    <2>1. \A t \in Senders : (Posting(t)' => Posting(t)) /\ (Sending(t)' => Sending(t))
        BY <1>12, EmissionsEnd
    <2>2. (Posting("terminal")' => Posting("terminal")) /\ \A p \in Profiles : Sending(p)' => Sending(p)
        BY <2>1
    <2> QED
        BY <1>12, <2>1, <2>2 DEF Emitting, EmitCheck, PostAnswered, PostFails, collector, runFiles
<1>13. ASSUME NEW p \in Profiles, Mark(p)
       PROVE  RunInOrder'
    <2>1. Posting("terminal")' => Posting("terminal")
        BY <1>13, EmissionsEnd
    <2>2. capture # "gone"
        BY <1>13 DEF Mark
    <2> QED
        BY <1>13, <2>1, <2>2 DEF Mark, collector, runFiles
<1>14. CASE StartCheck
    BY <1>14 DEF StartCheck, collector, runFiles
<1>15. CASE ReadReport
    BY <1>15 DEF ReadReport, collector, runFiles
<1>16. CASE JudgeRun
    <2>1. \A s \in Senders \ {"checker"} : emission'[s] = emission[s]
        BY <1>16 DEF JudgeRun
    <2> QED
        BY <1>16, <2>1 DEF JudgeRun, collector, runFiles
<1>17. CASE EndCheck
    <2>1. \A s \in Senders \ {"checker"} : emission'[s] = emission[s]
        BY <1>17 DEF EndCheck
    <2> QED
        BY <1>17, <2>1 DEF EndCheck, collector, runFiles
<1>18. CASE UNCHANGED alertVars
    BY <1>18 DEF alertVars
<1> QED
    BY <1>1, <1>2, <1>3, <1>4, <1>5, <1>6, <1>7, <1>8, <1>9, <1>10, <1>11, <1>12, <1>13, <1>14, <1>15,
       <1>16, <1>17, <1>18
    DEF AlertsNext, Collector, CheckerStep, Checking, Exit, Killed, Senders
-----------------------------------------------------------------------------
(* Who says FAILED says it of a run that cannot complete.                  *)

LEMMA FailingStays == AlertsInv /\ [AlertsNext]_alertVars => (Failing => Failing')
<1> SUFFICES ASSUME AlertsInv, [AlertsNext]_alertVars, Failing
             PROVE  Failing'
    OBVIOUS
<1>0. RunInOrder
    BY DEF AlertsInv
<1> USE <1>0 DEF RunInOrder, Failing, Running, Ending, Gaps
<1>1. CASE WriteCaptureClaim
    BY <1>1 DEF WriteCaptureClaim, check
<1>2. ASSUME NEW e \in ProfileErrors, NoticeFailure(e)
      PROVE  Failing'
    BY <1>2 DEF NoticeFailure, check
<1>3. CASE PublishLive
    BY <1>3 DEF PublishLive, collector, check
<1>4. CASE OperatorStops
    BY <1>4 DEF OperatorStops, runFiles, check
<1>5. CASE StopCapture
    <2>1. PICK operator \in BOOLEAN, late \in SUBSET ProfileErrors, oi \in SUBSET OpenInterestErrors :
              (operator => stopped) /\ terminal' \in Raises(broken \cup late, oi, operator)
        BY <1>5 DEF StopCapture
    <2>2. broken # {} /\ broken \cup late \subseteq ProfileErrors
        BY <1>5 DEF StopCapture, AlertsInv, AlertsTypeOK
    <2>3. terminal' = NoError => stopped
        BY <2>1, <2>2, ErrorRaised
    <2> QED
        BY <1>5, <2>3 DEF StopCapture
<1>6. CASE DrainLane
    BY <1>6 DEF DrainLane, runFiles, check
<1>7. CASE CloseCapture
    BY <1>7 DEF CloseCapture, runFiles, check, CloseError, NoError
<1>8. CASE CreateReport
    BY <1>8 DEF CreateReport, check
<1>9. CASE FillReport
    BY <1>9 DEF FillReport, check
<1>10. CASE TerminalHook
    BY <1>10 DEF TerminalHook, runFiles, check
<1>11. CASE Leaves
    BY <1>11 DEF Leaves, runFiles, check
<1>12. ASSUME NEW s \in Senders, Emitting(s)
       PROVE  Failing'
    BY <1>12 DEF Emitting, EmitCheck, PostAnswered, PostFails, collector, runFiles, check
<1>13. ASSUME NEW p \in Profiles, Mark(p)
       PROVE  Failing'
    BY <1>13 DEF Mark, collector, runFiles, check
<1>14. CASE StartCheck
    BY <1>14 DEF StartCheck, collector, runFiles
<1>15. CASE ReadReport
    BY <1>15 DEF ReadReport, collector, runFiles
<1>16. CASE JudgeRun
    BY <1>16 DEF JudgeRun, collector, runFiles
<1>17. CASE EndCheck
    BY <1>17 DEF EndCheck, collector, runFiles
<1>18. CASE UNCHANGED alertVars
    BY <1>18 DEF alertVars, collector, runFiles, check
<1> QED
    BY <1>1, <1>2, <1>3, <1>4, <1>5, <1>6, <1>7, <1>8, <1>9, <1>10, <1>11, <1>12, <1>13, <1>14, <1>15,
       <1>16, <1>17, <1>18
    DEF AlertsNext, Collector, CheckerStep, Checking, Exit, Killed, Senders

LEMMA FailedIsTrueStep == AlertsInv /\ [AlertsNext]_alertVars => FailedIsTrue'
<1> SUFFICES ASSUME AlertsInv, [AlertsNext]_alertVars, Silent
             PROVE  Silent' \/ Failing'
    BY FailingStays DEF AlertsInv, FailedIsTrue
<1>0. RunInOrder /\ emission \in [Senders -> Emissions]
      /\ probe \in [alive : BOOLEAN, report : TerminalOk \cup {"FAILED", "absent", "torn"}]
    BY DEF AlertsInv, AlertsTypeOK
<1> USE <1>0 DEF Silent
<1>1. CASE WriteCaptureClaim
    BY <1>1 DEF WriteCaptureClaim, check, Posting
<1>2. ASSUME NEW e \in ProfileErrors, NoticeFailure(e)
      PROVE  Silent' \/ Failing'
    BY <1>2 DEF NoticeFailure, Failing
<1>3. CASE PublishLive
    BY <1>3 DEF PublishLive, collector, check, Posting
<1>4. CASE OperatorStops
    BY <1>4 DEF OperatorStops, runFiles, check, Posting
<1>5. CASE StopCapture
    BY <1>5 DEF StopCapture, check, Posting
<1>6. CASE DrainLane
    BY <1>6 DEF DrainLane, runFiles, check, Posting
<1>7. CASE CloseCapture
    BY <1>7 DEF CloseCapture, runFiles, check, Posting
<1>8. CASE CreateReport
    BY <1>8 DEF CreateReport, check, Posting
<1>9. CASE FillReport
    <2>1. CASE verdict = "FAILED"
        BY <1>9, <2>1 DEF FillReport, Failing, Ending
    <2>2. CASE verdict # "FAILED"
        BY <1>9, <2>2 DEF FillReport, check, Posting
    <2> QED
        BY <2>1, <2>2
<1>10. CASE TerminalHook
    BY <1>10 DEF TerminalHook, Failing, Ending
<1>11. CASE Leaves
    <2>1. \A s \in Senders : Posting(s)' => Posting(s) /\ emission'[s] = emission[s]
        BY <1>11 DEF Leaves, Posting, Idle
    <2> QED
        BY <1>11, <2>1 DEF Leaves, runFiles, check
<1>12. ASSUME NEW s \in Senders, Emitting(s)
       PROVE  Silent' \/ Failing'
    <2>1. \A t \in Senders : Posting(t)' => Posting(t) /\ emission'[t].key = emission[t].key
        BY <1>12, EmissionsEnd
    <2>2. \A m \in got' : m.state # "FAILED"
        BY <1>12, ReceivedWasPosted DEF Message
    <2> QED
        BY <1>12, <2>1, <2>2 DEF Emitting, EmitCheck, PostAnswered, PostFails, collector, runFiles, check
<1>13. ASSUME NEW p \in Profiles, Mark(p)
       PROVE  Silent' \/ Failing'
    <2>1. \A t \in Senders : Posting(t)' => Posting(t) /\ emission'[t].key = emission[t].key
        BY <1>13, SenderNames, EmissionsEnd
    <2> QED
        BY <1>13, <2>1 DEF Mark, collector, runFiles, check
<1>14. CASE StartCheck
    BY <1>14 DEF StartCheck, collector, runFiles, Posting
<1>15. CASE ReadReport
    BY <1>15 DEF ReadReport, collector, runFiles, Posting, Nothing
<1>16. CASE JudgeRun
    <2>1. \A key \in Findings : key.state # "FAILED"
        BY DEF Findings, Key
    <2> QED
        BY <1>16, <2>1 DEF JudgeRun, collector, runFiles, Posting, Emit, Nothing
<1>17. CASE EndCheck
    BY <1>17 DEF EndCheck, collector, runFiles, Posting, Idle
<1>18. CASE UNCHANGED alertVars
    BY <1>18 DEF alertVars, collector, runFiles, check, Posting
<1> QED
    BY <1>1, <1>2, <1>3, <1>4, <1>5, <1>6, <1>7, <1>8, <1>9, <1>10, <1>11, <1>12, <1>13, <1>14, <1>15,
       <1>16, <1>17, <1>18
    DEF AlertsNext, Collector, CheckerStep, Checking, Exit, Killed, Senders

-----------------------------------------------------------------------------
(* Who says DEAD says it of a run that is over.                            *)

LEMMA OverStays == AlertsInv /\ [AlertsNext]_alertVars
                       => /\ capture = "gone" => capture' = "gone" /\ report' = report
                          /\ OverWithoutReport => OverWithoutReport'
<1> SUFFICES ASSUME AlertsInv, [AlertsNext]_alertVars, capture = "gone"
             PROVE  capture' = "gone" /\ report' = report
    BY DEF OverWithoutReport
<1>1. CASE WriteCaptureClaim
    BY <1>1 DEF WriteCaptureClaim, check
<1>2. ASSUME NEW e \in ProfileErrors, NoticeFailure(e)
      PROVE  capture' = "gone" /\ report' = report
    BY <1>2 DEF NoticeFailure, check
<1>3. CASE PublishLive
    BY <1>3 DEF PublishLive, collector, check
<1>4. CASE OperatorStops
    BY <1>4 DEF OperatorStops, runFiles, check
<1>5. CASE StopCapture
    BY <1>5 DEF StopCapture, check
<1>6. CASE DrainLane
    BY <1>6 DEF DrainLane, runFiles, check
<1>7. CASE CloseCapture
    BY <1>7 DEF CloseCapture, runFiles, check
<1>8. CASE CreateReport
    BY <1>8 DEF CreateReport, check
<1>9. CASE FillReport
    BY <1>9 DEF FillReport, check
<1>10. CASE TerminalHook
    BY <1>10 DEF TerminalHook, runFiles, check
<1>11. CASE Leaves
    BY <1>11 DEF Leaves, runFiles, check
<1>12. ASSUME NEW s \in Senders, Emitting(s)
       PROVE  capture' = "gone" /\ report' = report
    BY <1>12 DEF Emitting, EmitCheck, PostAnswered, PostFails, collector, runFiles, check
<1>13. ASSUME NEW p \in Profiles, Mark(p)
       PROVE  capture' = "gone" /\ report' = report
    BY <1>13 DEF Mark, collector, runFiles, check
<1>14. CASE StartCheck
    BY <1>14 DEF StartCheck, collector, runFiles
<1>15. CASE ReadReport
    BY <1>15 DEF ReadReport, collector, runFiles
<1>16. CASE JudgeRun
    BY <1>16 DEF JudgeRun, collector, runFiles
<1>17. CASE EndCheck
    BY <1>17 DEF EndCheck, collector, runFiles
<1>18. CASE UNCHANGED alertVars
    BY <1>18 DEF alertVars, collector, runFiles, check
<1> QED
    BY <1>1, <1>2, <1>3, <1>4, <1>5, <1>6, <1>7, <1>8, <1>9, <1>10, <1>11, <1>12, <1>13, <1>14, <1>15,
       <1>16, <1>17, <1>18
    DEF AlertsNext, Collector, CheckerStep, Checking, Exit, Killed, Senders

LEMMA DeadIsTrueStep == AlertsInv /\ [AlertsNext]_alertVars => DeadIsTrue'
<1> SUFFICES ASSUME AlertsInv, [AlertsNext]_alertVars
             PROVE  DeadIsTrue'
    OBVIOUS
<1>0. DeadIsTrue /\ emission \in [Senders -> Emissions]
      /\ probe \in [alive : BOOLEAN, report : TerminalOk \cup {"FAILED", "absent", "torn"}]
      /\ (capture = "gone" => capture' = "gone" /\ report' = report)
      /\ (OverWithoutReport => OverWithoutReport')
    BY OverStays DEF AlertsInv, AlertsTypeOK
<1> USE <1>0 DEF DeadIsTrue
<1>1. CASE WriteCaptureClaim
    BY <1>1 DEF WriteCaptureClaim, check, Posting
<1>2. ASSUME NEW e \in ProfileErrors, NoticeFailure(e)
      PROVE  DeadIsTrue'
    <2>1. \A s \in Senders : Posting(s)' => \/ Posting(s) /\ emission'[s] = emission[s]
                                            \/ emission'[s].key.state # "DEAD"
        BY <1>2, KeyTypes DEF NoticeFailure, Posting, Emit, Errors
    <2> QED
        BY <1>2, <2>1 DEF NoticeFailure, check
<1>3. CASE PublishLive
    BY <1>3 DEF PublishLive, collector, check, Posting
<1>4. CASE OperatorStops
    BY <1>4 DEF OperatorStops, runFiles, check, Posting
<1>5. CASE StopCapture
    BY <1>5 DEF StopCapture, check, Posting
<1>6. CASE DrainLane
    BY <1>6 DEF DrainLane, runFiles, check, Posting
<1>7. CASE CloseCapture
    BY <1>7 DEF CloseCapture, runFiles, check, Posting
<1>8. CASE CreateReport
    BY <1>8 DEF CreateReport, check, Posting
<1>9. CASE FillReport
    BY <1>9 DEF FillReport, check, Posting
<1>10. CASE TerminalHook
    <2>1. \A s \in Senders : Posting(s)' => \/ Posting(s) /\ emission'[s] = emission[s]
                                            \/ emission'[s].key.state # "DEAD"
        BY <1>10, KeyTypes DEF TerminalHook, Posting, Emit, FailedKey, Key
    <2> QED
        BY <1>10, <2>1 DEF TerminalHook, runFiles, check
<1>11. CASE Leaves
    <2>1. \A s \in Senders : Posting(s)' => Posting(s) /\ emission'[s] = emission[s]
        BY <1>11 DEF Leaves, Posting, Idle
    <2> QED
        BY <1>11, <2>1 DEF Leaves, runFiles, check
<1>12. ASSUME NEW s \in Senders, Emitting(s)
       PROVE  DeadIsTrue'
    <2>1. \A t \in Senders : Posting(t)' => Posting(t) /\ emission'[t].key = emission[t].key
        BY <1>12, EmissionsEnd
    <2>2. \A m \in got' : m.state = "DEAD" => OverWithoutReport
        BY <1>12, ReceivedWasPosted DEF Message
    <2> QED
        BY <1>12, <2>1, <2>2 DEF Emitting, EmitCheck, PostAnswered, PostFails, collector, runFiles, check
<1>13. ASSUME NEW p \in Profiles, Mark(p)
       PROVE  DeadIsTrue'
    <2>1. \A t \in Senders : Posting(t)' => Posting(t) /\ emission'[t].key = emission[t].key
        BY <1>13, SenderNames, EmissionsEnd
    <2> QED
        BY <1>13, <2>1 DEF Mark, collector, runFiles, check
<1>14. CASE StartCheck
    BY <1>14 DEF StartCheck, collector, runFiles, Posting
<1>15. CASE ReadReport
    BY <1>15 DEF ReadReport, collector, runFiles, Posting
<1>16. CASE JudgeRun
    <2>1. \A key \in Findings : key.state = "DEAD" => OverWithoutReport
        <3>1. checkAt = "read" /\ (~ probe.alive => capture = "gone" /\ probe.report = report)
            BY <1>16 DEF JudgeRun
        <3>2. \A e \in ProfileErrors \cup {NoError} : ReasonKey(e).state # "DEAD"
            BY KeyTypes
        <3>3. preserved \in ProfileErrors \cup {NoError} /\ live \in ProfileErrors \cup {NoError}
            BY DEF AlertsInv, AlertsTypeOK
        <3> QED
            BY <3>1, <3>2, <3>3 DEF Findings, OverWithoutReport, Gaps
    <2>2. \A s \in Senders : Posting(s)' => \/ Posting(s) /\ emission'[s] = emission[s]
                                            \/ emission'[s].key \in Findings
        BY <1>16 DEF JudgeRun, Posting, Emit
    <2> QED
        BY <1>16, <2>1, <2>2 DEF JudgeRun, collector, runFiles
<1>17. CASE EndCheck
    BY <1>17 DEF EndCheck, collector, runFiles, Posting, Idle
<1>18. CASE UNCHANGED alertVars
    BY <1>18 DEF alertVars, collector, runFiles, check, Posting
<1> QED
    BY <1>1, <1>2, <1>3, <1>4, <1>5, <1>6, <1>7, <1>8, <1>9, <1>10, <1>11, <1>12, <1>13, <1>14, <1>15,
       <1>16, <1>17, <1>18
    DEF AlertsNext, Collector, CheckerStep, Checking, Exit, Killed, Senders

-----------------------------------------------------------------------------
(* The lane and the terminal hook.                                         *)

LEMMA LaneInOrderStep == AlertsInv /\ [AlertsNext]_alertVars => LaneInOrder'
<1> SUFFICES ASSUME AlertsInv, [AlertsNext]_alertVars
             PROVE  LaneInOrder'
    OBVIOUS
<1>0. LaneInOrder /\ RunInOrder /\ emission \in [Senders -> Emissions] /\ outlived \subseteq Profiles
    BY DEF AlertsInv, AlertsTypeOK
<1> USE <1>0, SenderNames DEF LaneInOrder, Ending
<1>1. CASE WriteCaptureClaim
    BY <1>1 DEF WriteCaptureClaim, check, Sending
<1>2. ASSUME NEW e \in ProfileErrors, NoticeFailure(e)
      PROVE  LaneInOrder'
    BY <1>2 DEF NoticeFailure, check, Sending
<1>3. CASE PublishLive
    BY <1>3 DEF PublishLive, collector, check, Sending
<1>4. CASE OperatorStops
    BY <1>4 DEF OperatorStops, runFiles, check, Sending
<1>5. CASE StopCapture
    BY <1>5 DEF StopCapture, check, Sending
<1>6. CASE DrainLane
    BY <1>6 DEF DrainLane, runFiles, check, Sending
<1>7. CASE CloseCapture
    BY <1>7 DEF CloseCapture, runFiles, check, Sending
<1>8. CASE CreateReport
    BY <1>8 DEF CreateReport, check, Sending
<1>9. CASE FillReport
    BY <1>9 DEF FillReport, check, Sending
<1>10. CASE TerminalHook
    BY <1>10 DEF TerminalHook, runFiles, check, Sending, AlreadyDelivered
<1>11. CASE Leaves
    BY <1>11 DEF Leaves, runFiles, check, Sending
<1>12. ASSUME NEW s \in Senders, Emitting(s)
       PROVE  LaneInOrder'
    <2>1. \A t \in Senders : Sending(t)' => Sending(t)
        BY <1>12, EmissionsEnd
    <2>2. [by |-> "terminal", state |-> "FAILED"] \in got' => capture \in {"alerting", "gone"}
        BY <1>12, ReceivedWasPosted DEF Message, RunInOrder
    <2> QED
        BY <1>12, <2>1, <2>2 DEF Emitting, EmitCheck, PostAnswered, PostFails, collector, runFiles, check
<1>13. ASSUME NEW p \in Profiles, Mark(p)
       PROVE  LaneInOrder'
    <2>1. \A t \in Senders : Sending(t)' => Sending(t)
        BY <1>13, EmissionsEnd
    <2>2. capture \in Ending => p \in outlived
        BY <1>13 DEF Mark, Sending
    <2> QED
        BY <1>13, <2>1, <2>2 DEF Mark, collector, runFiles, check
<1>14. CASE StartCheck
    BY <1>14 DEF StartCheck, collector, runFiles, Sending
<1>15. CASE ReadReport
    BY <1>15 DEF ReadReport, collector, runFiles, Sending
<1>16. CASE JudgeRun
    BY <1>16 DEF JudgeRun, collector, runFiles, Sending
<1>17. CASE EndCheck
    BY <1>17 DEF EndCheck, collector, runFiles, Sending
<1>18. CASE UNCHANGED alertVars
    BY <1>18 DEF alertVars, collector, runFiles, check, Sending
<1> QED
    BY <1>1, <1>2, <1>3, <1>4, <1>5, <1>6, <1>7, <1>8, <1>9, <1>10, <1>11, <1>12, <1>13, <1>14, <1>15,
       <1>16, <1>17, <1>18
    DEF AlertsNext, Collector, CheckerStep, Checking, Exit, Killed, Senders

-----------------------------------------------------------------------------

\* The inductive invariant of the alerts: what the run's files and the senders may
\* hold where the collector is, that FAILED is only said of a run that cannot complete
\* and DEAD of one that is over without a report, and what the lane left to the hook.
THEOREM AlertsCorrect == AlertsSpec => []AlertsInv
<1>1. AlertsInit => AlertsInv
    <2> SUFFICES ASSUME AlertsInit
                 PROVE  AlertsInv
        OBVIOUS
    <2>1. \A s \in Senders : emission[s] = Idle
        BY DEF AlertsInit
    <2>2. RunInOrder /\ LaneInOrder
        BY <2>1, SenderNames DEF AlertsInit, RunInOrder, LaneInOrder, Posting, Sending, Idle, Running, Ending
    <2>3. FailedIsTrue /\ DeadIsTrue
        BY <2>1 DEF AlertsInit, FailedIsTrue, Silent, DeadIsTrue, Posting, Idle, Nothing
    <2> QED
        BY <2>2, <2>3, TypesInit DEF AlertsInv
<1>2. AlertsInv /\ [AlertsNext]_alertVars => AlertsInv'
    BY TypesStep, RunInOrderStep, FailedIsTrueStep, DeadIsTrueStep, LaneInOrderStep DEF AlertsInv
<1> QED
    BY <1>1, <1>2, PTL DEF AlertsSpec

\* No alert contradicts the run's report, whatever the checker read when.
\* (_watch_command, _notice_definitive_profile_failure, capture_for.)
THEOREM AlertsAlwaysAgree == AlertsSpec => []AlertsAgreeWithReport
<1>1. AlertsInv => AlertsAgreeWithReport
    <2> SUFFICES ASSUME AlertsInv, NEW m \in got
                 PROVE  /\ m.state = "DEAD" => capture = "gone" /\ report \in {"absent", "torn"}
                        /\ m.state = "FAILED" => report # "COMPLETED"
        BY DEF AlertsAgreeWithReport
    <2>1. m.state = "DEAD" => capture = "gone" /\ report \in {"absent", "torn"}
        BY DEF AlertsInv, DeadIsTrue, OverWithoutReport, Gaps
    <2>2. Failing => report # "COMPLETED"
        BY DEF AlertsInv, RunInOrder, Failing, Running, Ending, Gaps
    <2>3. m.state = "FAILED" => Failing
        BY DEF AlertsInv, FailedIsTrue, Silent
    <2> QED
        BY <2>1, <2>2, <2>3
<1> QED
    BY <1>1, AlertsCorrect, PTL

\* The terminal hook repeats a lane's alert only if that was not known to have
\* arrived when the lane's time was up.
\* (CaptureAlertLane.shutdown, capture_notes, skip_alert.)
THEOREM CollectorAlwaysTellsOnce == AlertsSpec => []CollectorTellsOnce
<1>1. AlertsInv => CollectorTellsOnce
    BY DEF AlertsInv, RunInOrder, LaneInOrder, Ending, CollectorTellsOnce
<1> QED
    BY <1>1, AlertsCorrect, PTL
=============================================================================
