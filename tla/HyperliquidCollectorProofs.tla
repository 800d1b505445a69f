---------------------- MODULE HyperliquidCollectorProofs ----------------------
(***************************************************************************)
(* The control of HyperliquidCollector for any number of coins, frames and *)
(* sessions and any capacity: the acknowledgements agree, a fatal error    *)
(* ends the run, the consumer sees a BatchStream, events carry the mark of *)
(* their session, and the dedup cache is exact.                            *)
(***************************************************************************)
EXTENDS HyperliquidCollector, FiniteSetTheorems, SequenceTheorems, WellFoundedInduction, TLAPS

Statuses == {"PENDING", "SEND_STARTED", "SENT", "ACKNOWLEDGED"}

IsSequence(s) == \E S : s \in Seq(S)

(* Subscriptions are sent in order; outside a session none is.             *)
SubscriptionsInOrder ==
    /\ attempts \in [Coins -> Statuses]
    /\ acknowledged = {c \in Coins : attempts[c] = "ACKNOWLEDGED"}
    /\ sending \in Nat
    /\ \A c \in Coins : c > sending => attempts[c] = "PENDING"
    /\ producer = "session" => (state = "ACTIVE" <=> acknowledged = Coins)
    /\ producer # "session" => attempts = NewAttempts /\ sending = 0 /\ receiver = Idle

(* An acknowledgement is only prepared for a coin whose send has started.  *)
AcknowledgementsPrepared ==
    /\ receiver.at = "raw" => receiver.message \in Messages
    /\ receiver.at = "outcome" /\ receiver.prepared.coin # None =>
         /\ receiver.prepared.coin \in Coins
         /\ attempts[receiver.prepared.coin] # "PENDING"

(* A new connection starts with tasks that have not failed. *)
ErrorsHandled ==
    /\ tasks \in [Tasks -> {"running", "retry", "fatal", "done"}]
    /\ producer = "connect" => tasks = AllRunning
    /\ producer = "backoff" => ~ErrorIsFatal

(* The end is recorded once, by the last step of the producer. *)
EndsOnce ==
    /\ producer \in {"connect", "session", "leaving", "backoff", "closing", "ended"}
    /\ producer = "closing" => state \in {"FAILED", "STOPPED"}
    /\ terminal # None <=> producer = "ended"
    /\ producer = "ended" => closed = {"outcome", "raw"}

(* The queue is what the consumer has not taken yet. *)
QueueInStream ==
    /\ IsSequence(queue)
    /\ IsSequence(delivered)
    /\ Len(queue) <= Len(delivered)
    /\ Len(queue) <= QueueCapacity
    /\ consumer = "told" => terminal # None /\ queue = <<>>

(* The mark of every event: its session is not the first subscribed one.   *)
Marked(batch) == \A i \in DOMAIN batch : batch[i].gap = (batch[i].session # firstSent)

(* What uncertain and stickyGap know about the first subscribed session,   *)
(* and the events prepared and delivered under it.  A publication timeout  *)
(* sets stickyGap early, but its session commits nothing more.             *)
GapKnown ==
    /\ session \in Nat /\ firstSent \in Nat \cup {None}
    /\ stickyGap \in BOOLEAN /\ uncertain \in BOOLEAN
    /\ firstSent # None => firstSent <= session
    /\ producer = "session" /\ sending > 0 => uncertain /\ firstSent # None
    /\ producer \in {"connect", "session", "leaving"} =>
         /\ uncertain => firstSent # None
         /\ firstSent = session => uncertain
         /\ tasks["receiver"] # "fatal" => (stickyGap <=> firstSent \notin {None, session})
    /\ producer = "backoff" => (stickyGap <=> firstSent # None)

EventsMarked ==
    /\ receiver.at \in {"outcome", "put"} =>
         /\ Marked(receiver.prepared.batch)
         /\ firstSent = None => DOMAIN receiver.prepared.batch = {}
    /\ \A b \in DOMAIN delivered :
         /\ Marked(delivered[b])
         /\ firstSent = None => DOMAIN delivered[b] = {}

CollectorInv ==
    /\ SubscriptionsInOrder
    /\ AcknowledgementsPrepared
    /\ ErrorsHandled
    /\ EndsOnce
    /\ QueueInStream

-----------------------------------------------------------------------------
(* What is prepared for an acknowledgement: a coin that is not PENDING.    *)
LEMMA PreparedCoin ==
    ASSUME NEW message \in Messages, attempts \in [Coins -> Statuses]
    PROVE  Prepare(message).coin # None =>
             Prepare(message).coin \in Coins /\ attempts[Prepare(message).coin] # "PENDING"
<1> USE DEF Control, Rejection
<1>1. Control.coin = None /\ Rejection.coin = None
    OBVIOUS
<1>2. CASE message.kind = "trades"
    BY <1>1, <1>2 DEF Prepare, PrepareTrades, PrepareValidTrades
<1>3. CASE message.kind \in {"greeting or pong", "malformed"}
    BY <1>1, <1>3 DEF Prepare
<1>4. CASE message \in [kind : {"ack"}, coin : Coins]
    BY <1>1, <1>4 DEF Prepare
<1>5. QED
    BY <1>2, <1>3, <1>4 DEF Messages

(* Only CloseRawSink records the end, after CloseOutcomeSink. *)
LEMMA EndsOnceStep ==
    ASSUME EndsOnce, [Next]_vars
    PROVE  EndsOnce'
<1> USE CollectorAssumption DEF EndsOnce, vars, runVars, sessionVars, taskVars, gapVars,
       deliveryVars, consumerVars, endVars
<1>1. CASE ConnectFailsForNow
    BY <1>1 DEF ConnectFailsForNow, BackOff
<1>2. CASE ConnectFailsForGood
    BY <1>2 DEF ConnectFailsForGood, EndRun, DropSession
<1>3. CASE Connected
    BY <1>3 DEF Connected
<1>4. CASE CancelRun
    BY <1>4 DEF CancelRun, EndRun, DropSession
<1>5. CASE SessionEnds
    BY <1>5 DEF SessionEnds, DropSession, Failed
<1>6. CASE Leave
    BY <1>6 DEF Leave, EndRun, DropSession, BackOff
<1>7. CASE Reconnect
    BY <1>7 DEF Reconnect
<1>8. CASE HeartbeatFails
    BY <1>8 DEF HeartbeatFails, Runs, TaskFails
<1>9. CASE ActivationStarts
    BY <1>9 DEF ActivationStarts, Runs, StartSend
<1>10. CASE SendReturns
    BY <1>10 DEF SendReturns, Runs, StartSend, AfterSend
<1>11. CASE ActivationCompletes
    BY <1>11 DEF ActivationCompletes, Runs, TaskFails
<1>12. CASE ActivationFails
    BY <1>12 DEF ActivationFails, Runs, TaskFails
<1>13. CASE ReceiveFails
    BY <1>13 DEF ReceiveFails, ReceiverAt, Runs, TaskFails
<1>14. CASE Receive
    BY <1>14 DEF Receive, ReceiverAt, Runs
<1>15. CASE SinkFails
    BY <1>15 DEF SinkFails, ReceiverAt, Runs, ReceiverFails, TaskFails
<1>16. CASE RawAccepted
    BY <1>16 DEF RawAccepted, ReceiverAt, Runs
<1>17. CASE OutcomeAccepted
    BY <1>17 DEF OutcomeAccepted, ReceiverAt, Runs, Commit, Acknowledge, AwaitRoom, Publish
<1>18. CASE RejectionAccepted
    BY <1>18 DEF RejectionAccepted, ReceiverAt, Runs, ReceiverFails, TaskFails
<1>19. CASE Put
    BY <1>19 DEF Put, ReceiverAt, Runs, Publish
<1>20. CASE PutTimesOut
    BY <1>20 DEF PutTimesOut, ReceiverAt, Runs, ReceiverFails, TaskFails
<1>21. CASE CloseOutcomeSink
    BY <1>21 DEF CloseOutcomeSink
<1>22. CASE CloseRawSink
    BY <1>22 DEF CloseRawSink
<1>23. CASE ConsumerRound
    BY <1>23 DEF ConsumerRound, Answer
<1>24. CASE ConsumerCanceled
    BY <1>24 DEF ConsumerCanceled
<1>25. CASE UNCHANGED vars
    BY <1>25
<1>26. QED
    BY <1>1, <1>2, <1>3, <1>4, <1>5, <1>6, <1>7, <1>8, <1>9, <1>10, <1>11, <1>12, <1>13, <1>14,
           <1>15, <1>16, <1>17, <1>18, <1>19, <1>20, <1>21, <1>22, <1>23, <1>24, <1>25 DEF Next

(* A session is left for good when a task of it met a fatal error. *)
LEMMA ErrorsHandledStep ==
    ASSUME ErrorsHandled, [Next]_vars
    PROVE  ErrorsHandled'
<1> USE DEF ErrorsHandled, ErrorIsFatal, AllRunning, Tasks,
           vars, runVars, sessionVars, taskVars, gapVars, deliveryVars, consumerVars, endVars
<1>1. CASE ConnectFailsForNow
    BY <1>1 DEF ConnectFailsForNow, BackOff
<1>2. CASE ConnectFailsForGood
    BY <1>2 DEF ConnectFailsForGood, EndRun, DropSession
<1>3. CASE Connected
    BY <1>3 DEF Connected
<1>4. CASE CancelRun
    BY <1>4 DEF CancelRun, EndRun, DropSession
<1>5. CASE SessionEnds
    BY <1>5 DEF SessionEnds, DropSession, Failed
<1>6. CASE Leave
    BY <1>6 DEF Leave, EndRun, DropSession, BackOff
<1>7. CASE Reconnect
    BY <1>7 DEF Reconnect
<1>8. CASE HeartbeatFails
    BY <1>8 DEF HeartbeatFails, Runs, TaskFails
<1>9. CASE ActivationStarts
    BY <1>9 DEF ActivationStarts, Runs, StartSend
<1>10. CASE SendReturns
    BY <1>10 DEF SendReturns, Runs, StartSend, AfterSend
<1>11. CASE ActivationCompletes
    BY <1>11 DEF ActivationCompletes, Runs, TaskFails
<1>12. CASE ActivationFails
    BY <1>12 DEF ActivationFails, Runs, TaskFails
<1>13. CASE ReceiveFails
    BY <1>13 DEF ReceiveFails, ReceiverAt, Runs, TaskFails
<1>14. CASE Receive
    BY <1>14 DEF Receive, ReceiverAt, Runs
<1>15. CASE SinkFails
    BY <1>15 DEF SinkFails, ReceiverAt, Runs, ReceiverFails, TaskFails
<1>16. CASE RawAccepted
    BY <1>16 DEF RawAccepted, ReceiverAt, Runs
<1>17. CASE OutcomeAccepted
    BY <1>17 DEF OutcomeAccepted, ReceiverAt, Runs, Commit, Acknowledge, AwaitRoom, Publish
<1>18. CASE RejectionAccepted
    BY <1>18 DEF RejectionAccepted, ReceiverAt, Runs, ReceiverFails, TaskFails
<1>19. CASE Put
    BY <1>19 DEF Put, ReceiverAt, Runs, Publish
<1>20. CASE PutTimesOut
    BY <1>20 DEF PutTimesOut, ReceiverAt, Runs, ReceiverFails, TaskFails
<1>21. CASE CloseOutcomeSink
    BY <1>21 DEF CloseOutcomeSink
<1>22. CASE CloseRawSink
    BY <1>22 DEF CloseRawSink
<1>23. CASE ConsumerRound
    BY <1>23 DEF ConsumerRound, Answer
<1>24. CASE ConsumerCanceled
    BY <1>24 DEF ConsumerCanceled
<1>25. CASE UNCHANGED vars
    BY <1>25
<1>26. QED
    BY <1>1, <1>2, <1>3, <1>4, <1>5, <1>6, <1>7, <1>8, <1>9, <1>10, <1>11, <1>12, <1>13, <1>14,
           <1>15, <1>16, <1>17, <1>18, <1>19, <1>20, <1>21, <1>22, <1>23, <1>24, <1>25 DEF Next

(* Attempts only move forward, and state and set follow them. *)
LEMMA SubscriptionsStep ==
    ASSUME SubscriptionsInOrder, AcknowledgementsPrepared, EndsOnce, [Next]_vars
    PROVE  (SubscriptionsInOrder /\ AcknowledgementsPrepared)'
<1> USE DEF SubscriptionsInOrder, AcknowledgementsPrepared, Coins, NewAttempts, Statuses, Idle,
           vars, runVars, sessionVars, taskVars, gapVars, deliveryVars, consumerVars, endVars
<1>1. CASE ConnectFailsForNow
    BY <1>1 DEF ConnectFailsForNow, BackOff
<1>2. CASE ConnectFailsForGood
    BY <1>2 DEF ConnectFailsForGood, EndRun, DropSession
<1>3. CASE Connected
    BY <1>3, CollectorAssumption DEF Connected
<1>4. CASE CancelRun
    BY <1>4 DEF CancelRun, EndRun, DropSession
<1>5. CASE SessionEnds
    BY <1>5 DEF SessionEnds, DropSession, Failed
<1>6. CASE Leave
    BY <1>6 DEF Leave, EndRun, DropSession, BackOff
<1>7. CASE Reconnect
    BY <1>7 DEF Reconnect
<1>8. CASE HeartbeatFails
    BY <1>8 DEF HeartbeatFails, Runs, TaskFails
<1>9. CASE ActivationStarts
    BY <1>9 DEF ActivationStarts, Runs, StartSend
<1>10. CASE SendReturns
    BY <1>10 DEF SendReturns, Runs, StartSend, AfterSend
<1>11. CASE ActivationCompletes
    BY <1>11 DEF ActivationCompletes, Runs, TaskFails
<1>12. CASE ActivationFails
    BY <1>12 DEF ActivationFails, Runs, TaskFails
<1>13. CASE ReceiveFails
    BY <1>13 DEF ReceiveFails, ReceiverAt, Runs, TaskFails
<1>14. CASE Receive
    BY <1>14 DEF Receive, ReceiverAt, Runs
<1>15. CASE SinkFails
    BY <1>15 DEF SinkFails, ReceiverAt, Runs, ReceiverFails, TaskFails
<1>16. CASE RawAccepted
    BY <1>16, PreparedCoin DEF RawAccepted, ReceiverAt, Runs
<1>17. CASE OutcomeAccepted
  <2>1. CASE receiver.prepared.coin # None
    <3>1. /\ Acknowledge(receiver.prepared.coin)
          /\ receiver.prepared.coin \in Coins
          /\ attempts[receiver.prepared.coin] # "PENDING"
          /\ producer = "session" /\ producer' = producer /\ sending' = sending
      BY <1>17, <2>1 DEF OutcomeAccepted, Commit, ReceiverAt, Runs
    <3>2. /\ attempts' \in [Coins -> Statuses]
          /\ acknowledged' = {c \in Coins : attempts'[c] = "ACKNOWLEDGED"}
          /\ \A c \in Coins : c > sending => attempts'[c] = "PENDING"
      BY <3>1 DEF Acknowledge
    <3>3. state' = "ACTIVE" <=> acknowledged' = Coins
      BY <3>1, <3>2 DEF Acknowledge
    <3>4. QED
      BY <3>1, <3>2, <3>3 DEF Acknowledge
  <2>2. CASE receiver.prepared.coin = None
    <3>1. UNCHANGED <<producer, state, attempts, acknowledged, sending>> /\ producer = "session"
      BY <1>17, <2>2 DEF OutcomeAccepted, Commit, ReceiverAt, Runs, AwaitRoom, Publish
    <3>2. receiver' = Idle \/ receiver' = [at |-> "put", prepared |-> receiver.prepared]
      BY <1>17, <2>2 DEF OutcomeAccepted, Commit, AwaitRoom, Publish
    <3>3. QED
      BY <3>1, <3>2
  <2>3. QED
    BY <2>1, <2>2
<1>18. CASE RejectionAccepted
    BY <1>18 DEF RejectionAccepted, ReceiverAt, Runs, ReceiverFails, TaskFails
<1>19. CASE Put
    BY <1>19 DEF Put, ReceiverAt, Runs, Publish
<1>20. CASE PutTimesOut
    BY <1>20 DEF PutTimesOut, ReceiverAt, Runs, ReceiverFails, TaskFails
<1>21. CASE CloseOutcomeSink
    BY <1>21 DEF CloseOutcomeSink
<1>22. CASE CloseRawSink
    BY <1>22 DEF CloseRawSink
<1>23. CASE ConsumerRound
    BY <1>23 DEF ConsumerRound, Answer
<1>24. CASE ConsumerCanceled
    BY <1>24 DEF ConsumerCanceled
<1>25. CASE UNCHANGED vars
    BY <1>25
<1>26. QED
    BY <1>1, <1>2, <1>3, <1>4, <1>5, <1>6, <1>7, <1>8, <1>9, <1>10, <1>11, <1>12, <1>13, <1>14,
           <1>15, <1>16, <1>17, <1>18, <1>19, <1>20, <1>21, <1>22, <1>23, <1>24, <1>25 DEF Next

(* Sequences of anything: a batch may hold whatever was prepared.          *)
LEMMA LengthIsNatural ==
    ASSUME NEW s, IsSequence(s)
    PROVE  Len(s) \in Nat
BY DEF IsSequence

(* The queue holds at least one batch. *)
LEMMA CapacityIsNatural == QueueCapacity \in Nat \ {0}
BY CollectorAssumption

(* What taking a batch leaves of the queue. *)
LEMMA TailSequence ==
    ASSUME NEW s, IsSequence(s), s # <<>>
    PROVE  /\ IsSequence(Tail(s))
           /\ Len(s) \in Nat
           /\ Len(Tail(s)) = Len(s) - 1
BY DEF IsSequence

(* What putting a batch makes of a sequence. *)
LEMMA AppendSequence ==
    ASSUME NEW s, IsSequence(s), NEW e
    PROVE  /\ IsSequence(Append(s, e))
           /\ Len(s) \in Nat
           /\ Len(Append(s, e)) = Len(s) + 1
           /\ SubSeq(Append(s, e), 1, Len(s)) = s
<1>1. PICK S : s \in Seq(S)
    BY DEF IsSequence
<1>2. s \in Seq(S \cup {e}) /\ e \in S \cup {e}
    BY <1>1
<1>3. Append(s, e) \in Seq(S \cup {e}) /\ Len(Append(s, e)) = Len(s) + 1
    BY <1>2
<1>4. SubSeq(Append(s, e), 1, Len(s)) = s
    BY <1>2, <1>3
<1>5. QED
    BY <1>2, <1>3, <1>4 DEF IsSequence

(* A batch that enters leaves the queue within its capacity.               *)
LEMMA PublishQueue ==
    ASSUME QueueInStream, EndsOnce, NEW prepared, Publish(prepared),
           producer = "session", UNCHANGED <<consumer, terminal>>,
           prepared.batch = <<>> \/ Len(queue) < QueueCapacity
    PROVE  QueueInStream'
<1>1. CASE prepared.batch = <<>>
    BY <1>1 DEF Publish, QueueInStream
<1>2. CASE prepared.batch # <<>>
    <2>1. /\ queue' = Append(queue, prepared.batch)
          /\ delivered' = Append(delivered, prepared.batch)
      BY <1>2 DEF Publish
    <2>2. /\ IsSequence(queue') /\ Len(queue) \in Nat /\ Len(queue') = Len(queue) + 1
          /\ IsSequence(delivered') /\ Len(delivered) \in Nat /\ Len(delivered') = Len(delivered) + 1
      BY <2>1, AppendSequence DEF QueueInStream
    <2>3. consumer # "told"
      BY DEF QueueInStream, EndsOnce
    <2>4. QED
      BY <1>2, <2>2, <2>3, CapacityIsNatural DEF QueueInStream
<1>3. QED
    BY <1>1, <1>2

(* Only a put and the consumer change the queue. *)
LEMMA QueueStep ==
    ASSUME QueueInStream, EndsOnce, [Next]_vars
    PROVE  QueueInStream'
<1> USE DEF QueueInStream, EndsOnce, vars, runVars, sessionVars, taskVars, gapVars, deliveryVars,
       consumerVars, endVars
<1>1. CASE ConnectFailsForNow
    BY <1>1 DEF ConnectFailsForNow, BackOff
<1>2. CASE ConnectFailsForGood
    BY <1>2 DEF ConnectFailsForGood, EndRun, DropSession
<1>3. CASE Connected
    BY <1>3 DEF Connected
<1>4. CASE CancelRun
    BY <1>4 DEF CancelRun, EndRun, DropSession
<1>5. CASE SessionEnds
    BY <1>5 DEF SessionEnds, DropSession, Failed
<1>6. CASE Leave
    BY <1>6 DEF Leave, EndRun, DropSession, BackOff
<1>7. CASE Reconnect
    BY <1>7 DEF Reconnect
<1>8. CASE HeartbeatFails
    BY <1>8 DEF HeartbeatFails, Runs, TaskFails
<1>9. CASE ActivationStarts
    BY <1>9 DEF ActivationStarts, Runs, StartSend
<1>10. CASE SendReturns
    BY <1>10 DEF SendReturns, Runs, StartSend, AfterSend
<1>11. CASE ActivationCompletes
    BY <1>11 DEF ActivationCompletes, Runs, TaskFails
<1>12. CASE ActivationFails
    BY <1>12 DEF ActivationFails, Runs, TaskFails
<1>13. CASE ReceiveFails
    BY <1>13 DEF ReceiveFails, ReceiverAt, Runs, TaskFails
<1>14. CASE Receive
    BY <1>14 DEF Receive, ReceiverAt, Runs
<1>15. CASE SinkFails
    BY <1>15 DEF SinkFails, ReceiverAt, Runs, ReceiverFails, TaskFails
<1>16. CASE RawAccepted
    BY <1>16 DEF RawAccepted, ReceiverAt, Runs
<1>17. CASE OutcomeAccepted
  <2>1. producer = "session" /\ UNCHANGED <<consumer, terminal>>
    BY <1>17 DEF OutcomeAccepted, ReceiverAt, Runs
  <2>2. CASE Publish(receiver.prepared) /\ (receiver.prepared.batch = <<>> \/ Len(queue) < QueueCapacity)
    BY <2>1, <2>2, PublishQueue
  <2>3. CASE UNCHANGED deliveryVars
    BY <2>1, <2>3 DEF QueueInStream, deliveryVars
  <2>4. QED
    BY <1>17, <2>2, <2>3, CapacityIsNatural DEF OutcomeAccepted, Commit, Acknowledge, AwaitRoom,
           QueueInStream
<1>18. CASE RejectionAccepted
    BY <1>18 DEF RejectionAccepted, ReceiverAt, Runs, ReceiverFails, TaskFails
<1>19. CASE Put
  <2>1. producer = "session" /\ UNCHANGED <<consumer, terminal>>
    BY <1>19 DEF Put, ReceiverAt, Runs
  <2>2. QED
    BY <1>19, <2>1, PublishQueue DEF Put
<1>20. CASE PutTimesOut
    BY <1>20 DEF PutTimesOut, ReceiverAt, Runs, ReceiverFails, TaskFails
<1>21. CASE CloseOutcomeSink
    BY <1>21 DEF CloseOutcomeSink
<1>22. CASE CloseRawSink
    BY <1>22 DEF CloseRawSink
<1>23. CASE ConsumerRound
  <2>1. UNCHANGED <<terminal, delivered>>
    BY <1>23 DEF ConsumerRound
  <2>2. CASE queue # <<>>
    <3>1. queue' = Tail(queue) /\ consumer' = "idle"
      BY <1>23, <2>2 DEF ConsumerRound, Answer
    <3>2. IsSequence(queue') /\ Len(queue') <= Len(queue) /\ Len(queue) \in Nat
      BY <2>2, <3>1, TailSequence DEF QueueInStream
    <3>3. Len(delivered) \in Nat /\ Len(queue') \in Nat
      BY <3>2, LengthIsNatural DEF QueueInStream
    <3>4. QED
      BY <2>1, <3>1, <3>2, <3>3, CapacityIsNatural DEF QueueInStream
  <2>3. CASE queue = <<>>
    BY <1>23, <2>1, <2>3 DEF ConsumerRound, Answer, QueueInStream
  <2>4. QED
    BY <2>2, <2>3
<1>24. CASE ConsumerCanceled
    BY <1>24 DEF ConsumerCanceled
<1>25. CASE UNCHANGED vars
    BY <1>25
<1>26. QED
    BY <1>1, <1>2, <1>3, <1>4, <1>5, <1>6, <1>7, <1>8, <1>9, <1>10, <1>11, <1>12, <1>13, <1>14,
           <1>15, <1>16, <1>17, <1>18, <1>19, <1>20, <1>21, <1>22, <1>23, <1>24, <1>25 DEF Next

-----------------------------------------------------------------------------
(* The control at the start of a run. *)
LEMMA CollectorInit ==
    ASSUME Init
    PROVE  CollectorInv
<1>1. Coins # {}
    BY CollectorAssumption DEF Coins
<1>2. SubscriptionsInOrder
    BY <1>1 DEF Init, SubscriptionsInOrder, NewAttempts, Statuses
<1>3. AcknowledgementsPrepared /\ ErrorsHandled /\ EndsOnce
    BY DEF Init, AcknowledgementsPrepared, ErrorsHandled, ErrorIsFatal, AllRunning, Tasks,
           EndsOnce, Idle
<1>4. IsSequence(<<>>)
    BY DEF IsSequence
<1>5. QueueInStream
    BY <1>4, CapacityIsNatural DEF Init, QueueInStream
<1>6. QED
    BY <1>2, <1>3, <1>5 DEF CollectorInv

(* Each step of the event loop keeps the control. *)
LEMMA CollectorStep ==
    ASSUME CollectorInv, [Next]_vars
    PROVE  CollectorInv'
BY EndsOnceStep, ErrorsHandledStep, SubscriptionsStep, QueueStep DEF CollectorInv

(* The control of producer and consumer, in every state of every run.      *)
THEOREM CollectorInvariant == Spec => []CollectorInv
BY CollectorInit, CollectorStep, PTL DEF Spec

(* Acknowledged coins, attempts and state agree (_acknowledge).            *)
THEOREM AcknowledgementsAlwaysAgree == Spec => []AcknowledgementsAgree
<1>1. CollectorInv => AcknowledgementsAgree
    BY DEF CollectorInv, SubscriptionsInOrder, AcknowledgementsAgree
<1>2. QED
    BY <1>1, CollectorInvariant, PTL

(* Both closes come before the end is told (_run_private, finally).        *)
THEOREM ToldOnlyAfterCloses == Spec => []ToldAfterCloses
<1>1. CollectorInv => ToldAfterCloses
    BY DEF CollectorInv, EndsOnce, ToldAfterCloses
<1>2. QED
    BY <1>1, CollectorInvariant, PTL

(* The only step that opens another session is taken without fatal error   *)
(* (_run_session, _run_private).                                           *)
THEOREM FatalStopsReconnection == Spec => FatalNeverReconnects
<1>1. ASSUME CollectorInv, [Next]_vars
      PROVE  [(\E t \in Tasks : tasks[t] = "fatal") => session' = session]_vars
  <2>1. CASE Reconnect
    BY <1>1, <2>1 DEF Reconnect, CollectorInv, ErrorsHandled, ErrorIsFatal
  <2>2. CASE ~Reconnect
    <3>1. session' = session
      BY <1>1, <2>2 DEF Next, ConnectFailsForNow, ConnectFailsForGood, Connected, CancelRun,
         SessionEnds, Leave, HeartbeatFails, ActivationStarts, SendReturns, ActivationCompletes,
         ActivationFails, ReceiveFails, Receive, SinkFails, RawAccepted, OutcomeAccepted,
         RejectionAccepted, Put, PutTimesOut, CloseOutcomeSink, CloseRawSink, ConsumerRound,
         ConsumerCanceled, EndRun, BackOff, Commit, Acknowledge, AwaitRoom, Publish, ReceiverFails,
         vars, runVars, sessionVars, taskVars, gapVars, deliveryVars, consumerVars, endVars
    <3>2. QED
      BY <3>1
  <2>3. QED
    BY <2>1, <2>2
<1>2. QED
    BY <1>1, CollectorInvariant, PTL DEF Spec, FatalNeverReconnects

-----------------------------------------------------------------------------
(* A committed batch is sent to the stream, or nothing is.                 *)
LEMMA PublishIsSend ==
    ASSUME QueueInStream, EndsOnce, NEW prepared, Publish(prepared),
           producer = "session", UNCHANGED <<consumer, terminal>>,
           prepared.batch = <<>> \/ Len(queue) < QueueCapacity
    PROVE  [Stream!Next]_Stream!vars
<1>1. CASE prepared.batch = <<>>
    BY <1>1 DEF Publish, Stream!vars
<1>2. CASE prepared.batch # <<>>
    <2>1. /\ queue' = Append(queue, prepared.batch)
          /\ delivered' = Append(delivered, prepared.batch)
      BY <1>2 DEF Publish
    <2>2. /\ Len(queue) \in Nat /\ Len(queue') = Len(queue) + 1
          /\ Len(delivered) \in Nat /\ Len(delivered') = Len(delivered) + 1
          /\ SubSeq(queue', 1, Len(queue)) = queue
      BY <2>1, AppendSequence DEF QueueInStream
    <2>3. Len(delivered') - Len(queue') = Len(delivered) - Len(queue)
      BY <2>2
    <2>4. Len(queue') - 1 = Len(queue)
      BY <2>2
    <2>5. Stream!Front(queue') = queue
      BY <2>2, <2>4 DEF Stream!Front
    <2>6. ~(terminal # None)
      BY DEF EndsOnce
    <2>7. Len(queue) < QueueCapacity
      BY <1>2
    <2>8. UNCHANGED <<terminal # None, consumer = "told">>
      OBVIOUS
    <2>9. Stream!Send
      BY <2>2, <2>3, <2>5, <2>6, <2>7, <2>8 DEF Stream!Send
    <2>10. QED
      BY <2>9 DEF Stream!Next
<1>3. QED
    BY <1>1, <1>2

(* Each step is a step of the stream or leaves it alone. *)
LEMMA StreamStep ==
    ASSUME CollectorInv, [Next]_vars
    PROVE  [Stream!Next]_Stream!vars
<1> USE DEF vars, runVars, sessionVars, taskVars, gapVars, deliveryVars, consumerVars, endVars,
       Stream!vars
<1>0. QueueInStream /\ EndsOnce
    BY DEF CollectorInv
<1>1. CASE ConnectFailsForNow
    BY <1>1 DEF ConnectFailsForNow, BackOff
<1>2. CASE ConnectFailsForGood
    BY <1>2 DEF ConnectFailsForGood, EndRun, DropSession
<1>3. CASE Connected
    BY <1>3 DEF Connected
<1>4. CASE CancelRun
    BY <1>4 DEF CancelRun, EndRun, DropSession
<1>5. CASE SessionEnds
    BY <1>5 DEF SessionEnds, DropSession, Failed
<1>6. CASE Leave
    BY <1>6 DEF Leave, EndRun, DropSession, BackOff
<1>7. CASE Reconnect
    BY <1>7 DEF Reconnect
<1>8. CASE HeartbeatFails
    BY <1>8 DEF HeartbeatFails, Runs, TaskFails
<1>9. CASE ActivationStarts
    BY <1>9 DEF ActivationStarts, Runs, StartSend
<1>10. CASE SendReturns
    BY <1>10 DEF SendReturns, Runs, StartSend, AfterSend
<1>11. CASE ActivationCompletes
    BY <1>11 DEF ActivationCompletes, Runs, TaskFails
<1>12. CASE ActivationFails
    BY <1>12 DEF ActivationFails, Runs, TaskFails
<1>13. CASE ReceiveFails
    BY <1>13 DEF ReceiveFails, ReceiverAt, Runs, TaskFails
<1>14. CASE Receive
    BY <1>14 DEF Receive, ReceiverAt, Runs
<1>15. CASE SinkFails
    BY <1>15 DEF SinkFails, ReceiverAt, Runs, ReceiverFails, TaskFails
<1>16. CASE RawAccepted
    BY <1>16 DEF RawAccepted, ReceiverAt, Runs
<1>17. CASE OutcomeAccepted
  <2>1. producer = "session" /\ UNCHANGED <<consumer, terminal>>
    BY <1>17 DEF OutcomeAccepted, ReceiverAt, Runs
  <2>2. CASE Publish(receiver.prepared) /\ (receiver.prepared.batch = <<>> \/ Len(queue) < QueueCapacity)
    BY <1>0, <2>1, <2>2, PublishIsSend
  <2>3. CASE UNCHANGED deliveryVars
    BY <2>1, <2>3
  <2>4. Len(queue) \in Nat
    BY <1>0, LengthIsNatural DEF QueueInStream
  <2>5. QED
    BY <1>17, <2>2, <2>3, <2>4, CapacityIsNatural DEF OutcomeAccepted, Commit, Acknowledge,
           AwaitRoom
<1>18. CASE RejectionAccepted
    BY <1>18 DEF RejectionAccepted, ReceiverAt, Runs, ReceiverFails, TaskFails
<1>19. CASE Put
  <2>1. producer = "session" /\ UNCHANGED <<consumer, terminal>>
    BY <1>19 DEF Put, ReceiverAt, Runs
  <2>2. QED
    BY <1>0, <1>19, <2>1, PublishIsSend DEF Put
<1>20. CASE PutTimesOut
    BY <1>20 DEF PutTimesOut, ReceiverAt, Runs, ReceiverFails, TaskFails
<1>21. CASE CloseOutcomeSink
    BY <1>21 DEF CloseOutcomeSink
<1>22. CASE CloseRawSink
  <2>1. terminal = None /\ terminal' # None /\ UNCHANGED <<queue, delivered, consumer>>
    BY <1>0, <1>22, CollectorAssumption DEF CloseRawSink, EndsOnce
  <2>2. QED
    BY <2>1 DEF Stream!Next, Stream!End
<1>23. CASE ConsumerRound
  <2>1. UNCHANGED <<terminal, delivered>>
    BY <1>23 DEF ConsumerRound
  <2>2. CASE queue # <<>>
    <3>1. queue' = Tail(queue) /\ consumer' = "idle" /\ consumer # "told"
      BY <1>0, <1>23, <2>2 DEF ConsumerRound, Answer, QueueInStream
    <3>2. Len(queue) \in Nat /\ Len(queue') = Len(queue) - 1 /\ Len(delivered) \in Nat
      BY <1>0, <2>2, <3>1, TailSequence, LengthIsNatural DEF QueueInStream
    <3>3. Len(delivered') - Len(queue') = Len(delivered) - Len(queue) + 1
      BY <2>1, <3>2
    <3>4. QED
      BY <2>1, <2>2, <3>1, <3>3 DEF Stream!Next, Stream!Take
  <2>3. CASE queue = <<>> /\ terminal # None
    BY <1>23, <2>1, <2>3 DEF ConsumerRound, Answer, Stream!Next, Stream!Tell
  <2>4. CASE queue = <<>> /\ terminal = None
    BY <1>0, <1>23, <2>1, <2>4 DEF ConsumerRound, Answer, QueueInStream
  <2>5. QED
    BY <2>2, <2>3, <2>4
<1>24. CASE ConsumerCanceled
    BY <1>24 DEF ConsumerCanceled
<1>25. CASE UNCHANGED vars
    BY <1>25
<1>26. QED
    BY <1>1, <1>2, <1>3, <1>4, <1>5, <1>6, <1>7, <1>8, <1>9, <1>10, <1>11, <1>12, <1>13, <1>14,
           <1>15, <1>16, <1>17, <1>18, <1>19, <1>20, <1>21, <1>22, <1>23, <1>24, <1>25 DEF Next

(* The collector implements the stream its consumer is promised: batches   *)
(* whole, in order, bounded, and the end after the last of them            *)
(* (_receive_batch_private, _commit_prepared_message).                     *)
THEOREM ImplementsStream == Spec => StreamSafe
<1>1. Init => Stream!Init
    BY DEF Init, Stream!Init
<1>2. QED
    BY <1>1, StreamStep, CollectorInvariant, PTL DEF Spec, StreamSafe, Stream!SafeSpec

-----------------------------------------------------------------------------
(* The gap mark.                                                           *)

(* An element of a sequence over S is in S. *)
LEMMA ElementOfSequence ==
    ASSUME NEW S, NEW s \in Seq(S), NEW i \in DOMAIN s
    PROVE  s[i] \in S
OBVIOUS

(* An event is prepared with the mark of the session it was received in.   *)
LEMMA PreparedMarked ==
    ASSUME NEW message \in Messages, producer = "session", tasks["receiver"] = "running",
           SubscriptionsInOrder, GapKnown
    PROVE  /\ Marked(Prepare(message).batch)
           /\ firstSent = None => DOMAIN Prepare(message).batch = {}
<1> USE DEF Control, Rejection
<1>1. /\ Control.batch = <<>> /\ Rejection.batch = <<>>
      /\ Marked(<<>>) /\ DOMAIN <<>> = {}
    BY DEF Marked
<1>2. CASE message.kind = "trades"
  <2> DEFINE trades == message.trades
             start == [rejected |-> FALSE, frame |-> {}, cache |-> cache, batch |-> <<>>,
                       seen |-> <<>>]
             work == FoldLeft(Examine, start, trades)
  <2>1. trades \in Seq([coin : Coins, id : Nat, version : Nat])
    BY <1>2, TradeFramesAssumption DEF Messages
  <2>2. CASE Prepare(message).batch # <<>>
    <3>1. /\ trades # <<>>
          /\ \A i \in DOMAIN trades : attempts[trades[i].coin] = "ACKNOWLEDGED"
          /\ Prepare(message) = PrepareValidTrades(trades)
      BY <1>1, <1>2, <2>2 DEF Prepare, PrepareTrades
    <3>2. Prepare(message).batch = [i \in DOMAIN work.batch |-> EventOf(work.batch[i])]
      BY <1>1, <2>2, <3>1 DEF PrepareValidTrades
    <3>3. sending > 0
      <4> HIDE DEF trades, work
      <4>1. 1 \in DOMAIN trades
        BY <2>1, <3>1
      <4>2. trades[1].coin \in Coins
        <5>1. trades[1] \in [coin : Coins, id : Nat, version : Nat]
          BY <2>1, <4>1, ElementOfSequence
        <5>2. QED
          BY <5>1
      <4>3. attempts[trades[1].coin] = "ACKNOWLEDGED"
        BY <3>1, <4>1
      <4>4. QED
        BY <4>2, <4>3, CollectorAssumption DEF SubscriptionsInOrder, Coins
    <3>4. firstSent # None /\ (stickyGap <=> session # firstSent)
      BY <3>3 DEF GapKnown
    <3>5. stickyGap = (session # firstSent)
      BY <3>4 DEF GapKnown
    <3>6. \A i \in DOMAIN work.batch :
            /\ EventOf(work.batch[i]).gap = stickyGap
            /\ EventOf(work.batch[i]).session = session
      BY DEF EventOf
    <3>7. Marked(Prepare(message).batch)
      <4> HIDE DEF work
      <4>1. QED
        BY <3>2, <3>5, <3>6 DEF Marked
    <3>8. QED
      BY <3>4, <3>7
  <2>3. QED
    BY <1>1, <2>2
<1>3. CASE message.kind # "trades"
    BY <1>1, <1>3 DEF Prepare, Messages
<1>4. QED
    BY <1>2, <1>3

(* A published batch carries the mark it was prepared with. *)
LEMMA PublishMarked ==
    ASSUME EventsMarked, IsSequence(delivered), receiver.at \in {"outcome", "put"},
           Publish(receiver.prepared), UNCHANGED firstSent
    PROVE  EventsMarked'
<1>1. receiver'.at = "recv"
    BY DEF Publish, Idle
<1>2. CASE UNCHANGED delivered
    BY <1>1, <1>2 DEF EventsMarked, Marked
<1>3. CASE delivered' = Append(delivered, receiver.prepared.batch)
  <2>1. PICK S : delivered \in Seq(S)
    BY DEF IsSequence
  <2>2. \A b \in DOMAIN delivered' :
          \/ b \in DOMAIN delivered /\ delivered'[b] = delivered[b]
          \/ delivered'[b] = receiver.prepared.batch
    BY <1>3, <2>1
  <2>3. QED
    BY <1>1, <2>2 DEF EventsMarked, Marked
<1>4. QED
    BY <1>2, <1>3 DEF Publish

(* Each step keeps what the flags know. *)
LEMMA GapKnownStep ==
    ASSUME SubscriptionsInOrder, AcknowledgementsPrepared, ErrorsHandled, EndsOnce, QueueInStream,
           GapKnown, [Next]_vars
    PROVE  GapKnown'
<1> USE DEF GapKnown, SubscriptionsInOrder, ErrorsHandled, EndsOnce, ErrorIsFatal, AllRunning,
       Tasks, Coins,
       vars, runVars, sessionVars, taskVars, gapVars, deliveryVars, consumerVars, endVars
<1>1. CASE ConnectFailsForNow
    BY <1>1 DEF ConnectFailsForNow, BackOff
<1>2. CASE ConnectFailsForGood
    BY <1>2 DEF ConnectFailsForGood, EndRun, DropSession
<1>3. CASE Connected
    BY <1>3 DEF Connected
<1>4. CASE CancelRun
    BY <1>4 DEF CancelRun, EndRun, DropSession
<1>5. CASE SessionEnds
    BY <1>5 DEF SessionEnds, DropSession, Failed
<1>6. CASE Leave
    BY <1>6 DEF Leave, EndRun, DropSession, BackOff
<1>7. CASE Reconnect
  <2>1. /\ producer = "backoff" /\ producer' = "connect" /\ session' = session + 1
        /\ uncertain' = FALSE /\ UNCHANGED <<sending, stickyGap, firstSent>>
    BY <1>7 DEF Reconnect
  <2>2. session' # None /\ session' \in Nat
    BY <2>1, CollectorAssumption
  <2>3. firstSent # session' /\ (firstSent # None => firstSent <= session')
    BY <2>1, <2>2
  <2>4. stickyGap <=> firstSent \notin {None, session'}
    BY <2>1, <2>3
  <2>5. QED
    BY <2>1, <2>2, <2>3, <2>4
<1>8. CASE HeartbeatFails
    BY <1>8 DEF HeartbeatFails, Runs, TaskFails
<1>9. CASE ActivationStarts
  <2>0. 1 \in Coins
    BY CollectorAssumption
  <2>1. /\ producer = "session" /\ uncertain' \in BOOLEAN /\ uncertain'
        /\ firstSent' = IF firstSent = None THEN session ELSE firstSent
        /\ UNCHANGED <<producer, session, stickyGap, tasks>>
    <3> HIDE DEF Coins, GapKnown, SubscriptionsInOrder, ErrorsHandled, EndsOnce
    <3>1. uncertain' = (uncertain \/ 1 \in Coins)
      BY <1>9 DEF ActivationStarts, StartSend
    <3>2. uncertain' \in BOOLEAN /\ uncertain'
      BY <2>0, <3>1
    <3>3. firstSent' = IF firstSent = None THEN session ELSE firstSent
      BY <1>9, <2>0 DEF ActivationStarts, StartSend
    <3>4. producer = "session" /\ UNCHANGED <<producer, session, stickyGap, tasks>>
      BY <1>9 DEF ActivationStarts, Runs
    <3>5. QED
      BY <3>2, <3>3, <3>4
  <2>2. session # None
    BY CollectorAssumption
  <2>3. firstSent' \in Nat /\ firstSent' # None /\ firstSent' <= session'
    BY <2>1, <2>2
  <2>4. tasks["receiver"] # "fatal" => (stickyGap <=> firstSent' \notin {None, session})
    BY <2>1, <2>2
  <2>5. QED
    BY <2>1, <2>3, <2>4
<1>10. CASE SendReturns
    BY <1>10 DEF SendReturns, Runs, StartSend, AfterSend
<1>11. CASE ActivationCompletes
    BY <1>11 DEF ActivationCompletes, Runs, TaskFails
<1>12. CASE ActivationFails
    BY <1>12 DEF ActivationFails, Runs, TaskFails
<1>13. CASE ReceiveFails
    BY <1>13 DEF ReceiveFails, ReceiverAt, Runs, TaskFails
<1>14. CASE Receive
    BY <1>14 DEF Receive, ReceiverAt, Runs
<1>15. CASE SinkFails
    BY <1>15 DEF SinkFails, ReceiverAt, Runs, ReceiverFails, TaskFails
<1>16. CASE RawAccepted
    BY <1>16 DEF RawAccepted, ReceiverAt, Runs
<1>17. CASE OutcomeAccepted
    BY <1>17 DEF OutcomeAccepted, ReceiverAt, Runs, Commit, Acknowledge, AwaitRoom, Publish
<1>18. CASE RejectionAccepted
    BY <1>18 DEF RejectionAccepted, ReceiverAt, Runs, ReceiverFails, TaskFails
<1>19. CASE Put
    BY <1>19 DEF Put, ReceiverAt, Runs, Publish
<1>20. CASE PutTimesOut
    BY <1>20 DEF PutTimesOut, ReceiverAt, Runs, ReceiverFails, TaskFails
<1>21. CASE CloseOutcomeSink
    BY <1>21 DEF CloseOutcomeSink
<1>22. CASE CloseRawSink
    BY <1>22 DEF CloseRawSink
<1>23. CASE ConsumerRound
    BY <1>23 DEF ConsumerRound, Answer
<1>24. CASE ConsumerCanceled
    BY <1>24 DEF ConsumerCanceled
<1>25. CASE UNCHANGED vars
    BY <1>25
<1>26. QED
    BY <1>1, <1>2, <1>3, <1>4, <1>5, <1>6, <1>7, <1>8, <1>9, <1>10, <1>11, <1>12, <1>13, <1>14,
           <1>15, <1>16, <1>17, <1>18, <1>19, <1>20, <1>21, <1>22, <1>23, <1>24, <1>25 DEF Next

(* Each step keeps the marks. *)
LEMMA EventsMarkedStep ==
    ASSUME SubscriptionsInOrder, AcknowledgementsPrepared, ErrorsHandled, EndsOnce, QueueInStream,
           GapKnown, EventsMarked, [Next]_vars
    PROVE  EventsMarked'
<1> USE DEF EventsMarked, Marked, GapKnown, SubscriptionsInOrder, Idle,
       vars, runVars, sessionVars, taskVars, gapVars, deliveryVars, consumerVars, endVars
<1>1. CASE ConnectFailsForNow
    BY <1>1 DEF ConnectFailsForNow, BackOff
<1>2. CASE ConnectFailsForGood
    BY <1>2 DEF ConnectFailsForGood, EndRun, DropSession
<1>3. CASE Connected
    BY <1>3 DEF Connected
<1>4. CASE CancelRun
    BY <1>4 DEF CancelRun, EndRun, DropSession
<1>5. CASE SessionEnds
    BY <1>5 DEF SessionEnds, DropSession, Failed
<1>6. CASE Leave
    BY <1>6 DEF Leave, EndRun, DropSession, BackOff
<1>7. CASE Reconnect
    BY <1>7 DEF Reconnect
<1>8. CASE HeartbeatFails
    BY <1>8 DEF HeartbeatFails, Runs, TaskFails
<1>9. CASE ActivationStarts
    BY <1>9 DEF ActivationStarts, Runs, StartSend
<1>10. CASE SendReturns
    BY <1>10 DEF SendReturns, Runs, StartSend, AfterSend
<1>11. CASE ActivationCompletes
    BY <1>11 DEF ActivationCompletes, Runs, TaskFails
<1>12. CASE ActivationFails
    BY <1>12 DEF ActivationFails, Runs, TaskFails
<1>13. CASE ReceiveFails
    BY <1>13 DEF ReceiveFails, ReceiverAt, Runs, TaskFails
<1>14. CASE Receive
    BY <1>14 DEF Receive, ReceiverAt, Runs
<1>15. CASE SinkFails
    BY <1>15 DEF SinkFails, ReceiverAt, Runs, ReceiverFails, TaskFails
<1>16. CASE RawAccepted
  <2>1. /\ receiver.message \in Messages /\ producer = "session" /\ tasks["receiver"] = "running"
        /\ receiver' = [at |-> "outcome", prepared |-> Prepare(receiver.message)]
        /\ UNCHANGED <<firstSent, delivered>>
    BY <1>16 DEF RawAccepted, ReceiverAt, Runs, AcknowledgementsPrepared
  <2>2. QED
    BY <2>1, PreparedMarked
<1>17. CASE OutcomeAccepted
  <2>1. receiver.at = "outcome" /\ UNCHANGED firstSent
    BY <1>17 DEF OutcomeAccepted, ReceiverAt
  <2>2. CASE Publish(receiver.prepared)
    BY <2>1, <2>2, PublishMarked DEF QueueInStream
  <2>3. CASE ~Publish(receiver.prepared)
    BY <1>17, <2>1, <2>3 DEF OutcomeAccepted, Commit, Acknowledge, AwaitRoom
  <2>4. QED
    BY <2>2, <2>3
<1>18. CASE RejectionAccepted
    BY <1>18 DEF RejectionAccepted, ReceiverAt, Runs, ReceiverFails, TaskFails
<1>19. CASE Put
  <2>1. receiver.at = "put" /\ UNCHANGED firstSent
    BY <1>19 DEF Put, ReceiverAt
  <2>2. QED
    BY <1>19, <2>1, PublishMarked DEF Put, QueueInStream
<1>20. CASE PutTimesOut
    BY <1>20 DEF PutTimesOut, ReceiverAt, Runs, ReceiverFails, TaskFails
<1>21. CASE CloseOutcomeSink
    BY <1>21 DEF CloseOutcomeSink
<1>22. CASE CloseRawSink
    BY <1>22 DEF CloseRawSink
<1>23. CASE ConsumerRound
    BY <1>23 DEF ConsumerRound, Answer
<1>24. CASE ConsumerCanceled
    BY <1>24 DEF ConsumerCanceled
<1>25. CASE UNCHANGED vars
    BY <1>25
<1>26. QED
    BY <1>1, <1>2, <1>3, <1>4, <1>5, <1>6, <1>7, <1>8, <1>9, <1>10, <1>11, <1>12, <1>13, <1>14,
           <1>15, <1>16, <1>17, <1>18, <1>19, <1>20, <1>21, <1>22, <1>23, <1>24, <1>25 DEF Next

(* At the start nothing is subscribed, prepared or delivered. *)
LEMMA GapInit ==
    ASSUME Init
    PROVE  GapKnown /\ EventsMarked
<1>1. /\ session = 1 /\ firstSent = None /\ stickyGap = FALSE /\ uncertain = FALSE
      /\ producer = "connect" /\ sending = 0
    BY DEF Init
<1>2. session # None
    BY <1>1, CollectorAssumption
<1>3. GapKnown
    BY <1>1, <1>2 DEF GapKnown
<1>4. receiver.at = "recv"
    BY DEF Init, Idle
<1>5. DOMAIN delivered = {}
  <2>1. delivered = <<>>
    BY DEF Init
  <2>2. QED
    BY <2>1
<1>6. QED
    BY <1>3, <1>4, <1>5 DEF EventsMarked

(* An event follows a gap exactly when an earlier session may have been    *)
(* subscribed (_run_private, _subscribe_and_await_activation).             *)
THEOREM GapAlwaysMarked == Spec => []GapMarksLaterSessions
<1>1. CollectorInv /\ GapKnown /\ EventsMarked /\ [Next]_vars => (GapKnown /\ EventsMarked)'
    BY GapKnownStep, EventsMarkedStep DEF CollectorInv
<1>2. EventsMarked => GapMarksLaterSessions
    BY DEF EventsMarked, Marked, GapMarksLaterSessions
<1>3. QED
    BY <1>1, <1>2, GapInit, CollectorInvariant, PTL DEF Spec
-----------------------------------------------------------------------------
(* The deduplication cache.                                                *)

(* A set of natural numbers has a least one.                               *)
LEMMA LeastNumber ==
    ASSUME NEW T \in SUBSET Nat, T # {}
    PROVE  \E x \in T : \A y \in T : x <= y
<1> DEFINE R == OpToRel(<, Nat)
<1>1. IsWellFoundedOn(R, Nat)
    BY NatLessThanWellFounded
<1>2. \A x, y \in Nat : x < y => <<x, y>> \in R
    BY DEF OpToRel
<1> HIDE DEF R
<1>3. PICK x \in T : \A y \in T : ~(<<y, x>> \in R)
    BY <1>1, WFMin
<1>4. ASSUME NEW y \in T PROVE x <= y
  <2>1. x \in Nat /\ y \in Nat /\ ~(y < x)
      BY <1>2, <1>3
  <2>2. QED
      BY <2>1
<1>5. QED
    BY <1>4

(* So a set that holds 0 and the successor of each of its numbers holds    *)
(* all of them.                                                            *)
LEMMA EveryNumber ==
    ASSUME NEW S, 0 \in S, \A n \in Nat : n \in S => n + 1 \in S
    PROVE  \A n \in Nat : n \in S
<1> DEFINE T == {n \in Nat : n \notin S}
<1>1. SUFFICES ASSUME T # {} PROVE FALSE
    OBVIOUS
<1>2. PICK m \in T : \A y \in T : m <= y
  <2>1. T \in SUBSET Nat
      OBVIOUS
  <2> HIDE DEF T
  <2>2. QED
      BY <1>1, <2>1, LeastNumber
<1>3. m # 0 /\ m - 1 \in Nat /\ m - 1 \notin T
    BY <1>2
<1>4. QED
    BY <1>2, <1>3

(* And of the indices up to n in a set, one is the last.                   *)
LEMMA LastIndex ==
    ASSUME NEW n \in Nat, NEW T \in SUBSET (1..n), T # {}
    PROVE  \E x \in T : \A y \in T : y <= x
<1> DEFINE U == {d \in Nat : n - d \in T}
<1>1. PICK d \in U : \A e \in U : d <= e
  <2>1. U \in SUBSET Nat
      OBVIOUS
  <2>2. PICK x \in T : TRUE
      OBVIOUS
  <2>3. n - x \in Nat /\ n - (n - x) = x
      BY <2>2
  <2>4. U # {}
      BY <2>2, <2>3
  <2> HIDE DEF U
  <2>5. QED
      BY <2>1, <2>4, LeastNumber
<1>2. n - d \in T
    BY <1>1
<1>3. ASSUME NEW y \in T PROVE y <= n - d
  <2>1. n - y \in Nat /\ n - (n - y) = y
      OBVIOUS
  <2>2. d <= n - y
      BY <1>1, <2>1
  <2>3. QED
      BY <1>1, <2>2
<1>4. QED
    BY <1>2, <1>3

(* Folded(f, start, trades, n): f is the fold of Examine over each set of  *)
(* the first n trades.                                                     *)
Folded(f, start, trades, n) ==
    f = [s \in SUBSET (1..n) |->
           IF s = {} THEN start
           ELSE Examine(f[s \ {Max(s)}], trades[Max(s)])]

(* The greatest of indices up to n that hold n is n.                       *)
LEMMA GreatestIsLast ==
    ASSUME NEW n \in Nat, NEW s \in SUBSET (1..n), n \in s
    PROVE  Max(s) = n
<1> DEFINE Greatest(x) == \A y \in s : x >= y
<1>1. \A y \in s : y \in Nat /\ n >= y
    OBVIOUS
<1>2. Greatest(n)
    BY <1>1
<1>3. ASSUME NEW x \in s, Greatest(x) PROVE x = n
  <2>1. x >= n /\ n >= x /\ x \in Nat
      BY <1>1, <1>3
  <2>2. QED
      BY <2>1
<1>4. Max(s) = CHOOSE x \in s : Greatest(x)
    BY DEF Max
<1> HIDE DEF Greatest
<1>5. QED
    BY <1>2, <1>3, <1>4

(* Trades can be folded, however many.                                     *)
LEMMA FoldExists ==
    ASSUME NEW start, NEW trades
    PROVE  \A n \in Nat : \E f : Folded(f, start, trades, n)
<1> DEFINE S == {n \in Nat : \E f : Folded(f, start, trades, n)}
<1>1. 0 \in S
  <2>1. Folded([s \in SUBSET (1..0) |-> start], start, trades, 0)
      BY DEF Folded
  <2>2. QED
      BY <2>1
<1>2. ASSUME NEW n \in Nat, n \in S PROVE n + 1 \in S
  <2>1. PICK f : Folded(f, start, trades, n)
      BY <1>2
  <2>2. PICK k \in Nat : k = n + 1 /\ k \notin 1..n /\ 1..k = (1..n) \cup {k}
      OBVIOUS
  <2> DEFINE g == [s \in SUBSET (1..k) |->
                     IF k \in s THEN Examine(f[s \ {k}], trades[k]) ELSE f[s]]
  <2>3. ASSUME NEW s \in SUBSET (1..k)
        PROVE  g[s] = IF s = {} THEN start ELSE Examine(g[s \ {Max(s)}], trades[Max(s)])
    <3>1. CASE k \in s
      <4>1. Max(s) = k /\ s # {}
          BY <3>1, GreatestIsLast
      <4>2. s \ {k} \in SUBSET (1..k) /\ k \notin s \ {k}
          OBVIOUS
      <4>3. g[s \ {k}] = f[s \ {k}] /\ g[s] = Examine(f[s \ {k}], trades[k])
          BY <3>1, <4>2
      <4> HIDE DEF g
      <4>4. QED
          BY <4>1, <4>3
    <3>2. CASE k \notin s
      <4>1. s \in SUBSET (1..n) /\ s \ {Max(s)} \in SUBSET (1..n)
          BY <2>2, <3>2
      <4>2. f[s] = IF s = {} THEN start ELSE Examine(f[s \ {Max(s)}], trades[Max(s)])
          BY <2>1, <4>1 DEF Folded
      <4>3. g[s] = f[s]
          BY <3>2
      <4>4. s \ {Max(s)} \in SUBSET (1..k) /\ k \notin s \ {Max(s)}
          BY <3>2
      <4>5. g[s \ {Max(s)}] = f[s \ {Max(s)}]
          BY <4>4
      <4> HIDE DEF g
      <4>6. QED
          BY <4>2, <4>3, <4>5
    <3>3. QED
        BY <3>1, <3>2
  <2>4. g = [s \in SUBSET (1..k) |-> g[s]]
      OBVIOUS
  <2> HIDE DEF g
  <2>5. Folded(g, start, trades, k)
      BY <2>3, <2>4 DEF Folded
  <2>6. QED
      BY <2>2, <2>5
<1> HIDE DEF S
<1>3. \A n \in Nat : n \in S
    BY <1>1, <1>2, EveryNumber
<1>4. QED
    BY <1>3 DEF S

(* What Examine keeps, whatever the trade, the fold of a frame keeps.      *)
LEMMA FoldKeeps ==
    ASSUME NEW start, NEW T, NEW trades \in Seq(T), NEW S, start \in S,
           \A w \in S, i \in DOMAIN trades : Examine(w, trades[i]) \in S
    PROVE  FoldLeft(Examine, start, trades) \in S
<1> DEFINE n == Len(trades)
<1>1. n \in Nat /\ DOMAIN trades = 1..n
    OBVIOUS
<1> DEFINE f == CHOOSE g : Folded(g, start, trades, n)
<1>2. Folded(f, start, trades, n)
    BY <1>1, FoldExists
<1>3. FoldLeft(Examine, start, trades) = f[1..n]
    BY <1>1 DEF FoldLeft, MapThenFoldSet, Folded
<1> HIDE DEF f
<1> DEFINE M == {m \in Nat : m <= n => f[1..m] \in S}
<1>4. 0 \in M
  <2>1. 1..0 = {} /\ {} \in SUBSET (1..n)
      OBVIOUS
  <2>2. f[{}] = start
      BY <1>2, <2>1 DEF Folded
  <2>3. QED
      BY <2>1, <2>2
<1>5. ASSUME NEW m \in Nat, m \in M PROVE m + 1 \in M
  <2>1. PICK k \in Nat : k = m + 1
      OBVIOUS
  <2>2. SUFFICES ASSUME k <= n PROVE f[1..k] \in S
      BY <2>1
  <2>3. /\ 1..k \in SUBSET (1..n) /\ k \in 1..k /\ (1..k) \ {k} = 1..m /\ 1..k # {}
        /\ k \in DOMAIN trades /\ m <= n
      BY <1>1, <2>1, <2>2
  <2>4. Max(1..k) = k
      BY <2>3, GreatestIsLast
  <2>5. f[1..k] = Examine(f[1..m], trades[k])
    <3>1. f[1..k] = Examine(f[(1..k) \ {Max(1..k)}], trades[Max(1..k)])
        BY <1>2, <2>3 DEF Folded
    <3>2. QED
        BY <2>3, <2>4, <3>1
  <2>6. f[1..m] \in S
      BY <1>5, <2>3
  <2>7. QED
      BY <2>3, <2>5, <2>6
<1> HIDE DEF M
<1>6. n \in M
    BY <1>1, <1>4, <1>5, EveryNumber
<1>7. QED
    BY <1>1, <1>3, <1>6 DEF M

(* What the cache is about.                                                *)
Prints == [id : Nat, version : Nat]
Sightings == [id : Nat, version : Nat, frame : Nat, new : BOOLEAN]
PrintOf(sighting) == [id |-> sighting.id, version |-> sighting.version]

(* i is where trail shows its id last; the ids it shows after i.           *)
LastShown(trail, i) == \A j \in DOMAIN trail : j > i => trail[j].id # trail[i].id
IdsAfter(trail, i) == {trail[j].id : j \in {k \in DOMAIN trail : k > i}}

(* Each fingerprint is the last sighting of its id, older ones first, and  *)
(* an id that is not known any more was last seen before as many others as *)
(* the cache can hold.  Ordered is the first half: places tells where.     *)
Ordered(prints, trail, places) ==
    /\ places \in [1..Len(prints) -> DOMAIN trail]
    /\ \A p \in 1..Len(prints) :
         prints[p] = PrintOf(trail[places[p]]) /\ LastShown(trail, places[p])
    /\ \A p, q \in 1..Len(prints) : p < q => places[p] < places[q]

Forgotten(prints, trail) ==
    \A i \in DOMAIN trail : LastShown(trail, i) =>
        \/ \E p \in 1..Len(prints) : prints[p].id = trail[i].id
        \/ Cardinality(IdsAfter(trail, i)) >= DedupCapacity

Recent(prints, trail) ==
    /\ prints \in Seq(Prints) /\ Len(prints) <= DedupCapacity
    /\ \E places : Ordered(prints, trail, places)
    /\ Forgotten(prints, trail)

(* RepeatOnlyAfterEviction, of any trail.                                  *)
RepeatsJustified(trail) ==
    \A i, j \in DOMAIN trail :
        (i < j /\ trail[i].id = trail[j].id /\ trail[j].new) =>
            /\ trail[i].frame # trail[j].frame
            /\ Cardinality({trail[k].id : k \in i + 1..j - 1} \ {trail[i].id}) >= DedupCapacity

(* A trail shows finitely many ids.                                        *)
LEMMA ShownFinite ==
    ASSUME NEW trail \in Seq(Sightings), NEW K \in SUBSET DOMAIN trail
    PROVE  IsFiniteSet({trail[k].id : k \in K})
<1> DEFINE T == {trail[k].id : k \in K}
           f == [k \in K |-> trail[k].id]
<1>1. IsFiniteSet(K)
  <2>1. Len(trail) \in Nat /\ K \in SUBSET (1..Len(trail))
      OBVIOUS
  <2>2. IsFiniteSet(1..Len(trail))
      BY <2>1, FS_Interval
  <2>3. QED
      BY <2>1, <2>2, FS_Subset
<1>2. f \in Surjection(K, T)
    BY DEF Surjection
<1> HIDE DEF f, T
<1>3. IsFiniteSet(T)
    BY <1>1, <1>2, FS_Surjection
<1>4. QED
    BY <1>3 DEF T

(* More ids are no fewer.                                                  *)
LEMMA MoreIds ==
    ASSUME NEW S, NEW T, IsFiniteSet(T), S \subseteq T, Cardinality(S) >= DedupCapacity
    PROVE  Cardinality(T) >= DedupCapacity
<1>1. IsFiniteSet(S) /\ Cardinality(S) <= Cardinality(T)
    BY FS_Subset
<1>2. Cardinality(S) \in Nat /\ Cardinality(T) \in Nat
    BY <1>1, FS_CardinalityType
<1>3. DedupCapacity \in Nat
    BY CollectorAssumption
<1>4. QED
    BY <1>1, <1>2, <1>3

(* A longer trail.                                                         *)
LEMMA LongerTrail ==
    ASSUME NEW trail \in Seq(Sightings), NEW x \in Sightings
    PROVE  /\ Append(trail, x) \in Seq(Sightings)
           /\ DOMAIN Append(trail, x) = DOMAIN trail \cup {Len(trail) + 1}
           /\ Append(trail, x)[Len(trail) + 1] = x
           /\ \A i \in DOMAIN trail : /\ Append(trail, x)[i] = trail[i]
                                      /\ i \in Nat /\ i < Len(trail) + 1
           /\ Len(trail) \in Nat /\ Len(trail) + 1 \notin DOMAIN trail
    OBVIOUS

(* An id that was seen before was last seen somewhere.                     *)
LEMMA LastSighting ==
    ASSUME NEW trail \in Seq(Sightings), NEW i \in DOMAIN trail
    PROVE  \E l \in DOMAIN trail : l >= i /\ trail[l].id = trail[i].id /\ LastShown(trail, l)
<1> DEFINE n == Len(trail)
           T == {j \in 1..n : trail[j].id = trail[i].id}
<1>1. n \in Nat /\ DOMAIN trail = 1..n /\ i \in T
    OBVIOUS
<1>2. PICK l \in T : \A j \in T : j <= l
  <2>1. T \in SUBSET (1..n) /\ T # {}
      BY <1>1
  <2> HIDE DEF T, n
  <2>2. QED
      BY <1>1, <2>1, LastIndex
<1>3. l \in DOMAIN trail /\ l >= i /\ trail[l].id = trail[i].id
    BY <1>1, <1>2
<1>4. LastShown(trail, l)
  <2>1. SUFFICES ASSUME NEW j \in DOMAIN trail, j > l, trail[j].id = trail[l].id
                 PROVE  FALSE
      BY DEF LastShown
  <2>2. j \in T
      BY <1>1, <1>3, <2>1
  <2>3. j <= l /\ j \in Nat /\ l \in Nat
      BY <1>1, <1>2, <2>2
  <2>4. QED
      BY <2>1, <2>3
<1>5. QED
    BY <1>3, <1>4

(* The fingerprints of a cache have different ids.                         *)
LEMMA DifferentIds ==
    ASSUME NEW prints \in Seq(Prints), NEW trail \in Seq(Sightings), NEW places,
           Ordered(prints, trail, places),
           NEW p \in 1..Len(prints), NEW q \in 1..Len(prints), prints[p].id = prints[q].id
    PROVE  p = q
<1>1. \A a, b \in 1..Len(prints) : a < b => prints[a].id # prints[b].id
  <2>1. SUFFICES ASSUME NEW a \in 1..Len(prints), NEW b \in 1..Len(prints), a < b
                 PROVE  prints[a].id # prints[b].id
      OBVIOUS
  <2>2. places[a] < places[b] /\ places[a] \in DOMAIN trail /\ places[b] \in DOMAIN trail
      BY <2>1 DEF Ordered
  <2>3. trail[places[b]].id # trail[places[a]].id
    <3>1. places[b] > places[a] /\ LastShown(trail, places[a])
        BY <2>2 DEF Ordered
    <3>2. QED
        BY <2>2, <3>1 DEF LastShown
  <2>4. prints[a].id = trail[places[a]].id /\ prints[b].id = trail[places[b]].id
    <3>1. prints[a] = PrintOf(trail[places[a]]) /\ prints[b] = PrintOf(trail[places[b]])
        BY DEF Ordered
    <3>2. QED
        BY <3>1 DEF PrintOf
  <2>5. QED
      BY <2>3, <2>4
<1>2. p \in Nat /\ q \in Nat /\ ~(p < q) /\ ~(q < p)
    BY <1>1
<1>3. QED
    BY <1>2

(* A sequence without its element k.                                       *)
LEMMA RemoveAtIs ==
    ASSUME NEW S, NEW s \in Seq(S), NEW k \in 1..Len(s)
    PROVE  /\ RemoveAt(s, k) \in Seq(S) /\ Len(RemoveAt(s, k)) = Len(s) - 1
           /\ \A p \in 1..Len(s) - 1 : RemoveAt(s, k)[p] = IF p < k THEN s[p] ELSE s[p + 1]
<1> DEFINE a == SubSeq(s, 1, k - 1)  b == SubSeq(s, k + 1, Len(s))
<1>1. Len(s) \in Nat /\ k \in Nat /\ k >= 1 /\ k <= Len(s)
    OBVIOUS
<1>2. /\ a \in Seq(S) /\ Len(a) = k - 1
      /\ \A p \in 1..k - 1 : a[p] = s[p]
    BY <1>1
<1>3. /\ b \in Seq(S) /\ Len(b) = Len(s) - k
      /\ \A p \in 1..Len(s) - k : b[p] = s[k + p]
    BY <1>1
<1> HIDE DEF a, b
<1>4. /\ a \o b \in Seq(S) /\ Len(a \o b) = Len(s) - 1
      /\ \A p \in 1..Len(s) - 1 : (a \o b)[p] = IF p <= k - 1 THEN a[p] ELSE b[p - (k - 1)]
  <2>1. /\ a \o b \in Seq(S) /\ Len(a \o b) = Len(a) + Len(b)
        /\ \A p \in 1..Len(a) + Len(b) : (a \o b)[p] = IF p <= Len(a) THEN a[p] ELSE b[p - Len(a)]
      BY <1>2, <1>3, ConcatProperties
  <2>2. Len(a) + Len(b) = Len(s) - 1
      BY <1>1, <1>2, <1>3
  <2>3. QED
      BY <1>2, <2>1, <2>2
<1>5. ASSUME NEW p \in 1..Len(s) - 1
      PROVE  (a \o b)[p] = IF p < k THEN s[p] ELSE s[p + 1]
  <2>1. CASE p < k
      BY <1>1, <1>2, <1>4, <2>1
  <2>2. CASE ~(p < k)
    <3>1. p - (k - 1) \in 1..Len(s) - k /\ k + (p - (k - 1)) = p + 1 /\ ~(p <= k - 1)
        BY <1>1, <2>2
    <3>2. QED
        BY <1>3, <1>4, <2>2, <3>1
  <2>3. QED
      BY <2>1, <2>2
<1>6. RemoveAt(s, k) = a \o b
    BY DEF RemoveAt, a, b
<1>7. QED
    BY <1>4, <1>5, <1>6

(* A fingerprint is taken out of the cache where it stands, if it does.    *)
LEMMA RemoveFirstIs ==
    ASSUME NEW S, NEW s \in Seq(S), NEW e
    PROVE  \/ RemoveFirst(s, e) = s /\ \A p \in 1..Len(s) : s[p] # e
           \/ \E k \in 1..Len(s) : s[k] = e /\ RemoveFirst(s, e) = RemoveAt(s, k)
<1>1. CASE \E i \in 1..Len(s) : s[i] = e
  <2> DEFINE I == {i \in 1..Len(s) : s[i] = e}
  <2>1. I \in SUBSET Nat /\ I # {}
      BY <1>1
  <2>2. PICK m \in I : \A j \in I : m <= j
      BY <2>1, LeastNumber
  <2>3. Min(I) \in I
      BY <2>2 DEF Min
  <2>4. SelectInSeq(s, LAMBDA v : v = e) = Min(I)
      BY <2>1 DEF SelectInSeq
  <2>5. RemoveFirst(s, e) = RemoveAt(s, SelectInSeq(s, LAMBDA v : v = e))
      BY <1>1 DEF RemoveFirst
  <2>6. QED
      BY <2>3, <2>4, <2>5
<1>2. CASE ~\E i \in 1..Len(s) : s[i] = e
    BY <1>2 DEF RemoveFirst
<1>3. QED
    BY <1>1, <1>2

(* was tells which of the old fingerprints each of the rest is: none of    *)
(* them is of e's id, and they stand in the same order.                    *)
Were(rest, prints, e, was) ==
    /\ was \in [1..Len(rest) -> 1..Len(prints)]
    /\ \A p, q \in 1..Len(rest) : p < q => was[p] < was[q]
    /\ \A p \in 1..Len(rest) : rest[p] = prints[was[p]] /\ rest[p].id # e.id

(* All that is left of the cache once a fingerprint is taken out.          *)
LEMMA Rest ==
    ASSUME NEW prints \in Seq(Prints), NEW e,
           \A p, q \in 1..Len(prints) : prints[p].id = prints[q].id => p = q,
           \A p \in 1..Len(prints) : prints[p].id = e.id => prints[p] = e
    PROVE  LET rest == RemoveFirst(prints, e)
           IN  /\ rest \in Seq(Prints) /\ Len(rest) <= Len(prints)
               /\ \E was : Were(rest, prints, e, was)
               /\ \A q \in 1..Len(prints) : prints[q].id # e.id =>
                    \E p \in 1..Len(rest) : rest[p] = prints[q]
<1> DEFINE rest == RemoveFirst(prints, e)
<1>0. Len(prints) \in Nat
    OBVIOUS
<1>1. CASE rest = prints /\ \A p \in 1..Len(prints) : prints[p] # e
  <2> DEFINE was == [p \in 1..Len(prints) |-> p]
  <2>1. /\ was \in [1..Len(prints) -> 1..Len(prints)]
        /\ \A p, q \in 1..Len(prints) : p < q => was[p] < was[q]
        /\ \A p \in 1..Len(prints) : prints[p] = prints[was[p]]
      OBVIOUS
  <2>2. \A p \in 1..Len(prints) : prints[p].id # e.id
      BY <1>1
  <2>3. Len(prints) <= Len(prints)
      BY <1>0
  <2>4. Were(prints, prints, e, was)
      BY <1>1, <2>1, <2>2 DEF Were
  <2> HIDE DEF was, rest
  <2>5. QED
      BY <1>1, <2>3, <2>4 DEF rest
<1>2. ASSUME NEW k \in 1..Len(prints), prints[k] = e, rest = RemoveAt(prints, k)
      PROVE  /\ rest \in Seq(Prints) /\ Len(rest) <= Len(prints)
             /\ \E was : Were(rest, prints, e, was)
             /\ \A q \in 1..Len(prints) : prints[q].id # e.id =>
                  \E p \in 1..Len(rest) : rest[p] = prints[q]
  <2> HIDE DEF rest
  <2>1. /\ rest \in Seq(Prints) /\ Len(rest) = Len(prints) - 1
        /\ \A p \in 1..Len(rest) : rest[p] = IF p < k THEN prints[p] ELSE prints[p + 1]
      BY <1>2, RemoveAtIs
  <2> DEFINE was == [p \in 1..Len(rest) |-> IF p < k THEN p ELSE p + 1]
  <2>2. /\ was \in [1..Len(rest) -> 1..Len(prints)]
        /\ \A p, q \in 1..Len(rest) : p < q => was[p] < was[q]
        /\ \A p \in 1..Len(rest) : was[p] # k
      BY <1>0, <2>1
  <2>3. \A p \in 1..Len(rest) : rest[p] = prints[was[p]]
      BY <2>1
  <2>4. ASSUME NEW q \in 1..Len(prints), prints[q].id # e.id
        PROVE  \E p \in 1..Len(rest) : rest[p] = prints[q]
    <3>1. q # k
        BY <1>2, <2>4
    <3>2. CASE q < k
      <4>1. q \in 1..Len(rest) /\ rest[q] = prints[q]
          BY <1>0, <2>1, <3>2
      <4>2. QED
          BY <4>1
    <3>3. CASE q > k
      <4>1. q - 1 \in 1..Len(rest) /\ ~(q - 1 < k) /\ (q - 1) + 1 = q
          BY <1>0, <2>1, <3>3
      <4>2. rest[q - 1] = prints[q]
          BY <2>1, <4>1
      <4>3. QED
          BY <4>1, <4>2
    <3>4. QED
        BY <3>1, <3>2, <3>3
  <2> HIDE DEF was
  <2>5. \A p \in 1..Len(rest) : rest[p].id # e.id
    <3>1. SUFFICES ASSUME NEW p \in 1..Len(rest), rest[p].id = e.id PROVE FALSE
        OBVIOUS
    <3>2. was[p] \in 1..Len(prints) /\ was[p] # k /\ prints[was[p]].id = prints[k].id
        BY <1>2, <2>2, <2>3, <3>1
    <3>3. QED
        BY <3>2
  <2>6. Len(rest) <= Len(prints)
      BY <1>0, <2>1
  <2>7. Were(rest, prints, e, was)
      BY <2>2, <2>3, <2>5 DEF Were
  <2>8. QED
      BY <2>1, <2>4, <2>6, <2>7
<1>3. QED
    BY <1>1, <1>2, RemoveFirstIs

(* What a later sighting leaves of the earlier ones.                       *)
LEMMA StillLast ==
    ASSUME NEW trail \in Seq(Sightings), NEW x \in Sightings, NEW i \in DOMAIN trail
    PROVE  /\ LastShown(trail, i) /\ trail[i].id # x.id => LastShown(Append(trail, x), i)
           /\ LastShown(Append(trail, x), i) => LastShown(trail, i) /\ trail[i].id # x.id
           /\ IdsAfter(trail, i) \subseteq IdsAfter(Append(trail, x), i)
<1> DEFINE t == Append(trail, x)
           n == Len(trail)
<1>1. /\ DOMAIN t = DOMAIN trail \cup {n + 1} /\ t[n + 1] = x /\ n + 1 > i /\ t[i] = trail[i]
      /\ \A j \in DOMAIN trail : t[j] = trail[j]
    BY LongerTrail
<1> HIDE DEF t, n
<1>2. LastShown(trail, i) /\ trail[i].id # x.id => LastShown(t, i)
    BY <1>1 DEF LastShown
<1>3. LastShown(t, i) => LastShown(trail, i) /\ trail[i].id # x.id
    BY <1>1 DEF LastShown
<1>4. IdsAfter(trail, i) \subseteq IdsAfter(t, i)
    BY <1>1 DEF IdsAfter
<1>5. QED
    BY <1>2, <1>3, <1>4 DEF t

(* move_to_end, or the insertion of a new id: before anything is trimmed.  *)
LEMMA MovedToEnd ==
    ASSUME NEW trail \in Seq(Sightings), NEW x \in Sightings, NEW prints \in Seq(Prints),
           NEW places, Ordered(prints, trail, places), Forgotten(prints, trail),
           \A p \in 1..Len(prints) : prints[p].id = x.id => prints[p] = PrintOf(x)
    PROVE  LET all == Append(RemoveFirst(prints, PrintOf(x)), PrintOf(x))
           IN  /\ all \in Seq(Prints) /\ Len(all) <= Len(prints) + 1
               /\ \E at : Ordered(all, Append(trail, x), at)
               /\ Forgotten(all, Append(trail, x))
<1> DEFINE e == PrintOf(x)
           rest == RemoveFirst(prints, e)
           all == Append(rest, e)
           t == Append(trail, x)
           n == Len(trail)
<1>0. e \in Prints /\ e.id = x.id
    BY DEF Sightings, Prints, PrintOf
<1>1. /\ t \in Seq(Sightings) /\ DOMAIN t = DOMAIN trail \cup {n + 1} /\ t[n + 1] = x
      /\ \A i \in DOMAIN trail : t[i] = trail[i] /\ i \in Nat /\ i < n + 1
      /\ n \in Nat /\ n + 1 \notin DOMAIN trail
    BY LongerTrail
<1>2. \A i \in DOMAIN trail :
        /\ LastShown(trail, i) /\ trail[i].id # x.id => LastShown(t, i)
        /\ LastShown(t, i) => LastShown(trail, i) /\ trail[i].id # x.id
        /\ IdsAfter(trail, i) \subseteq IdsAfter(t, i)
    BY StillLast
<1>3. \A p, q \in 1..Len(prints) : prints[p].id = prints[q].id => p = q
    BY DifferentIds
<1>4. /\ rest \in Seq(Prints) /\ Len(rest) <= Len(prints)
      /\ \E was : Were(rest, prints, e, was)
      /\ \A q \in 1..Len(prints) : prints[q].id # e.id => \E p \in 1..Len(rest) : rest[p] = prints[q]
  <2>1. \A p \in 1..Len(prints) : prints[p].id = e.id => prints[p] = e
      BY <1>0
  <2> HIDE DEF e
  <2>2. QED
      BY <1>3, <2>1, Rest
<1>5. PICK was : Were(rest, prints, e, was)
    BY <1>4
<1>6. Len(rest) \in Nat /\ Len(prints) \in Nat
    BY <1>4
<1> HIDE DEF e, rest
<1>7. /\ all \in Seq(Prints) /\ Len(all) = Len(rest) + 1 /\ all[Len(rest) + 1] = e
      /\ \A p \in 1..Len(rest) : all[p] = rest[p]
    BY <1>0, <1>4
<1> HIDE DEF all, t, n
<1> DEFINE at == [p \in 1..Len(rest) + 1 |-> IF p <= Len(rest) THEN places[was[p]] ELSE n + 1]
<1>8. /\ at \in [1..Len(rest) + 1 -> DOMAIN t] /\ at[Len(rest) + 1] = n + 1
      /\ \A p \in 1..Len(rest) : at[p] = places[was[p]] /\ at[p] \in DOMAIN trail
  <2>1. \A p \in 1..Len(rest) : places[was[p]] \in DOMAIN trail
      BY <1>5 DEF Ordered, Were
  <2>2. n + 1 \in DOMAIN t /\ DOMAIN trail \subseteq DOMAIN t
      BY <1>1
  <2>3. QED
      BY <1>6, <2>1, <2>2
<1> HIDE DEF at
<1>9. ASSUME NEW p \in 1..Len(all)
      PROVE  all[p] = PrintOf(t[at[p]]) /\ LastShown(t, at[p])
  <2>1. CASE p \in 1..Len(rest)
    <3>1. rest[p] = prints[was[p]] /\ rest[p].id # e.id /\ was[p] \in 1..Len(prints)
        BY <1>5, <2>1 DEF Were
    <3>2. prints[was[p]] = PrintOf(trail[at[p]]) /\ LastShown(trail, at[p])
        BY <1>8, <2>1, <3>1 DEF Ordered
    <3>3. trail[at[p]].id # x.id
        BY <1>0, <3>1, <3>2 DEF PrintOf
    <3>4. QED
        BY <1>1, <1>2, <1>7, <1>8, <2>1, <3>1, <3>2, <3>3
  <2>2. CASE p = Len(rest) + 1
    <3>1. all[p] = e /\ at[p] = n + 1
        BY <1>7, <1>8, <2>2
    <3>2. LastShown(t, n + 1)
        BY <1>1 DEF LastShown
    <3>3. QED
        BY <1>1, <3>1, <3>2 DEF e
  <2>3. p \in 1..Len(rest) \/ p = Len(rest) + 1
      BY <1>6, <1>7
  <2>4. QED
      BY <2>1, <2>2, <2>3
<1>10. ASSUME NEW p \in 1..Len(all), NEW q \in 1..Len(all), p < q
       PROVE  at[p] < at[q]
  <2>1. p \in 1..Len(rest)
      BY <1>6, <1>7, <1>10
  <2>2. CASE q \in 1..Len(rest)
    <3>1. was[p] < was[q] /\ was[p] \in 1..Len(prints) /\ was[q] \in 1..Len(prints)
        BY <1>5, <1>10, <2>1, <2>2 DEF Were
    <3>2. places[was[p]] < places[was[q]]
        BY <3>1 DEF Ordered
    <3>3. QED
        BY <1>8, <2>1, <2>2, <3>2
  <2>3. CASE q = Len(rest) + 1
      BY <1>1, <1>8, <2>1, <2>3
  <2>4. QED
      BY <1>6, <1>7, <2>2, <2>3
<1>11. Ordered(all, t, at)
    BY <1>7, <1>8, <1>9, <1>10 DEF Ordered
<1>12. ASSUME NEW i \in DOMAIN t, LastShown(t, i)
       PROVE  \/ \E p \in 1..Len(all) : all[p].id = t[i].id
              \/ Cardinality(IdsAfter(t, i)) >= DedupCapacity
  <2>1. CASE i = n + 1
    <3>1. Len(rest) + 1 \in 1..Len(all)
        BY <1>6, <1>7
    <3>2. QED
        BY <1>0, <1>1, <1>7, <2>1, <3>1
  <2>2. CASE i \in DOMAIN trail
    <3>1. LastShown(trail, i) /\ trail[i].id # x.id /\ t[i] = trail[i]
        BY <1>1, <1>2, <1>12, <2>2
    <3>2. CASE \E p \in 1..Len(prints) : prints[p].id = trail[i].id
      <4>1. PICK q \in 1..Len(prints) : prints[q].id = trail[i].id
          BY <3>2
      <4>2. PICK p \in 1..Len(rest) : rest[p] = prints[q]
          BY <1>0, <1>4, <3>1, <4>1
      <4>3. p \in 1..Len(all) /\ all[p].id = t[i].id
          BY <1>6, <1>7, <3>1, <4>1, <4>2
      <4>4. QED
          BY <4>3
    <3>3. CASE Cardinality(IdsAfter(trail, i)) >= DedupCapacity
      <4>1. IsFiniteSet(IdsAfter(t, i))
        <5>1. {k \in DOMAIN t : k > i} \in SUBSET DOMAIN t
            OBVIOUS
        <5>2. QED
            BY <1>1, <5>1, ShownFinite DEF IdsAfter
      <4>2. QED
          BY <1>2, <2>2, <3>3, <4>1, MoreIds
    <3>4. QED
        BY <2>2, <3>1, <3>2, <3>3 DEF Forgotten
  <2>3. QED
      BY <1>1, <2>1, <2>2
<1>13. Forgotten(all, t)
    BY <1>12 DEF Forgotten
<1>14. Len(all) <= Len(prints) + 1
    BY <1>4, <1>6, <1>7
<1>15. QED
    BY <1>7, <1>11, <1>13, <1>14 DEF all, t, rest, e

(* The trim drops a fingerprint that was seen before as many other ids as  *)
(* the cache holds.                                                        *)
LEMMA Trimmed ==
    ASSUME NEW trail \in Seq(Sightings), NEW all \in Seq(Prints), NEW at,
           Ordered(all, trail, at), Forgotten(all, trail), Len(all) = DedupCapacity + 1
    PROVE  /\ Tail(all) \in Seq(Prints) /\ Len(Tail(all)) = DedupCapacity
           /\ \E places : Ordered(Tail(all), trail, places)
           /\ Forgotten(Tail(all), trail)
<1> DEFINE rest == Tail(all)
<1>0. DedupCapacity \in Nat /\ DedupCapacity >= 1
    BY CollectorAssumption
<1>1. PICK c \in Nat : c = DedupCapacity /\ c >= 1 /\ Len(all) = c + 1
    BY <1>0
<1>2. PICK next \in [1..c -> 1..c + 1] :
        /\ \A p \in 1..c : next[p] = p + 1
        /\ \A p, q \in 1..c : p < q => next[p] < next[q]
        /\ \A p \in 1..c : 1 < next[p]
        /\ \A q \in 1..c + 1 : q # 1 => \E p \in 1..c : next[p] = q
  <2> DEFINE next == [p \in 1..c |-> p + 1]
  <2>1. ASSUME NEW q \in 1..c + 1, q # 1
        PROVE  \E p \in 1..c : next[p] = q
    <3>1. q - 1 \in 1..c /\ (q - 1) + 1 = q
        BY <2>1
    <3>2. QED
        BY <3>1
  <2>2. /\ next \in [1..c -> 1..c + 1]
        /\ \A p \in 1..c : next[p] = p + 1
        /\ \A p, q \in 1..c : p < q => next[p] < next[q]
        /\ \A p \in 1..c : 1 < next[p]
      OBVIOUS
  <2> HIDE DEF next
  <2>3. QED
      BY <2>1, <2>2
<1>3. /\ rest \in Seq(Prints) /\ Len(rest) = c
      /\ \A p \in 1..c : rest[p] = all[next[p]]
    BY <1>1, <1>2
<1> HIDE DEF rest
<1>4. \A p \in 1..c : next[p] \in 1..Len(all)
    BY <1>1, <1>2
<1> DEFINE places == [p \in 1..c |-> at[next[p]]]
<1>5. Ordered(rest, trail, places)
  <2>1. /\ at \in [1..Len(all) -> DOMAIN trail]
        /\ \A p \in 1..Len(all) : all[p] = PrintOf(trail[at[p]]) /\ LastShown(trail, at[p])
        /\ \A p, q \in 1..Len(all) : p < q => at[p] < at[q]
      BY DEF Ordered
  <2>2. places \in [1..c -> DOMAIN trail]
      BY <1>4, <2>1
  <2>3. \A p \in 1..c : rest[p] = PrintOf(trail[places[p]]) /\ LastShown(trail, places[p])
      BY <1>3, <1>4, <2>1
  <2>4. \A p, q \in 1..c : p < q => places[p] < places[q]
      BY <1>2, <1>4, <2>1
  <2> HIDE DEF places
  <2>5. QED
      BY <1>3, <2>2, <2>3, <2>4 DEF Ordered
<1> HIDE DEF places
<1>6. ASSUME NEW i \in DOMAIN trail, LastShown(trail, i), trail[i].id = all[1].id
      PROVE  Cardinality(IdsAfter(trail, i)) >= DedupCapacity
  <2> DEFINE f == [p \in 1..c |-> all[next[p]].id]
  <2>1. 1 \in 1..Len(all) /\ at[1] \in DOMAIN trail
    <3>1. 1 \in 1..Len(all)
        BY <1>1
    <3>2. QED
        BY <3>1 DEF Ordered
  <2>2. LastShown(trail, at[1]) /\ trail[at[1]].id = trail[i].id
      BY <1>6, <2>1 DEF Ordered, PrintOf
  <2>3. i = at[1]
    <3>1. i \in Nat /\ at[1] \in Nat
        BY <2>1
    <3>2. ~(i < at[1]) /\ ~(at[1] < i)
        BY <1>6, <2>1, <2>2 DEF LastShown
    <3>3. QED
        BY <3>1, <3>2
  <2>4. ASSUME NEW p \in 1..c
        PROVE  f[p] \in IdsAfter(trail, i)
    <3>1. next[p] \in 1..Len(all) /\ 1 < next[p]
        BY <1>2, <1>4
    <3>2. at[next[p]] \in DOMAIN trail /\ at[next[p]] > i
        BY <2>1, <2>3, <3>1 DEF Ordered
    <3>3. all[next[p]] = PrintOf(trail[at[next[p]]])
        BY <3>1 DEF Ordered
    <3>4. f[p] = trail[at[next[p]]].id
        BY <3>3 DEF PrintOf
    <3> HIDE DEF f
    <3>5. QED
        BY <3>2, <3>4 DEF IdsAfter
  <2>5. ASSUME NEW p \in 1..c, NEW q \in 1..c, f[p] = f[q]
        PROVE  p = q
    <3>1. next[p] = next[q]
        BY <1>4, <2>5, DifferentIds
    <3>2. QED
        BY <1>2, <3>1
  <2>6. f \in Injection(1..c, IdsAfter(trail, i))
    <3>1. f \in [1..c -> IdsAfter(trail, i)]
        BY <2>4
    <3>2. QED
        BY <2>5, <3>1 DEF Injection, IsInjective
  <2>7. IsFiniteSet(IdsAfter(trail, i))
    <3>1. {k \in DOMAIN trail : k > i} \in SUBSET DOMAIN trail
        OBVIOUS
    <3>2. QED
        BY <3>1, ShownFinite DEF IdsAfter
  <2>8. Cardinality(1..c) = c
      BY <1>1, FS_Interval
  <2> HIDE DEF f
  <2>9. Cardinality(1..c) <= Cardinality(IdsAfter(trail, i))
      BY <2>6, <2>7, FS_Injection
  <2>10. QED
      BY <1>1, <2>8, <2>9
<1>7. ASSUME NEW i \in DOMAIN trail, LastShown(trail, i)
      PROVE  \/ \E p \in 1..Len(rest) : rest[p].id = trail[i].id
             \/ Cardinality(IdsAfter(trail, i)) >= DedupCapacity
  <2>1. CASE \E p \in 1..Len(all) : all[p].id = trail[i].id
    <3>1. PICK q \in 1..c + 1 : all[q].id = trail[i].id
        BY <1>1, <2>1
    <3>2. CASE q = 1
        BY <1>6, <1>7, <3>1, <3>2
    <3>3. CASE q # 1
      <4>1. PICK p \in 1..c : next[p] = q
          BY <1>2, <3>3
      <4>2. QED
          BY <1>3, <3>1, <4>1
    <3>4. QED
        BY <3>2, <3>3
  <2>2. CASE Cardinality(IdsAfter(trail, i)) >= DedupCapacity
      BY <2>2
  <2>3. QED
      BY <1>7, <2>1, <2>2 DEF Forgotten
<1>8. Forgotten(rest, trail)
    BY <1>7 DEF Forgotten
<1>9. QED
    BY <1>1, <1>3, <1>5, <1>8 DEF rest

(* Remember keeps the cache recent, whatever it trims.                     *)
LEMMA RememberKeeps ==
    ASSUME NEW trail \in Seq(Sightings), NEW x \in Sightings, NEW prints,
           Recent(prints, trail),
           \A p \in 1..Len(prints) : prints[p].id = x.id => prints[p] = PrintOf(x)
    PROVE  Recent(Remember(prints, PrintOf(x)), Append(trail, x))
<1> DEFINE all == Append(RemoveFirst(prints, PrintOf(x)), PrintOf(x))
           t == Append(trail, x)
<1>1. prints \in Seq(Prints) /\ Len(prints) <= DedupCapacity /\ Forgotten(prints, trail)
    BY DEF Recent
<1>2. PICK places : Ordered(prints, trail, places)
    BY DEF Recent
<1>3. /\ all \in Seq(Prints) /\ Len(all) <= Len(prints) + 1
      /\ \E at : Ordered(all, t, at)
      /\ Forgotten(all, t)
    BY <1>1, <1>2, MovedToEnd
<1>4. PICK at : Ordered(all, t, at)
    BY <1>3
<1>5. t \in Seq(Sightings)
    OBVIOUS
<1>6. Remember(prints, PrintOf(x)) = IF Len(all) > DedupCapacity THEN Tail(all) ELSE all
    BY DEF Remember
<1> HIDE DEF all, t
<1>7. DedupCapacity \in Nat /\ Len(all) \in Nat /\ Len(prints) \in Nat
    BY <1>1, <1>3, CollectorAssumption
<1>8. CASE Len(all) > DedupCapacity
  <2>1. Len(all) = DedupCapacity + 1
      BY <1>1, <1>3, <1>7, <1>8
  <2>2. /\ Tail(all) \in Seq(Prints) /\ Len(Tail(all)) = DedupCapacity
        /\ \E places_1 : Ordered(Tail(all), t, places_1)
        /\ Forgotten(Tail(all), t)
      BY <1>3, <1>4, <1>5, <2>1, Trimmed
  <2>3. Recent(Tail(all), t)
      BY <1>7, <2>2 DEF Recent
  <2>4. QED
      BY <1>6, <1>8, <2>3 DEF t
<1>9. CASE ~(Len(all) > DedupCapacity)
  <2>1. Recent(all, t)
      BY <1>3, <1>7, <1>9 DEF Recent
  <2>2. QED
      BY <1>6, <1>9, <2>1 DEF t
<1>10. QED
    BY <1>8, <1>9

(* A trade may count as new when neither the cache nor its own frame knows *)
(* its id.                                                                 *)
LEMMA NewIsJustified ==
    ASSUME NEW trail \in Seq(Sightings), NEW x \in Sightings, NEW prints,
           Recent(prints, trail), RepeatsJustified(trail),
           x.new => \A p \in 1..Len(prints) : prints[p].id # x.id,
           x.new => \A i \in DOMAIN trail : trail[i].id = x.id => trail[i].frame # x.frame
    PROVE  RepeatsJustified(Append(trail, x))
<1> DEFINE t == Append(trail, x)
           n == Len(trail)
           Between(i, j) == {t[k].id : k \in i + 1..j - 1} \ {t[i].id}
<1>1. /\ t \in Seq(Sightings) /\ DOMAIN t = DOMAIN trail \cup {n + 1} /\ t[n + 1] = x
      /\ \A i \in DOMAIN trail : t[i] = trail[i] /\ i \in Nat /\ i < n + 1
      /\ n \in Nat /\ n + 1 \notin DOMAIN trail /\ DOMAIN trail = 1..n
    BY LongerTrail
<1> HIDE DEF t, n
<1>2. ASSUME NEW i \in DOMAIN t, NEW j \in DOMAIN t,
             i < j, t[i].id = t[j].id, t[j].new
      PROVE  t[i].frame # t[j].frame /\ Cardinality(Between(i, j)) >= DedupCapacity
  <2>1. i \in DOMAIN trail
      BY <1>1, <1>2
  <2>2. CASE j \in DOMAIN trail
    <3>1. Between(i, j) = {trail[k].id : k \in i + 1..j - 1} \ {trail[i].id}
      <4>1. \A k \in i + 1..j - 1 : k \in DOMAIN trail
          BY <1>1, <2>1, <2>2
      <4>2. t[i].id = trail[i].id /\ \A k \in i + 1..j - 1 : t[k].id = trail[k].id
          BY <1>1, <2>1, <4>1
      <4>3. QED
          BY ONLY <4>2
    <3>2. trail[i].id = trail[j].id /\ trail[j].new /\ t[i] = trail[i] /\ t[j] = trail[j]
        BY <1>1, <1>2, <2>1, <2>2
    <3>3. /\ trail[i].frame # trail[j].frame
          /\ Cardinality({trail[k].id : k \in i + 1..j - 1} \ {trail[i].id}) >= DedupCapacity
        BY <1>2, <2>1, <2>2, <3>2 DEF RepeatsJustified
    <3> HIDE DEF Between
    <3>4. QED
        BY <3>1, <3>2, <3>3
  <2>3. CASE j = n + 1
    <3>1. x.new /\ trail[i].id = x.id /\ t[i] = trail[i] /\ t[j] = x
        BY <1>1, <1>2, <2>1, <2>3
    <3>2. PICK l \in DOMAIN trail : l >= i /\ trail[l].id = trail[i].id /\ LastShown(trail, l)
        BY <2>1, LastSighting
    <3>3. Cardinality(IdsAfter(trail, l)) >= DedupCapacity
        BY <3>1, <3>2 DEF Recent, Forgotten
    <3>4. IdsAfter(trail, l) \subseteq Between(i, j)
      <4>1. SUFFICES ASSUME NEW k \in DOMAIN trail, k > l
                     PROVE  trail[k].id \in Between(i, j)
          BY DEF IdsAfter
      <4>2. k \in i + 1..j - 1
          BY <1>1, <2>1, <2>3, <3>2, <4>1
      <4>3. trail[k].id # t[i].id /\ t[k] = trail[k]
          BY <1>1, <3>1, <3>2, <4>1 DEF LastShown
      <4>4. QED
          BY <4>2, <4>3
    <3>5. IsFiniteSet(Between(i, j))
      <4> DEFINE K == i + 1..j - 1
      <4>1. K \in SUBSET DOMAIN t
          BY <1>1, <2>1, <2>3
      <4> HIDE DEF K
      <4>2. IsFiniteSet({t[k].id : k \in K})
          BY <1>1, <4>1, ShownFinite
      <4>3. Between(i, j) \subseteq {t[k].id : k \in K}
          BY DEF K
      <4> HIDE DEF Between
      <4>4. QED
          BY <4>2, <4>3, FS_Subset
    <3> HIDE DEF Between
    <3>6. Cardinality(Between(i, j)) >= DedupCapacity
        BY <3>3, <3>4, <3>5, MoreIds
    <3>7. QED
        BY <2>1, <3>1, <3>6
  <2>4. QED
      BY <1>1, <2>2, <2>3
<1>3. RepeatsJustified(t)
    BY <1>2 DEF RepeatsJustified
<1>4. QED
    BY <1>3 DEF t

-----------------------------------------------------------------------------
(* The trades of one message.                                              *)
Trades == [coin : Coins, id : Nat, version : Nat]

(* A version that reached the queue, or will with the batch at hand.       *)
Delivered(trade) ==
    \E b \in DOMAIN delivered : \E e \in DOMAIN delivered[b] :
        delivered[b][e].id = trade.id /\ delivered[b][e].version = trade.version

Held(trade, batch) ==
    \/ Delivered(trade)
    \/ \E i \in DOMAIN batch : batch[i].id = trade.id /\ batch[i].version = trade.version

(* What holds of the cache and the history once shown and batch are in.    *)
Consistent(prints, shown, batch) ==
    /\ shown \in Seq(Sightings)
    /\ Recent(prints, seen \o shown)
    /\ RepeatsJustified(seen \o shown)
    /\ \A i \in DOMAIN shown : shown[i].frame = frames /\ Held(shown[i], batch)

(* What every trade of the message keeps of the work on it.                *)
GoodWorks ==
    {work \in [rejected : BOOLEAN, frame : SUBSET Prints, cache : Seq(Prints),
               batch : Seq(Trades), seen : Seq(Sightings)] :
       ~work.rejected =>
         /\ Consistent(work.cache, work.seen, work.batch)
         /\ \A i \in DOMAIN work.seen : PrintOf(work.seen[i]) \in work.frame
         /\ \A print \in work.frame : Held(print, work.batch)}

(* The history as it was when the message came in.                         *)
SeenBefore ==
    /\ seen \in Seq(Sightings) /\ frames \in Nat
    /\ \A i \in DOMAIN seen : seen[i].frame < frames /\ Delivered(seen[i])

(* A sighting of two trails together is one of the first or of the second. *)
LEMMA OfEither ==
    ASSUME NEW s \in Seq(Sightings), NEW t \in Seq(Sightings), NEW i \in DOMAIN (s \o t)
    PROVE  \/ i \in DOMAIN s /\ (s \o t)[i] = s[i]
           \/ \E j \in DOMAIN t : (s \o t)[i] = t[j]
<1>1. /\ Len(s \o t) = Len(s) + Len(t) /\ Len(s) \in Nat /\ Len(t) \in Nat
      /\ s \o t \in Seq(Sightings)
      /\ \A p \in 1..Len(s) + Len(t) : (s \o t)[p] = IF p <= Len(s) THEN s[p] ELSE t[p - Len(s)]
    BY ConcatProperties
<1>2. i \in 1..Len(s) + Len(t)
    BY <1>1
<1>3. CASE i <= Len(s)
    BY <1>1, <1>2, <1>3
<1>4. CASE ~(i <= Len(s))
  <2>1. i - Len(s) \in DOMAIN t /\ (s \o t)[i] = t[i - Len(s)]
      BY <1>1, <1>2, <1>4
  <2>2. QED
      BY <2>1
<1>5. QED
    BY <1>3, <1>4

(* One more sighting, of two trails together.                              *)
LEMMA AppendOfBoth ==
    ASSUME NEW s \in Seq(Sightings), NEW t \in Seq(Sightings), NEW x \in Sightings
    PROVE  s \o Append(t, x) = Append(s \o t, x) /\ s \o t \in Seq(Sightings)
<1>1. <<x>> \in Seq(Sightings) /\ s \o t \in Seq(Sightings)
    BY ConcatProperties
<1>2. Append(t, x) = t \o <<x>> /\ Append(s \o t, x) = (s \o t) \o <<x>>
    BY <1>1, AppendIsConcat
<1>3. QED
    BY <1>1, <1>2, ConcatAssociative

(* Fingerprints make a sequence of fingerprints.                           *)
LEMMA RememberType ==
    ASSUME NEW prints \in Seq(Prints), NEW print \in Prints
    PROVE  Remember(prints, print) \in Seq(Prints)
<1> DEFINE rest == RemoveFirst(prints, print)
           all == Append(rest, print)
<1>1. rest \in Seq(Prints)
    BY RemoveFirstIs, RemoveAtIs
<1>2. all \in Seq(Prints) /\ all # <<>>
    BY <1>1
<1>3. Remember(prints, print) = IF Len(all) > DedupCapacity THEN Tail(all) ELSE all
    BY DEF Remember
<1> HIDE DEF all
<1>4. QED
    BY <1>2, <1>3

(* A fingerprint that the frame or the cache knows is of a trade that was  *)
(* delivered, or will be with the batch.                                   *)
LEMMA KnownIsHeld ==
    ASSUME SeenBefore, NEW work \in GoodWorks, ~work.rejected, NEW print \in Prints,
           print \in work.frame \cup Range(work.cache)
    PROVE  Held(print, work.batch)
<1>1. /\ Consistent(work.cache, work.seen, work.batch)
      /\ \A known \in work.frame : Held(known, work.batch)
      /\ work.cache \in Seq(Prints) /\ work.seen \in Seq(Sightings)
    BY DEF GoodWorks
<1> DEFINE trail == seen \o work.seen
<1>2. CASE print \in work.frame
    BY <1>1, <1>2
<1>3. CASE print \in Range(work.cache)
  <2>1. PICK p \in 1..Len(work.cache) : work.cache[p] = print
      BY <1>1, <1>3 DEF Range
  <2>2. PICK places : Ordered(work.cache, trail, places)
      BY <1>1 DEF Consistent, Recent
  <2>3. places[p] \in DOMAIN trail /\ print = PrintOf(trail[places[p]])
      BY <2>1, <2>2 DEF Ordered
  <2>4. Held(trail[places[p]], work.batch)
    <3>1. CASE places[p] \in DOMAIN seen /\ trail[places[p]] = seen[places[p]]
        BY <3>1 DEF SeenBefore, Held
    <3>2. CASE \E j \in DOMAIN work.seen : trail[places[p]] = work.seen[j]
        BY <1>1, <3>2 DEF Consistent
    <3>3. QED
        BY <1>1, <2>3, <3>1, <3>2, OfEither DEF SeenBefore
  <2> HIDE DEF trail
  <2>5. print.id = trail[places[p]].id /\ print.version = trail[places[p]].version
      BY <2>3 DEF PrintOf
  <2>6. QED
      BY <2>4, <2>5 DEF Held, Delivered
<1>4. QED
    BY <1>2, <1>3

(* A trade is accepted as a duplicate, as new, or not at all.              *)
LEMMA ExamineKeeps ==
    ASSUME SeenBefore, NEW work \in GoodWorks, NEW trade \in Trades
    PROVE  Examine(work, trade) \in GoodWorks
<1> DEFINE known == KnownAs(work, trade)
           print == Fingerprint(trade)
           x == [id |-> trade.id, version |-> trade.version,
                 frame |-> frames, new |-> known = {}]
           cache_1 == Remember(work.cache, print)
           batch_1 == IF known = {} THEN Append(work.batch, trade) ELSE work.batch
           frame_1 == work.frame \cup {print}
           trail == seen \o work.seen
<1>1. /\ work \in [rejected : BOOLEAN, frame : SUBSET Prints, cache : Seq(Prints),
                   batch : Seq(Trades), seen : Seq(Sightings)]
      /\ work.rejected \in BOOLEAN /\ work.frame \in SUBSET Prints /\ work.cache \in Seq(Prints)
      /\ work.batch \in Seq(Trades) /\ work.seen \in Seq(Sightings)
    BY DEF GoodWorks
<1>2. /\ print \in Prints /\ x \in Sightings /\ PrintOf(x) = print
      /\ print.id = trade.id /\ print.version = trade.version
      /\ x.id = trade.id /\ x.version = trade.version /\ x.frame = frames /\ x.new = (known = {})
    BY DEF Fingerprint, Prints, Sightings, PrintOf, Trades, SeenBefore
<1>3. seen \in Seq(Sightings) /\ trail \in Seq(Sightings)
      /\ seen \o Append(work.seen, x) = Append(trail, x)
    BY <1>1, <1>2, AppendOfBoth DEF SeenBefore
<1>4. Examine(work, trade) =
        IF known \subseteq {print}
          THEN [work EXCEPT !.frame = frame_1, !.cache = cache_1, !.batch = batch_1,
                            !.seen = Append(work.seen, x)]
          ELSE [work EXCEPT !.rejected = TRUE]
    BY DEF Examine
<1>5. /\ known = {k \in work.frame \cup Range(work.cache) : k.id = trade.id}
      /\ known = {} => \A k \in work.frame \cup Range(work.cache) : k.id # trade.id
    BY DEF KnownAs
<1>6. batch_1 = IF known = {} THEN Append(work.batch, trade) ELSE work.batch
    OBVIOUS
<1>7. cache_1 \in Seq(Prints)
    BY <1>1, <1>2, RememberType
<1>8. cache_1 = Remember(work.cache, PrintOf(x))
    BY <1>2
<1>9. frame_1 = work.frame \cup {print}
    OBVIOUS
<1> HIDE DEF known, print, x, cache_1, batch_1, frame_1, trail
<1>10. batch_1 \in Seq(Trades) /\ frame_1 \in SUBSET Prints /\ Append(work.seen, x) \in Seq(Sightings)
    BY <1>1, <1>2, <1>6, <1>9
<1>11. CASE ~(known \subseteq {print})
  <2> DEFINE after == [work EXCEPT !.rejected = TRUE]
  <2>1. Examine(work, trade) = after
      BY <1>4, <1>11
  <2>2. /\ after \in [rejected : BOOLEAN, frame : SUBSET Prints, cache : Seq(Prints),
                      batch : Seq(Trades), seen : Seq(Sightings)]
        /\ after.rejected = TRUE
      BY ONLY <1>1
  <2> HIDE DEF after
  <2>3. QED
      BY <2>1, <2>2 DEF GoodWorks
<1>12. CASE known \subseteq {print}
  <2> DEFINE seen_1 == Append(work.seen, x)
             after == [work EXCEPT !.frame = frame_1, !.cache = cache_1, !.batch = batch_1,
                                   !.seen = seen_1]
  <2>1. Examine(work, trade) = after
      BY <1>4, <1>12
  <2>2. seen_1 \in Seq(Sightings)
      BY <1>10
  <2> HIDE DEF seen_1
  <2>3. /\ after \in [rejected : BOOLEAN, frame : SUBSET Prints, cache : Seq(Prints),
                      batch : Seq(Trades), seen : Seq(Sightings)]
        /\ after.rejected = work.rejected /\ after.frame = frame_1 /\ after.cache = cache_1
        /\ after.batch = batch_1 /\ after.seen = seen_1
      BY ONLY <1>1, <1>7, <1>10, <2>2
  <2> HIDE DEF after
  <2>4. SUFFICES ASSUME ~work.rejected
                 PROVE  /\ Consistent(cache_1, Append(work.seen, x), batch_1)
                        /\ \A i \in DOMAIN Append(work.seen, x) : PrintOf(Append(work.seen, x)[i]) \in frame_1
                        /\ \A k \in frame_1 : Held(k, batch_1)
      BY <2>1, <2>3 DEF GoodWorks, seen_1
  <2>5. /\ Recent(work.cache, trail) /\ RepeatsJustified(trail)
        /\ \A i \in DOMAIN work.seen : work.seen[i].frame = frames /\ Held(work.seen[i], work.batch)
        /\ \A i \in DOMAIN work.seen : PrintOf(work.seen[i]) \in work.frame
        /\ \A k \in work.frame : Held(k, work.batch)
      BY <2>4 DEF GoodWorks, Consistent, trail
  <2>6. \A p \in 1..Len(work.cache) : work.cache[p] \in Range(work.cache)
      BY <1>1 DEF Range
  <2>7. Recent(cache_1, Append(trail, x))
    <3>1. \A p \in 1..Len(work.cache) : work.cache[p].id = x.id => work.cache[p] = PrintOf(x)
        BY <1>2, <1>5, <1>12, <2>6
    <3>2. QED
        BY <1>2, <1>3, <1>8, <2>5, <3>1, RememberKeeps
  <2>8. RepeatsJustified(Append(trail, x))
    <3>1. x.new => \A p \in 1..Len(work.cache) : work.cache[p].id # x.id
        BY <1>2, <1>5, <2>6
    <3>2. ASSUME x.new, NEW i \in DOMAIN trail, trail[i].id = x.id
          PROVE  trail[i].frame # x.frame
      <4>1. CASE i \in DOMAIN seen /\ trail[i] = seen[i]
        <5>1. seen[i].frame < frames /\ seen[i] \in Sightings /\ frames \in Nat
            BY <1>3, <4>1, ElementOfSequence DEF SeenBefore
        <5>2. seen[i].frame \in Nat
            BY <5>1 DEF Sightings
        <5>3. QED
            BY <1>2, <4>1, <5>1, <5>2
      <4>2. CASE \E j \in DOMAIN work.seen : trail[i] = work.seen[j]
        <5>1. PICK j \in DOMAIN work.seen : trail[i] = work.seen[j]
            BY <4>2
        <5>2. PrintOf(trail[i]) \in work.frame /\ PrintOf(trail[i]).id = trade.id
            BY <1>2, <2>5, <3>2, <5>1 DEF PrintOf
        <5>3. QED
            BY <1>2, <1>5, <3>2, <5>2
      <4>3. QED
          BY <1>1, <1>3, <4>1, <4>2, OfEither DEF trail
    <3>3. x.new => \A i \in DOMAIN trail : trail[i].id = x.id => trail[i].frame # x.frame
        BY <3>2
    <3>4. QED
        BY <1>2, <1>3, <2>5, <3>1, <3>3, NewIsJustified
  <2>9. ASSUME NEW s, Held(s, work.batch) PROVE Held(s, batch_1)
    <3>1. \A i \in DOMAIN work.batch : i \in DOMAIN batch_1 /\ batch_1[i] = work.batch[i]
        BY <1>1, <1>6
    <3>2. QED
        BY <2>9, <3>1 DEF Held
  <2>10. Held(print, batch_1)
    <3>1. CASE known = {}
      <4>1. batch_1[Len(work.batch) + 1] = trade /\ Len(work.batch) + 1 \in DOMAIN batch_1
          BY <1>1, <1>6, <3>1
      <4>2. QED
          BY <1>2, <4>1 DEF Held
    <3>2. CASE known # {}
      <4>1. print \in work.frame \cup Range(work.cache)
          BY <1>5, <1>12, <3>2
      <4>2. QED
          BY <1>2, <2>4, <2>9, <4>1, KnownIsHeld
    <3>3. QED
        BY <3>1, <3>2
  <2>11. ASSUME NEW i \in DOMAIN Append(work.seen, x)
         PROVE  /\ Append(work.seen, x)[i].frame = frames /\ Held(Append(work.seen, x)[i], batch_1)
                /\ PrintOf(Append(work.seen, x)[i]) \in frame_1
    <3>1. CASE i \in DOMAIN work.seen
      <4>1. Append(work.seen, x)[i] = work.seen[i]
          BY <1>1, <1>2, <3>1, LongerTrail
      <4>2. QED
          BY <1>9, <2>5, <2>9, <3>1, <4>1
    <3>2. CASE i = Len(work.seen) + 1
      <4>1. Append(work.seen, x)[i] = x
          BY <1>1, <1>2, <3>2, LongerTrail
      <4>2. Held(x, batch_1)
          BY <1>2, <2>10 DEF Held, Delivered
      <4>3. QED
          BY <1>2, <1>9, <4>1, <4>2
    <3>3. QED
        BY <1>1, <1>2, <3>1, <3>2, LongerTrail
  <2>12. \A k \in frame_1 : Held(k, batch_1)
      BY <1>9, <2>5, <2>9, <2>10
  <2>13. Consistent(cache_1, Append(work.seen, x), batch_1)
      BY <1>3, <1>10, <2>7, <2>8, <2>11 DEF Consistent
  <2>14. QED
      BY <2>11, <2>12, <2>13
<1>13. QED
    BY <1>11, <1>12

(* Before the first trade of a message there is nothing to undo.           *)
LEMMA NothingShownYet ==
    ASSUME SeenBefore, Recent(cache, seen), RepeatsJustified(seen), NEW batch
    PROVE  cache \in Seq(Prints) /\ Consistent(cache, <<>>, batch)
<1>1. <<>> \in Seq(Sightings) /\ DOMAIN <<>> = {}
    OBVIOUS
<1>2. seen \o <<>> = seen
    BY ConcatEmptySeq DEF SeenBefore
<1>3. QED
    BY <1>1, <1>2 DEF Consistent, Recent

(* What a message will do to the cache is consistent with what it will     *)
(* deliver.                                                                *)
LEMMA PreparedConsistent ==
    ASSUME SeenBefore, Recent(cache, seen), RepeatsJustified(seen), NEW message \in Messages,
           NEW prepared, prepared = Prepare(message), ~prepared.rejected
    PROVE  Consistent(prepared.cache, prepared.seen, prepared.batch)
<1>1. /\ Control.cache = cache /\ Control.seen = <<>> /\ Control.batch = <<>>
      /\ Rejection.rejected = TRUE
    BY DEF Control, Rejection
<1>2. CASE prepared = Control
    BY <1>1, <1>2, NothingShownYet
<1>3. CASE prepared = Rejection
    BY <1>1, <1>3
<1>4. CASE message.kind = "trades" /\ prepared = PrepareValidTrades(message.trades)
  <2> DEFINE trades == message.trades
             start == [rejected |-> FALSE, frame |-> {}, cache |-> cache, batch |-> <<>>,
                       seen |-> <<>>]
             work == FoldLeft(Examine, start, trades)
             events == [i \in DOMAIN work.batch |-> EventOf(work.batch[i])]
  <2>1. trades \in Seq(Trades)
    BY <1>4, TradeFramesAssumption DEF Messages, Trades
  <2>2. start \in GoodWorks
    <3>1. cache \in Seq(Prints) /\ Consistent(cache, <<>>, <<>>)
        BY NothingShownYet
    <3>2. /\ <<>> \in Seq(Trades) /\ <<>> \in Seq(Sightings) /\ {} \in SUBSET Prints
          /\ DOMAIN <<>> = {} /\ FALSE \in BOOLEAN
        OBVIOUS
    <3>3. QED
        BY <3>1, <3>2 DEF GoodWorks
  <2>3. work \in GoodWorks
    <3> HIDE DEF start, trades
    <3>1. \A w \in GoodWorks, i \in DOMAIN trades : Examine(w, trades[i]) \in GoodWorks
        BY <2>1, ElementOfSequence, ExamineKeeps
    <3>2. QED
        BY <2>1, <2>2, <3>1, FoldKeeps
  <2>4. PrepareValidTrades(trades) =
          IF work.rejected THEN Rejection
          ELSE [Control EXCEPT !.cache = work.cache, !.batch = events, !.seen = work.seen]
    BY DEF PrepareValidTrades
  <2>5. \A i \in DOMAIN work.batch :
          /\ i \in DOMAIN events
          /\ events[i].id = work.batch[i].id /\ events[i].version = work.batch[i].version
    <3> HIDE DEF work
    <3>1. QED
        BY DEF EventOf
  <2> HIDE DEF work, events
  <2>6. /\ ~work.rejected /\ prepared.cache = work.cache /\ prepared.batch = events
        /\ prepared.seen = work.seen
    <3>1. ~work.rejected
        BY <1>1, <1>4, <2>4
    <3>2. QED
        BY <1>4, <2>4, <3>1 DEF Control
  <2>7. ASSUME NEW s, Held(s, work.batch) PROVE Held(s, events)
    BY <2>5, <2>7 DEF Held
  <2>8. Consistent(work.cache, work.seen, work.batch)
    BY <2>3, <2>6 DEF GoodWorks
  <2>9. QED
    BY <2>6, <2>7, <2>8 DEF Consistent
<1>5. CASE message.kind = "trades"
    BY <1>2, <1>3, <1>4, <1>5 DEF Prepare, PrepareTrades
<1>6. CASE message.kind \in {"greeting or pong", "malformed"}
    BY <1>2, <1>3, <1>6 DEF Prepare
<1>7. CASE message \in [kind : {"ack"}, coin : Coins]
  <2>1. prepared = Rejection \/ prepared = [Control EXCEPT !.coin = message.coin]
    BY <1>7 DEF Prepare
  <2>2. CASE prepared = [Control EXCEPT !.coin = message.coin]
    <3>1. prepared.cache = cache /\ prepared.seen = <<>> /\ prepared.batch = <<>>
        BY <2>2 DEF Control
    <3>2. QED
        BY <3>1, NothingShownYet
  <2>3. QED
    BY <1>3, <2>1, <2>2
<1>8. QED
    BY <1>5, <1>6, <1>7 DEF Messages

-----------------------------------------------------------------------------
(* A message is at hand that will change the cache and the history.        *)
WillCommit ==
    receiver.at = "put" \/ (receiver.at = "outcome" /\ ~receiver.prepared.rejected)

(* The cache, the history and what a message that was prepared will do to  *)
(* both.  Nothing is seen of the message at hand before it is committed.   *)
DedupInv ==
    /\ frames \in Nat /\ seen \in Seq(Sightings)
    /\ Recent(cache, seen) /\ RepeatsJustified(seen)
    /\ \A i \in DOMAIN seen :
         /\ Delivered(seen[i])
         /\ seen[i].frame <= frames
         /\ receiver.at # "recv" => seen[i].frame < frames
    /\ WillCommit =>
         Consistent(receiver.prepared.cache, receiver.prepared.seen, receiver.prepared.batch)

(* A step that neither prepares nor publishes.                             *)
LEMMA KeepsDedup ==
    ASSUME DedupInv, UNCHANGED <<cache, seen, delivered, frames>>,
           \/ UNCHANGED receiver
           \/ receiver' = Idle
           \/ WillCommit /\ receiver' = [at |-> "put", prepared |-> receiver.prepared]
    PROVE  DedupInv'
<1>1. \A s : Delivered(s) => Delivered(s)'
    BY DEF Delivered
<1>2. \A s, batch : Held(s, batch) => Held(s, batch)'
    BY <1>1 DEF Held
<1>3. \A prints, shown, batch : Consistent(prints, shown, batch) => Consistent(prints, shown, batch)'
    BY <1>2 DEF Consistent
<1>4. /\ frames' \in Nat /\ seen' \in Seq(Sightings)
      /\ Recent(cache', seen') /\ RepeatsJustified(seen')
    BY DEF DedupInv
<1>5. \A i \in DOMAIN seen :
        Delivered(seen[i])' /\ seen[i].frame <= frames
    BY DEF DedupInv, Delivered
<1>6. receiver'.at # "recv" => receiver.at # "recv"
    BY DEF Idle, WillCommit
<1>7. WillCommit' => WillCommit /\ receiver'.prepared = receiver.prepared
    BY DEF Idle, WillCommit
<1>8. \A i \in DOMAIN seen : receiver'.at # "recv" => seen[i].frame < frames
    BY <1>6 DEF DedupInv
<1>9. WillCommit' =>
        Consistent(receiver.prepared.cache, receiver.prepared.seen, receiver.prepared.batch)
    BY <1>7 DEF DedupInv
<1>10. QED
    BY <1>3, <1>4, <1>5, <1>7, <1>8, <1>9 DEF DedupInv

(* A step that publishes: the batch enters, and the trades are remembered. *)
LEMMA PublishKeepsDedup ==
    ASSUME DedupInv, IsSequence(delivered), NEW prepared, Publish(prepared), UNCHANGED frames,
           Consistent(prepared.cache, prepared.seen, prepared.batch),
           receiver.at # "recv"
    PROVE  DedupInv'
<1> DEFINE Now(s) == \E b \in DOMAIN delivered' : \E e \in DOMAIN delivered'[b] :
                       delivered'[b][e].id = s.id /\ delivered'[b][e].version = s.version
<1>1. ASSUME NEW s, Held(s, prepared.batch) PROVE Now(s)
  <2>1. CASE prepared.batch = <<>>
    <3>1. UNCHANGED delivered /\ DOMAIN prepared.batch = {}
        BY <2>1 DEF Publish
    <3>2. QED
        BY <1>1, <3>1 DEF Held, Delivered
  <2>2. CASE prepared.batch # <<>>
    <3>1. delivered' = Append(delivered, prepared.batch)
        BY <2>2 DEF Publish
    <3>2. PICK S : delivered \in Seq(S)
        BY DEF IsSequence
    <3>3. /\ \A b \in DOMAIN delivered : b \in DOMAIN delivered' /\ delivered'[b] = delivered[b]
          /\ \E b \in DOMAIN delivered' : delivered'[b] = prepared.batch
      <4>1. delivered \in Seq(S \cup {prepared.batch})
          BY <3>2
      <4>2. Len(delivered) + 1 \in DOMAIN delivered'
          BY <3>1, <4>1
      <4>3. delivered'[Len(delivered) + 1] = prepared.batch
          BY <3>1, <4>1
      <4>4. \A b \in DOMAIN delivered : b \in DOMAIN delivered' /\ delivered'[b] = delivered[b]
          BY <3>1, <4>1
      <4>5. QED
          BY <4>2, <4>3, <4>4
    <3>4. QED
        BY <1>1, <3>3 DEF Held, Delivered
  <2>3. QED
      BY <2>1, <2>2
<1>2. /\ seen' = seen \o prepared.seen /\ cache' = prepared.cache /\ receiver' = Idle
      /\ frames' = frames
    BY DEF Publish
<1> HIDE DEF Now
<1>3. /\ seen \in Seq(Sightings) /\ prepared.seen \in Seq(Sightings)
      /\ seen' \in Seq(Sightings)
    BY <1>2, AppendOfBoth, ConcatProperties DEF DedupInv, Consistent
<1>4. ASSUME NEW i \in DOMAIN seen'
      PROVE  Now(seen'[i]) /\ seen'[i].frame <= frames
  <2>1. CASE i \in DOMAIN seen /\ seen'[i] = seen[i]
    <3>1. Delivered(seen[i]) /\ seen[i].frame <= frames
        BY <2>1 DEF DedupInv
    <3>2. Now(seen[i])
        BY <1>1, <3>1 DEF Held
    <3>3. QED
        BY <2>1, <3>1, <3>2
  <2>2. CASE \E j \in DOMAIN prepared.seen : seen'[i] = prepared.seen[j]
    <3>1. PICK j \in DOMAIN prepared.seen : seen'[i] = prepared.seen[j]
        BY <2>2
    <3>2. prepared.seen[j].frame = frames /\ Held(prepared.seen[j], prepared.batch)
        BY DEF Consistent
    <3>3. frames <= frames
        BY DEF DedupInv
    <3>4. QED
        BY <1>1, <3>1, <3>2, <3>3
  <2>3. QED
      BY <1>2, <1>3, <2>1, <2>2, OfEither
<1>5. receiver'.at = "recv" /\ ~WillCommit'
    BY <1>2 DEF Idle, WillCommit
<1>6. Recent(cache', seen') /\ RepeatsJustified(seen')
    BY <1>2 DEF Consistent
<1>7. frames' \in Nat
    BY <1>2 DEF DedupInv
<1>8. QED
    BY <1>2, <1>3, <1>4, <1>5, <1>6, <1>7 DEF DedupInv, Delivered, Now

(* A step that prepares.                                                   *)
LEMMA PrepareKeepsDedup ==
    ASSUME DedupInv, receiver.at = "raw", NEW message \in Messages,
           receiver' = [at |-> "outcome", prepared |-> Prepare(message)],
           UNCHANGED <<cache, seen, delivered, frames>>
    PROVE  DedupInv'
<1>1. SeenBefore /\ Recent(cache, seen) /\ RepeatsJustified(seen)
    BY DEF DedupInv, SeenBefore
<1>2. PICK prepared : prepared = Prepare(message)
    OBVIOUS
<1>3. receiver'.prepared = prepared /\ (WillCommit' => ~prepared.rejected)
    BY <1>2 DEF WillCommit
<1>4. ~prepared.rejected => Consistent(prepared.cache, prepared.seen, prepared.batch)
    BY <1>1, <1>2, PreparedConsistent
<1>5. \A prints, shown, batch : Consistent(prints, shown, batch) => Consistent(prints, shown, batch)'
    BY DEF Consistent, Held, Delivered
<1>6. \A i \in DOMAIN seen : Delivered(seen[i])' /\ seen[i].frame <= frames /\ seen[i].frame < frames
    BY DEF DedupInv, Delivered
<1>7. /\ frames' \in Nat /\ seen' \in Seq(Sightings)
      /\ Recent(cache', seen') /\ RepeatsJustified(seen')
    BY DEF DedupInv
<1>8. QED
    BY <1>3, <1>4, <1>5, <1>6, <1>7 DEF DedupInv

(* A step that receives: what was seen came in earlier messages.           *)
LEMMA ReceiveKeepsDedup ==
    ASSUME DedupInv, receiver'.at = "raw", frames' = frames + 1,
           UNCHANGED <<cache, seen, delivered>>
    PROVE  DedupInv'
<1>1. /\ frames' \in Nat /\ seen' \in Seq(Sightings)
      /\ Recent(cache', seen') /\ RepeatsJustified(seen')
    BY DEF DedupInv
<1>2. ASSUME NEW i \in DOMAIN seen
      PROVE  Delivered(seen[i])' /\ seen[i].frame <= frames' /\ seen[i].frame < frames'
  <2>1. Delivered(seen[i])'
      BY DEF DedupInv, Delivered
  <2>2. seen[i].frame \in Nat /\ seen[i].frame <= frames /\ frames \in Nat
    <3>1. seen[i] \in Sightings
        BY ElementOfSequence DEF DedupInv
    <3>2. QED
        BY <3>1 DEF DedupInv, Sightings
  <2>3. QED
      BY <2>1, <2>2
<1>3. QED
    BY <1>1, <1>2 DEF DedupInv, WillCommit

(* Each step keeps the cache exact.                                        *)
LEMMA DedupStep ==
    ASSUME AcknowledgementsPrepared, QueueInStream, DedupInv, [Next]_vars
    PROVE  DedupInv'
<1> USE DEF vars, runVars, sessionVars, taskVars, gapVars, deliveryVars, consumerVars, endVars
<1>1. CASE ConnectFailsForNow
    BY <1>1, KeepsDedup DEF ConnectFailsForNow, BackOff
<1>2. CASE ConnectFailsForGood
    BY <1>2, KeepsDedup DEF ConnectFailsForGood, EndRun, DropSession
<1>3. CASE Connected
    BY <1>3, KeepsDedup DEF Connected
<1>4. CASE CancelRun
    BY <1>4, KeepsDedup DEF CancelRun, EndRun, DropSession
<1>5. CASE SessionEnds
    BY <1>5, KeepsDedup DEF SessionEnds, DropSession
<1>6. CASE Leave
    BY <1>6, KeepsDedup DEF Leave, EndRun, DropSession, BackOff
<1>7. CASE Reconnect
    BY <1>7, KeepsDedup DEF Reconnect
<1>8. CASE HeartbeatFails
    BY <1>8, KeepsDedup DEF HeartbeatFails
<1>9. CASE ActivationStarts
    BY <1>9, KeepsDedup DEF ActivationStarts
<1>10. CASE SendReturns
    BY <1>10, KeepsDedup DEF SendReturns
<1>11. CASE ActivationCompletes
    BY <1>11, KeepsDedup DEF ActivationCompletes
<1>12. CASE ActivationFails
    BY <1>12, KeepsDedup DEF ActivationFails
<1>13. CASE ReceiveFails
    BY <1>13, KeepsDedup DEF ReceiveFails
<1>14. CASE Receive
  <2>1. receiver'.at = "raw"
      BY <1>14 DEF Receive
  <2>2. QED
      BY <1>14, <2>1, ReceiveKeepsDedup DEF Receive
<1>15. CASE SinkFails
    BY <1>15, KeepsDedup DEF SinkFails, ReceiverFails
<1>16. CASE RawAccepted
  <2>1. /\ receiver.at = "raw" /\ receiver.message \in Messages
        /\ receiver' = [at |-> "outcome", prepared |-> Prepare(receiver.message)]
        /\ UNCHANGED <<cache, seen, delivered, frames>>
      BY <1>16 DEF RawAccepted, ReceiverAt, AcknowledgementsPrepared
  <2>2. QED
      BY <2>1, PrepareKeepsDedup
<1>17. CASE OutcomeAccepted
  <2>1. /\ receiver.at = "outcome" /\ ~receiver.prepared.rejected /\ UNCHANGED frames
        /\ Commit(receiver.prepared)
      BY <1>17 DEF OutcomeAccepted, ReceiverAt
  <2>2. CASE Publish(receiver.prepared)
    <3>1. Consistent(receiver.prepared.cache, receiver.prepared.seen, receiver.prepared.batch)
        BY <2>1 DEF DedupInv, WillCommit
    <3>2. QED
        BY <2>1, <2>2, <3>1, PublishKeepsDedup DEF QueueInStream
  <2>3. CASE ~Publish(receiver.prepared)
      BY <2>1, <2>3, KeepsDedup DEF Commit, Acknowledge, AwaitRoom, WillCommit
  <2>4. QED
      BY <2>2, <2>3
<1>18. CASE RejectionAccepted
    BY <1>18, KeepsDedup DEF RejectionAccepted, ReceiverFails
<1>19. CASE Put
  <2>1. /\ receiver.at = "put" /\ UNCHANGED frames
        /\ Publish(receiver.prepared)
      BY <1>19 DEF Put, ReceiverAt
  <2>2. Consistent(receiver.prepared.cache, receiver.prepared.seen, receiver.prepared.batch)
      BY <2>1 DEF DedupInv, WillCommit
  <2>3. QED
      BY <2>1, <2>2, PublishKeepsDedup DEF QueueInStream
<1>20. CASE PutTimesOut
    BY <1>20, KeepsDedup DEF PutTimesOut, ReceiverFails
<1>21. CASE CloseOutcomeSink
    BY <1>21, KeepsDedup DEF CloseOutcomeSink
<1>22. CASE CloseRawSink
    BY <1>22, KeepsDedup DEF CloseRawSink
<1>23. CASE ConsumerRound
    BY <1>23, KeepsDedup DEF ConsumerRound
<1>24. CASE ConsumerCanceled
    BY <1>24, KeepsDedup DEF ConsumerCanceled
<1>25. CASE UNCHANGED vars
    BY <1>25, KeepsDedup
<1>26. QED
    BY <1>1, <1>2, <1>3, <1>4, <1>5, <1>6, <1>7, <1>8, <1>9, <1>10, <1>11, <1>12, <1>13, <1>14,
           <1>15, <1>16, <1>17, <1>18, <1>19, <1>20, <1>21, <1>22, <1>23, <1>24, <1>25 DEF Next

(* At the start nothing was seen.                                          *)
LEMMA DedupInit ==
    ASSUME Init
    PROVE  DedupInv
<1>1. cache = <<>> /\ seen = <<>> /\ receiver = Idle /\ frames = 0
    BY DEF Init
<1>2. /\ seen \in Seq(Sightings) /\ cache \in Seq(Prints) /\ Len(cache) = 0 /\ 1..0 = {}
      /\ DOMAIN seen = {}
    BY <1>1
<1>3. Ordered(cache, seen, [p \in {} |-> 0])
    BY <1>2 DEF Ordered
<1>4. Recent(cache, seen)
    BY <1>2, <1>3, CollectorAssumption DEF Recent, Forgotten
<1>5. RepeatsJustified(seen)
    BY <1>2 DEF RepeatsJustified
<1>6. receiver.at = "recv" /\ frames \in Nat /\ ~WillCommit
    BY <1>1 DEF Idle, WillCommit
<1>7. QED
    BY <1>2, <1>4, <1>5, <1>6 DEF DedupInv

(* No trade is suppressed that was not delivered, and none is repeated     *)
(* that the cache can still know (_prepare_valid_trades, Remember; the     *)
(* commit of _commit_prepared_message follows the put).                    *)
THEOREM DedupAlwaysExact == Spec => []DedupExact
<1>1. CollectorInv /\ DedupInv /\ [Next]_vars => DedupInv'
    BY DedupStep DEF CollectorInv
<1>2. DedupInv => DedupExact
    BY DEF DedupInv, Delivered, RepeatsJustified, DedupExact, SuppressedWasDelivered,
           RepeatOnlyAfterEviction, OtherIdsBetween
<1>3. QED
    BY <1>1, <1>2, DedupInit, CollectorInvariant, PTL DEF Spec
=============================================================================
