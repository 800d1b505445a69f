------------------------ MODULE HyperliquidCollector ------------------------
(***************************************************************************)
(* The public-trades collector (hyperliquid_bot/hyperliquid_ws_client.py): *)
(* one producer that connects, subscribes, receives, records, normalizes   *)
(* and reconnects, and one consumer of the bounded queue.                  *)
(*                                                                         *)
(* Everything runs on one event loop: an action is what happens between    *)
(* two awaits.  Clocks are left out: a timeout may fire whenever its await *)
(* is pending.  What the heartbeat task waits for is left out too: it may  *)
(* fail at any moment of a session.                                        *)
(***************************************************************************)
EXTENDS Naturals, FiniteSets, Sequences, SequencesExt

CONSTANTS
    NumCoins,         \* how many coins are configured (configured_coins)
    QueueCapacity,    \* queue_capacity, in batches
    DedupCapacity,    \* dedup_capacity, in source event ids
    TradeFrames,      \* sequences of trades the venue may send in one message
    MaxFrames,        \* bound: messages received in a run
    MaxSessions,      \* bound: connection attempts in a run
    None              \* no value

ASSUME CollectorAssumption ==
    /\ {NumCoins, QueueCapacity, DedupCapacity, MaxFrames, MaxSessions} \subseteq Nat \ {0}
    /\ None \notin Nat \cup {"FAILED", "STOPPED"}

Coins == 1..NumCoins
Tasks == {"receiver", "heartbeat", "activation"}

ASSUME TradeFramesAssumption ==
    TradeFrames \subseteq Seq([coin : Coins, id : Nat, version : Nat])

VARIABLES
    producer,     \* where _run_private is
    state,        \* _state
    session,      \* _connection_ordinal
    attempts,     \* _session_attempts: the status of each coin's attempt
    acknowledged, \* _acknowledged_coins
    uncertain,    \* _session_subscription_delivery_uncertain
    stickyGap,    \* _sticky_gap
    sending,      \* the coin whose subscription is sent; NumCoins + 1: all are
    tasks,        \* how each task of the session stands
    receiver,     \* the await the receiver is at, and the message it works on
    cache,        \* _dedup_cache, oldest first
    queue,        \* _queue
    terminal,     \* _terminal_outcome, None while the run lasts
    wakeup,       \* _consumer_wakeup
    consumer,     \* "idle" between calls, "waiting" in one, "told" at the end
    closed,       \* the sinks whose close has been attempted
    frames,       \* _next_ingress_ordinal
    delivered,    \* history: every batch put into the queue
    seen,         \* history: every trade of a committed message
    firstSent     \* history: the session of the first subscription send

taskVars == <<attempts, acknowledged, sending, receiver>>
sessionVars == <<taskVars, uncertain, tasks>>
deliveryVars == <<cache, queue, delivered, seen>>
consumerVars == <<wakeup, consumer>>
gapVars == <<stickyGap, firstSent>>
runVars == <<producer, state, session>>
endVars == <<terminal, closed>>
vars == <<runVars, sessionVars, gapVars, frames, deliveryVars, consumerVars, endVars>>

Idle == [at |-> "recv"]
NewAttempts == [c \in Coins |-> "PENDING"]
AllRunning == [t \in Tasks |-> "running"]

Init ==
    /\ producer = "connect" /\ state = "CONNECTING" /\ session = 1
    /\ attempts = NewAttempts /\ acknowledged = {} /\ sending = 0
    /\ tasks = AllRunning /\ receiver = Idle
    /\ uncertain = FALSE /\ stickyGap = FALSE /\ firstSent = None
    /\ cache = <<>> /\ queue = <<>> /\ delivered = <<>> /\ seen = <<>>
    /\ terminal = None /\ closed = {} /\ wakeup = FALSE /\ consumer = "idle"
    /\ frames = 0

-----------------------------------------------------------------------------
(* The run loop.                                                           *)

(* What a session keeps for its tasks is dropped when the session ends. *)
DropSession ==
    /\ attempts' = NewAttempts
    /\ acknowledged' = {}
    /\ sending' = 0
    /\ receiver' = Idle

(* MUTANT: the consumer is told before the sinks are closed. *)
EndRunToldFirst(outcome) ==
    /\ producer' = "closing"
    /\ state' = outcome
    /\ terminal' = outcome
    /\ wakeup' = TRUE
    /\ DropSession
    /\ UNCHANGED <<session, uncertain, tasks, gapVars, frames, deliveryVars, consumer, closed>>

EndRun(outcome) ==
    /\ producer' = "closing"
    /\ state' = outcome
    /\ DropSession
    /\ UNCHANGED <<session, uncertain, tasks, gapVars, frames, deliveryVars, consumerVars, endVars>>

(* Trades may be missed from a session that may have been subscribed. *)
BackOff ==
    /\ producer' = "backoff"
    /\ state' = "BACKING_OFF"
    /\ stickyGap' = (stickyGap \/ uncertain)
    /\ UNCHANGED <<session, sessionVars, firstSent, frames, deliveryVars, consumerVars, endVars>>

Reconnect ==
    /\ producer = "backoff"
    /\ session < MaxSessions
    /\ producer' = "connect"
    /\ state' = "CONNECTING"
    /\ session' = session + 1
    /\ uncertain' = FALSE
    /\ tasks' = AllRunning
    /\ UNCHANGED <<taskVars, gapVars, frames, deliveryVars, consumerVars, endVars>>

ConnectFailsForNow ==
    /\ producer = "connect"
    /\ BackOff

ConnectFailsForGood ==
    /\ producer = "connect"
    /\ EndRun("FAILED")

Connected ==
    /\ producer = "connect"
    /\ producer' = "session"
    /\ state' = "SUBSCRIBING"
    /\ UNCHANGED <<session, sessionVars, gapVars, frames, deliveryVars, consumerVars, endVars>>

CancelRun ==
    /\ producer \in {"connect", "session", "leaving", "backoff"}
    /\ EndRun("STOPPED")

Failed(t) == tasks[t] \in {"retry", "fatal"}

(* asyncio.wait reports every task that is done by now; the rest are       *)
(* canceled at their await and the connection is closed.                   *)
SessionEnds ==
    /\ producer = "session"
    /\ \E t \in Tasks : Failed(t)
    /\ producer' = "leaving"
    /\ DropSession
    /\ UNCHANGED <<state, session, uncertain, tasks, gapVars, frames, deliveryVars, consumerVars, endVars>>

(* A fatal error of one task outweighs a retryable one of another. *)
ErrorIsFatal == \E t \in Tasks : tasks[t] = "fatal"

Leave ==
    /\ producer = "leaving"
    /\ IF ErrorIsFatal THEN EndRun("FAILED") ELSE BackOff

-----------------------------------------------------------------------------
(* The tasks of a session.                                                 *)

Runs(t) == producer = "session" /\ tasks[t] = "running"

TaskFails(t, how) == tasks' = [tasks EXCEPT ![t] = how]

HeartbeatFails ==
    /\ Runs("heartbeat")
    /\ \E how \in {"retry", "fatal"} : TaskFails("heartbeat", how)
    /\ UNCHANGED <<runVars, taskVars, uncertain, gapVars, frames, deliveryVars, consumerVars, endVars>>

(* MUTANT: delivery counts as ambiguous only once the send has returned. *)
StartSendQuietly(coin, status) ==
    /\ attempts' = IF coin \in Coins THEN [status EXCEPT ![coin] = "SEND_STARTED"] ELSE status
    /\ sending' = coin
    /\ uncertain' = (uncertain \/ coin > 1)
    /\ firstSent' = IF firstSent = None /\ coin \in Coins THEN session ELSE firstSent

(* The next subscription: ambiguous from before its first byte. *)
StartSend(coin, status) ==
    /\ attempts' = IF coin \in Coins THEN [status EXCEPT ![coin] = "SEND_STARTED"] ELSE status
    /\ sending' = coin
    /\ uncertain' = (uncertain \/ coin \in Coins)
    /\ firstSent' = IF firstSent = None /\ coin \in Coins THEN session ELSE firstSent

ActivationStarts ==
    /\ Runs("activation")
    /\ sending = 0
    /\ StartSend(1, attempts)
    /\ UNCHANGED <<runVars, acknowledged, receiver, tasks, stickyGap, frames, deliveryVars, consumerVars, endVars>>

(* The acknowledgement may have arrived before the send returned. *)
AfterSend(coin) ==
    IF attempts[coin] = "SEND_STARTED" THEN [attempts EXCEPT ![coin] = "SENT"] ELSE attempts

SendReturns ==
    /\ Runs("activation")
    /\ sending \in Coins
    /\ StartSend(sending + 1, AfterSend(sending))
    /\ UNCHANGED <<runVars, acknowledged, receiver, tasks, stickyGap, frames, deliveryVars, consumerVars, endVars>>

(* Every subscription is sent and activation_event is set. *)
ActivationCompletes ==
    /\ Runs("activation")
    /\ sending = NumCoins + 1
    /\ state = "ACTIVE"
    /\ tasks' = [tasks EXCEPT !["activation"] = "done"]
    /\ UNCHANGED <<runVars, taskVars, uncertain, gapVars, frames, deliveryVars, consumerVars, endVars>>

(* A send fails, or the subscription deadline passes (which is retryable). *)
ActivationFails ==
    /\ Runs("activation")
    /\ sending > 0
    /\ \E how \in {"retry", "fatal"} :
        /\ how = "fatal" => sending \in Coins
        /\ TaskFails("activation", how)
    /\ UNCHANGED <<runVars, taskVars, uncertain, gapVars, frames, deliveryVars, consumerVars, endVars>>

-----------------------------------------------------------------------------
(* What a message will do, decided when its raw record was accepted.       *)

Messages ==
    [kind : {"ack"}, coin : Coins]
        \cup [kind : {"trades"}, trades : TradeFrames]
        \cup [kind : {"greeting or pong", "malformed"}]

(* A prepared message that only passes through the sinks. *)
Control == [rejected |-> FALSE, coin |-> None, cache |-> cache, batch |-> <<>>, seen |-> <<>>]

(* A message whose commit raises a protocol or a conflict error. *)
Rejection == [Control EXCEPT !.rejected = TRUE]

EventOf(trade) ==
    [id |-> trade.id, version |-> trade.version, gap |-> stickyGap, session |-> session]

Fingerprint(trade) == [id |-> trade.id, version |-> trade.version]

(* The least recently seen fingerprint goes when the cache is full. *)
Remember(fingerprints, print) ==
    LET all == Append(RemoveFirst(fingerprints, print), print)
    IN  IF Len(all) > DedupCapacity THEN Tail(all) ELSE all

(* The fingerprint under which a trade's id is known, if any: a frame      *)
(* remembers all of its own trades, whatever the cache forgets meanwhile.  *)
KnownAs(work, trade) == {known \in work.frame \cup Range(work.cache) : known.id = trade.id}

Examine(work, trade) ==
    LET known == KnownAs(work, trade)
        print == Fingerprint(trade)
    IN  IF known \subseteq {print}
          THEN [work EXCEPT
                  !.frame = @ \cup {print},
                  !.cache = Remember(@, print),
                  !.batch = IF known = {} THEN Append(@, trade) ELSE @,
                  !.seen = Append(@, [id |-> trade.id, version |-> trade.version,
                                      frame |-> frames, new |-> known = {}])]
          ELSE [work EXCEPT !.rejected = TRUE]

(* One conflicting trade aborts its frame. *)
PrepareValidTrades(trades) ==
    LET start == [rejected |-> FALSE, frame |-> {}, cache |-> cache, batch |-> <<>>, seen |-> <<>>]
        work == FoldLeft(Examine, start, trades)
    IN  IF work.rejected
          THEN Rejection
          ELSE [Control EXCEPT
                  !.cache = work.cache,
                  !.batch = [i \in DOMAIN work.batch |-> EventOf(work.batch[i])],
                  !.seen = work.seen]

(* So does a trade of a coin whose subscription is not acknowledged. *)
PrepareTrades(trades) ==
    IF trades = <<>>
      THEN Control
      ELSE IF \A i \in DOMAIN trades : attempts[trades[i].coin] = "ACKNOWLEDGED"
             THEN PrepareValidTrades(trades)
             ELSE Rejection

Prepare(message) ==
    CASE message.kind = "greeting or pong" -> Control
      [] message.kind = "malformed" -> Rejection
      [] message.kind = "trades" -> PrepareTrades(message.trades)
      [] message.kind = "ack" ->
            IF attempts[message.coin] = "PENDING"
              THEN Rejection
              ELSE [Control EXCEPT !.coin = message.coin]

-----------------------------------------------------------------------------
(* The receiver: receive, record, record the outcome, commit.              *)

ReceiverAt(place) == Runs("receiver") /\ receiver.at = place

ReceiverFails ==
    /\ TaskFails("receiver", "fatal")
    /\ receiver' = Idle
    /\ UNCHANGED <<runVars, attempts, acknowledged, sending, uncertain, firstSent,
                   frames, deliveryVars, consumerVars, endVars>>

(* The wire fails, or no message comes in time (which is retryable). *)
ReceiveFails ==
    /\ ReceiverAt("recv")
    /\ \E how \in {"retry", "fatal"} : TaskFails("receiver", how)
    /\ UNCHANGED <<runVars, taskVars, uncertain, gapVars, frames, deliveryVars, consumerVars, endVars>>

(* The raw record is built and offered to its sink. *)
Receive ==
    /\ ReceiverAt("recv")
    /\ frames < MaxFrames
    /\ frames' = frames + 1
    /\ \E message \in Messages : receiver' = [at |-> "raw", message |-> message]
    /\ UNCHANGED <<runVars, attempts, acknowledged, sending, uncertain, tasks, gapVars,
                   deliveryVars, consumerVars, endVars>>

(* A sink refuses, times out or answers for another record. *)
SinkFails ==
    /\ ReceiverAt("raw") \/ ReceiverAt("outcome")
    /\ ReceiverFails
    /\ UNCHANGED stickyGap

(* The outcome is offered to its sink. *)
RawAccepted ==
    /\ ReceiverAt("raw")
    /\ receiver' = [at |-> "outcome", prepared |-> Prepare(receiver.message)]
    /\ UNCHANGED <<runVars, attempts, acknowledged, sending, uncertain, tasks, gapVars,
                   frames, deliveryVars, consumerVars, endVars>>

(* MUTANT: the consumer is not woken. *)
PublishQuietly(prepared) ==
    /\ IF prepared.batch = <<>>
         THEN UNCHANGED <<queue, delivered>>
         ELSE /\ queue' = Append(queue, prepared.batch)
              /\ delivered' = Append(delivered, prepared.batch)
    /\ cache' = prepared.cache
    /\ seen' = seen \o prepared.seen
    /\ receiver' = Idle
    /\ UNCHANGED <<attempts, acknowledged, state, wakeup>>

(* The whole batch enters the queue; only then are its trades remembered.  *)
(* Without a batch the suppressed trades are renewed at once.              *)
Publish(prepared) ==
    /\ IF prepared.batch = <<>>
         THEN UNCHANGED <<queue, delivered, wakeup>>
         ELSE /\ queue' = Append(queue, prepared.batch)
              /\ delivered' = Append(delivered, prepared.batch)
              /\ wakeup' = TRUE
    /\ cache' = prepared.cache
    /\ seen' = seen \o prepared.seen
    /\ receiver' = Idle
    /\ UNCHANGED <<attempts, acknowledged, state>>

(* A second acknowledgement of a coin changes nothing. *)
Acknowledge(coin) ==
    /\ attempts' = [attempts EXCEPT ![coin] = "ACKNOWLEDGED"]
    /\ acknowledged' = acknowledged \cup {coin}
    /\ state' = IF acknowledged' = Coins THEN "ACTIVE" ELSE state
    /\ receiver' = Idle
    /\ UNCHANGED <<deliveryVars, wakeup>>

(* MUTANT: the trades are remembered while their batch still waits. *)
AwaitRoomRemembering(prepared) ==
    /\ receiver' = [at |-> "put", prepared |-> prepared]
    /\ cache' = prepared.cache
    /\ seen' = seen
    /\ UNCHANGED <<attempts, acknowledged, state, queue, delivered, wakeup>>

(* The queue is full: nothing is committed until the batch is in. *)
AwaitRoom(prepared) ==
    /\ receiver' = [at |-> "put", prepared |-> prepared]
    /\ UNCHANGED <<attempts, acknowledged, state, deliveryVars, wakeup>>

Commit(prepared) ==
    IF prepared.coin # None
      THEN Acknowledge(prepared.coin)
      ELSE IF prepared.batch # <<>> /\ Len(queue) >= QueueCapacity
             THEN AwaitRoom(prepared)
             ELSE Publish(prepared)

OutcomeAccepted ==
    /\ ReceiverAt("outcome")
    /\ ~receiver.prepared.rejected
    /\ Commit(receiver.prepared)
    /\ UNCHANGED <<producer, session, sending, uncertain, tasks, gapVars, frames, consumer, endVars>>

(* The rejection is on record: the commit raises it. *)
RejectionAccepted ==
    /\ ReceiverAt("outcome")
    /\ receiver.prepared.rejected
    /\ ReceiverFails
    /\ UNCHANGED stickyGap

Put ==
    /\ ReceiverAt("put")
    /\ Len(queue) < QueueCapacity
    /\ Publish(receiver.prepared)
    /\ UNCHANGED <<producer, session, sending, uncertain, tasks, gapVars, frames, consumer, endVars>>

PutTimesOut ==
    /\ ReceiverAt("put")
    /\ stickyGap' = TRUE
    /\ ReceiverFails

-----------------------------------------------------------------------------
(* The end of the run.                                                     *)

CloseOutcomeSink ==
    /\ producer = "closing"
    /\ closed = {}
    /\ closed' = {"outcome"}
    /\ UNCHANGED <<runVars, sessionVars, gapVars, frames, deliveryVars, consumerVars, terminal>>

(* MUTANT: the end is recorded without waking the consumer. *)
CloseRawSinkQuietly ==
    /\ producer = "closing"
    /\ closed = {"outcome"}
    /\ closed' = {"outcome", "raw"}
    /\ producer' = "ended"
    /\ terminal' = state
    /\ UNCHANGED <<state, session, sessionVars, gapVars, frames, deliveryVars, consumerVars>>

(* The close succeeded, failed, timed out or was canceled: the run is over. *)
CloseRawSink ==
    /\ producer = "closing"
    /\ closed = {"outcome"}
    /\ closed' = {"outcome", "raw"}
    /\ producer' = "ended"
    /\ terminal' = state
    /\ wakeup' = TRUE
    /\ UNCHANGED <<state, session, sessionVars, gapVars, frames, deliveryVars, consumer>>

-----------------------------------------------------------------------------
(* The consumer: one round of the loop in _receive_batch_private.          *)

(* MUTANT: the end is looked at before the queue. *)
AnswerEndFirst ==
    IF terminal # None
      THEN /\ consumer' = "told"
           /\ UNCHANGED queue
      ELSE IF queue # <<>>
             THEN /\ queue' = Tail(queue)
                  /\ consumer' = "idle"
             ELSE /\ consumer' = "waiting"
                  /\ UNCHANGED queue

Answer ==
    IF queue # <<>>
      THEN /\ queue' = Tail(queue)
           /\ consumer' = "idle"
      ELSE /\ consumer' = IF terminal # None THEN "told" ELSE "waiting"
           /\ UNCHANGED queue

ConsumerRound ==
    /\ consumer = "waiting" => wakeup
    /\ wakeup' = FALSE
    /\ Answer
    /\ UNCHANGED <<runVars, sessionVars, gapVars, frames, cache, delivered, seen, endVars>>

(* The call is canceled at its await. *)
ConsumerCanceled ==
    /\ consumer = "waiting"
    /\ consumer' = "idle"
    /\ UNCHANGED <<runVars, sessionVars, gapVars, frames, deliveryVars, wakeup, endVars>>

-----------------------------------------------------------------------------
Next ==
    \/ ConnectFailsForNow \/ ConnectFailsForGood \/ Connected \/ CancelRun
    \/ SessionEnds \/ Leave \/ Reconnect
    \/ HeartbeatFails
    \/ ActivationStarts \/ SendReturns \/ ActivationCompletes \/ ActivationFails
    \/ ReceiveFails \/ Receive \/ SinkFails \/ RawAccepted \/ OutcomeAccepted
    \/ RejectionAccepted \/ Put \/ PutTimesOut
    \/ CloseOutcomeSink \/ CloseRawSink
    \/ ConsumerRound \/ ConsumerCanceled

Spec == Init /\ [][Next]_vars

(* The event loop runs what is ready, both closes have hard deadlines, and *)
(* the consumer calls again after each batch.  Nothing is assumed of the   *)
(* venue, the sinks or the tasks of a session.                             *)
Fairness ==
    /\ WF_vars(SessionEnds) /\ WF_vars(Leave)
    /\ WF_vars(CloseOutcomeSink) /\ WF_vars(CloseRawSink)
    /\ WF_vars(ConsumerRound)

FairSpec == Spec /\ Fairness

-----------------------------------------------------------------------------
(* Properties.                                                             *)

(* Types, and the two bounded buffers: __init__ (the queue's maxsize) and  *)
(* the trim of _prepare_valid_trades.                                      *)
TypeOK ==
    /\ producer \in {"connect", "session", "leaving", "backoff", "closing", "ended"}
    /\ state \in {"CONNECTING", "SUBSCRIBING", "ACTIVE", "BACKING_OFF", "FAILED", "STOPPED"}
    /\ session \in 1..MaxSessions
    /\ attempts \in [Coins -> {"PENDING", "SEND_STARTED", "SENT", "ACKNOWLEDGED"}]
    /\ acknowledged \subseteq Coins
    /\ {uncertain, stickyGap, wakeup} \subseteq BOOLEAN
    /\ sending \in 0..NumCoins + 1
    /\ tasks \in [Tasks -> {"running", "retry", "fatal", "done"}]
    /\ receiver.at \in {"recv", "raw", "outcome", "put"}
    /\ Len(cache) <= DedupCapacity
    /\ Len(queue) <= QueueCapacity
    /\ terminal \in {None, "FAILED", "STOPPED"}
    /\ consumer \in {"idle", "waiting", "told"}
    /\ closed \subseteq {"outcome", "raw"}
    /\ frames \in 0..MaxFrames

(* A trade is suppressed as a duplicate only if its very version reached   *)
(* the queue before: a batch that was waiting for room when the session    *)
(* ended is delivered by the next session that sees its trades             *)
(* (_commit_prepared_message: the cache changes after the put).            *)
SuppressedWasDelivered ==
    \A i \in DOMAIN seen : ~seen[i].new =>
        \E b \in DOMAIN delivered : \E e \in DOMAIN delivered[b] :
            /\ delivered[b][e].id = seen[i].id
            /\ delivered[b][e].version = seen[i].version

OtherIdsBetween(i, j) == {seen[k].id : k \in i + 1..j - 1} \ {seen[i].id}

(* An id is delivered twice only in different frames, and only after       *)
(* dedup_capacity other ids were seen since its last occurrence            *)
(* (_prepare_valid_trades: move_to_end, and the frame's own fingerprints). *)
RepeatOnlyAfterEviction ==
    \A i, j \in DOMAIN seen :
        (i < j /\ seen[i].id = seen[j].id /\ seen[j].new) =>
            /\ seen[i].frame # seen[j].frame
            /\ Cardinality(OtherIdsBetween(i, j)) >= DedupCapacity

(* The dedup cache is exact in both directions: no trade is suppressed that *)
(* was not delivered, and none is repeated that the cache can still know.   *)
DedupExact == SuppressedWasDelivered /\ RepeatOnlyAfterEviction

(* An event is marked as following a gap exactly when its session is not   *)
(* the first that may have been subscribed (_run_private 1363-1364,        *)
(* _subscribe_and_await_activation 1537).                                  *)
GapMarksLaterSessions ==
    \A b \in DOMAIN delivered : \A e \in DOMAIN delivered[b] :
        delivered[b][e].gap = (delivered[b][e].session # firstSent)

(* While tasks run, the acknowledged coins, their attempts and the state   *)
(* agree, whichever of acknowledgement and send return came first          *)
(* (_acknowledge, _subscribe_and_await_activation 1540).                   *)
AcknowledgementsAgree ==
    producer = "session" =>
        /\ acknowledged = {c \in Coins : attempts[c] = "ACKNOWLEDGED"}
        /\ state = "ACTIVE" <=> acknowledged = Coins

(* No new connection follows a fatal error, whatever other tasks met in    *)
(* the same turn of the loop (_run_session 1510-1514).                     *)
FatalNeverReconnects ==
    [][(\E t \in Tasks : tasks[t] = "fatal") => session' = session]_vars

(* The consumer's view is the bounded stream: batches whole and in order,  *)
(* never above the capacity, and no end before the last batch              *)
(* (_receive_batch_private, _commit_prepared_message).                     *)
Stream == INSTANCE BatchStream WITH
    Capacity <- QueueCapacity,
    waiting <- queue,
    taken <- Len(delivered) - Len(queue),
    ended <- terminal # None,
    told <- consumer = "told"

StreamSafe == Stream!SafeSpec

(* The end is told only after the outcome sink, then the raw sink, were    *)
(* closed, and nothing is connected any more (_run_private 1410-1416).     *)
ToldAfterCloses ==
    terminal # None => closed = {"outcome", "raw"} /\ producer = "ended"

(* A fatal error of any task reaches the consumer, after every batch       *)
(* (_signal_terminal_outcome sets both events).                            *)
FatalReachesConsumer == (\E t \in Tasks : tasks[t] = "fatal") ~> consumer = "told"

(* Every batch that was put is taken, even if the producer stalls forever  *)
(* (the wakeup is cleared before the queue is looked at).                  *)
EveryBatchTaken ==
    \A n \in 1..MaxFrames : Len(delivered) >= n ~> Len(delivered) - Len(queue) >= n
=============================================================================
