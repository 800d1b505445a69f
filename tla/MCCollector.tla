---------------------------- MODULE MCCollector ----------------------------
(***************************************************************************)
(* Small venues for model-checking HyperliquidCollector: a trade is a coin,*)
(* an id and a version, and a frame is one message of trades.              *)
(***************************************************************************)
EXTENDS HyperliquidCollector

Trade(coin, id) == [coin |-> coin, id |-> id, version |-> 1]
Conflicting(coin, id) == [coin |-> coin, id |-> id, version |-> 2]

\* Trades of two coins: more ids than the cache holds, repeated within and
\* across frames, with two versions of one of them.
SessionFrames ==
    {<<Trade(1, 3)>>,
     <<Trade(1, 1), Trade(1, 2), Trade(1, 1), Trade(1, 3)>>,
     <<Conflicting(1, 3), Trade(1, 2), Trade(1, 1), Trade(2, 4)>>}

\* One trade each of three frames: enough to fill a queue of two batches and
\* wait with the next; and a frame without a trade.
PlainFrames == {<<Trade(1, 1)>>, <<Trade(1, 2)>>, <<Trade(1, 3)>>, <<>>}
=============================================================================
