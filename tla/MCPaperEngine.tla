--------------------------- MODULE MCPaperEngine ---------------------------
(***************************************************************************)
(* Small feeds for model-checking PaperEngine.  Prices are whole ticks     *)
(* around 20, sizes at most 4 lots.                                        *)
(***************************************************************************)
EXTENDS PaperEngine

Quote(b, bs, a, as) == [bid |-> b, bidSize |-> bs, ask |-> a, askSize |-> as]

BothWays == {-2, 0, 2}

\* Two books whose mids cross the stops of the others' entries, thin enough
\* for partial exits, and a book without an ask; a venue mark below a long
\* stop while the book is not.
StopBbos == {Quote(19, 1, 20, 2), Quote(17, 1, 18, 1), Quote(19, 2, None, None)}
StopMarks == {18}

\* The same, with room to turn a long into a short within one handler.
TurnBbos == {Quote(19, 2, 20, 2), Quote(17, 1, 18, 2), Quote(21, 2, 22, 1)}

\* Books that rise against a short, also while its entry waits out the
\* latency, and one without an ask.
RisingBbos == {Quote(19, 2, 20, 1), Quote(22, 3, 23, 3), Quote(29, 4, 30, 4), Quote(23, 2, None, None)}
ShortTargets == {-3, 0}

\* A book and a lower one-sided book; a print below the long stop.
FeedBbos == {Quote(19, 2, 20, 3), Quote(17, 1, None, None)}
FeedTrades == {[price |-> 18, size |-> 2]}
FeedMarks == {20}
FeedOffsets == {-2, 1, 2}

\* The same price with two displayed sizes.
LevelBbos == {Quote(19, 4, 20, 4), Quote(17, 1, 18, 1), Quote(17, 2, 18, 1)}
LateOffsets == {-1, 1}
=============================================================================
